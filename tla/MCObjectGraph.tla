---------------------------- MODULE MCObjectGraph ----------------------------
(***************************************************************************)
(* Three objects in a 3-bit address space, at any of five addresses (0     *)
(* among them) and with any of three sizes: disjoint, adjacent, nested,    *)
(* overlapping, duplicate, zero-sized and wrapping past the last address.  *)
(* The words point at starts, at interiors, past ends and at nothing.      *)
(***************************************************************************)
EXTENDS ObjectGraph

\* One object more than there are ids of two bits.
TooMany == [o \in 1 .. 5 |-> <<o, 1>>]

Layouts == [1 .. 3 -> {0, 1, 2, 3, 6} \X {0, 1, 3}]
Pointers == << <<1, 1, 5>>, <<0, 2, 4>>, <<6, 3, 2>> >>

Dump(layout) ==
  [objects |-> [o \in 1 .. Len(layout) |->
                  [addr |-> layout[o][1], size |-> layout[o][2],
                   pointers |-> Pointers[1 + ((o - 1) % 3)]]],
   goroutines |-> << [frames |-> <<1, 0, 5>>, sched |-> <<3, 0, 7>>] >>,
   globals |-> << [kind |-> "data", ptr |-> 2, slot |-> 1],
                  [kind |-> "data", ptr |-> 2, slot |-> 1],
                  [kind |-> "bss", ptr |-> 2, slot |-> 1] >>,
   finalizers |-> <<4>>]

MCInputs == {Dump(layout) : layout \in Layouts \cup {TooMany}}

\* As many objects as there are ids of one bit.
FullInputs == {Dump(<< <<1, 1>>, <<2, 1>> >>)}
=============================================================================
