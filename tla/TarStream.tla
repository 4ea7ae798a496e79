----------------------------- MODULE TarStream -----------------------------
(***************************************************************************)
(* The tar format as archive/tar reads and writes it, over streams of      *)
(* units of half a block (256 bytes).  A unit is a record [k, v]: "head"   *)
(* and "tail" are the two halves of a member's header, "zero" is padding   *)
(* or half of a zero block, and every other kind is a half block of a      *)
(* member's contents.  All of this is outside the repository.              *)
(***************************************************************************)
EXTENDS Integers, Sequences, SequencesExt

Zero == [k |-> "zero", v |-> 0]
EndMarker == <<Zero, Zero, Zero, Zero>>

\* A member as the chunks its writer hands on one by one: the header, the
\* contents and the padding to a whole block.
MemberChunks(name, type, units) ==
  << <<[k |-> "head", v |-> [name |-> name, type |-> type, size |-> Len(units)]],
       [k |-> "tail", v |-> 0]>> >>
    \o [i \in DOMAIN units |-> <<units[i]>>]
    \o (IF Len(units) % 2 = 1 THEN << <<Zero>> >> ELSE <<>>)

\* tar.Writer.Close: two zero blocks.
ClosingChunks == << <<Zero, Zero>>, <<Zero, Zero>> >>

Verdict(kind, pos) == [kind |-> kind, pos |-> pos]

\* tar.Reader.Next at unit p, the contents of the previous member having been
\* read: padding, then a header or a zero block.  The end of the stream is
\* "EOF" in padding, at a block boundary and after one zero block.
NextMember(s, p) ==
  LET q == p + ((p - 1) % 2)
      Zeros(i) == s[i] = Zero /\ s[i + 1] = Zero
  IN CASE q > Len(s) -> Verdict("EOF", Len(s) + 1)
       [] q = Len(s) -> Verdict("error", q)
       [] q < Len(s) /\ s[q].k = "head" /\ s[q + 1].k = "tail" -> Verdict("member", q)
       [] q + 1 = Len(s) /\ Zeros(q) -> Verdict("EOF", q + 2)
       [] q + 2 = Len(s) /\ Zeros(q) -> Verdict("error", q)
       [] q + 3 <= Len(s) /\ Zeros(q) /\ Zeros(q + 2) -> Verdict("EOF", q + 4)
       [] OTHER -> Verdict("error", q)

\* The members of a stream in order, each with as much of its contents as is
\* there, how the walk over them ends, and the units the last Next consumed.
Scan(s) ==
  LET from[p \in 1 .. Len(s) + 1] ==
        LET next == NextMember(s, p)
            head == s[next.pos].v
            stop == next.pos + 2 + head.size
            member == [name |-> head.name, type |-> head.type, size |-> head.size,
                       body |-> SubSeq(s, next.pos + 2, IF stop <= Len(s) + 1 THEN stop - 1
                                                        ELSE Len(s))]
            rest == from[stop]
        IN IF next.kind # "member"
           THEN [members |-> <<>>, end |-> next.kind, pos |-> next.pos, last |-> next.pos - p]
           ELSE IF stop > Len(s) + 1
           THEN [members |-> <<member>>, end |-> "error", pos |-> p, last |-> 0]
           ELSE [rest EXCEPT !.members = <<member>> \o @]
  IN from[1]

Whole(member) == Len(member.body) = member.size
=============================================================================
