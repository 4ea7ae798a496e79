------------------------------ MODULE MCLabels ------------------------------
(***************************************************************************)
(* Labels on hand-built processes.  Memory of an executable:               *)
(*   8..13  read-only data, 14..15 writable data whose bytes have changed  *)
(* and of the heap: runtime.g objects of four words from 24 on, label maps *)
(* (a slice header) from 40 on, label arrays from 48 on, strings from 72.  *)
(* A runtime keeps labels at word 2 (8-byte pointers) or 3 (4-byte); the   *)
(* other words of runtime.g hold a stale pointer to another label map.     *)
(***************************************************************************)
EXTENDS Labels

MCVerifiedTable ==
  << [prefix |-> <<"go1.25", ".">>, ptrSize |-> 8, bigEndian |-> FALSE, offset |-> 2],
     [prefix |-> <<"go1.25", ".">>, ptrSize |-> 4, bigEndian |-> FALSE, offset |-> 3],
     [prefix |-> <<"go1.24", ".">>, ptrSize |-> 8, bigEndian |-> FALSE, offset |-> 2],
     [prefix |-> <<"go1.24", ".">>, ptrSize |-> 4, bigEndian |-> FALSE, offset |-> 3] >>

MCHosts == {<<"linux", TRUE>>, <<"linux", FALSE>>, <<"freebsd", TRUE>>, <<"freebsd", FALSE>>,
            <<"darwin", TRUE>>, <<"windows", TRUE>>}

Sections ==
  { [addr |-> 8, file |-> <<61, 62, 63, 61, 62, 65>>, live |-> <<61, 62, 63, 61, 62, 65>>,
     read |-> TRUE, write |-> FALSE],
    [addr |-> 14, file |-> <<71, 72>>, live |-> <<73, 74>>, read |-> TRUE, write |-> TRUE],
    [addr |-> 4, file |-> <<1, 2>>, live |-> <<1, 2>>, read |-> FALSE, write |-> FALSE] }

-----------------------------------------------------------------------------
(* Strings: where their bytes are and what they say                           *)

Literal(slide, addr, text) == [addr |-> addr + slide, text |-> text, heap |-> FALSE]
Dynamic(addr, text) == [addr |-> addr, text |-> text, heap |-> TRUE]

\* "ab" and "c" in read-only data, "g" in memory the program has overwritten.
Ab(slide) == Literal(slide, 8, <<61, 62>>)
C(slide) == Literal(slide, 10, <<63>>)
Changed(slide) == Literal(slide, 14, <<73>>)
Key == Dynamic(72, <<81>>)
Value == Dynamic(74, <<82, 83>>)
Empty == Dynamic(0, <<>>)
Long == Dynamic(76, <<84, 84, 84>>)

\* Bytes 61 to 84 are a character each, 90 and 91 together are one more; 91 and
\* 92 alone are not UTF-8.
MCEncodings == {<<b>> : b \in 61 .. 84} \cup {<<90, 91>>}
Wide == Dynamic(80, <<90, 91>>)
Odd1 == Dynamic(82, <<91>>)
Odd2 == Dynamic(84, <<92>>)

StringObject(s) == IF s.heap /\ s.text # <<>> THEN {[addr |-> s.addr, data |-> s.text]} ELSE {}

-----------------------------------------------------------------------------
(* The runtime writes labels: <<key, value>> pairs of strings                 *)

ArrayWords(pairs) ==
  FoldLeft(LAMBDA w, p : w \o <<p[1].addr, Len(p[1].text), p[2].addr, Len(p[2].text)>>, <<>>, pairs)

LabelMap(addr, array, pairs, cap) ==
  {[addr |-> addr, data |-> <<IF pairs = <<>> THEN 0 ELSE array, Len(pairs), cap>>]}
  \cup (IF pairs = <<>> THEN {} ELSE {[addr |-> array, data |-> ArrayWords(pairs)]})
  \cup UNION {StringObject(pairs[i][1]) \cup StringObject(pairs[i][2]) : i \in DOMAIN pairs}

G(addr, offset, labels, stale) ==
  [addr |-> addr, data |-> [i \in 1 .. 4 |-> IF i = offset + 1 THEN labels ELSE stale]]

Strings(pairs) == [i \in DOMAIN pairs |-> <<pairs[i][1].text, pairs[i][2].text>>]

\* The objects that make up a goroutine's labels, if all of it is in the heap.
Parts(g, map) ==
  IF \E o \in map : o.addr >= 72 THEN {g.addr} \cup {o.addr : o \in map} ELSE {}

World(version, ptrSize, bigEndian, offset, slide, first, second, firstCap) ==
  LET m1 == LabelMap(40, 48, first, firstCap)
      m2 == LabelMap(44, 60, second, Len(second))
      g1 == G(24, offset, 40, 44)
      g2 == G(28, offset, IF second = <<>> THEN 0 ELSE 44, 40)
  IN [version |-> version, ptrSize |-> ptrSize, bigEndian |-> bigEndian, offset |-> offset,
      slide |-> slide, sections |-> Sections,
      objects |-> {g1, g2} \cup m1 \cup m2,
      goroutines |-> <<[gid |-> 1, addr |-> 24], [gid |-> 2, addr |-> 28]>>,
      system |-> {2},
      written |-> <<Strings(first), Strings(second)>>,
      parts |-> <<IF \A i \in DOMAIN first : first[i][1].heap /\ first[i][2].heap
                  THEN Parts(g1, m1) ELSE {},
                  IF \A i \in DOMAIN second : second[i][1].heap /\ second[i][2].heap
                  THEN Parts(g2, m2) ELSE {}>>,
      want |-> {<<Key.text, Value.text>>}]

Go(ptrSize, offset, slide, first, second) ==
  World(<<"go1.25", ".", "3">>, ptrSize, FALSE, offset, slide, first, second, Len(first))

Mixed(slide) == << <<Ab(slide), C(slide)>>, <<Key, Value>> >>
Literals(slide) == << <<Ab(slide), C(slide)>> >>
Stale(slide) == << <<Key, Changed(slide)>> >>
InHeap == << <<Key, Value>> >>
WithEmpty == << <<Key, Empty>>, <<Empty, Value>> >>

\* A single other pointer to labels, which a probe takes for the labels field
\* when the dump lacks the labels of goroutine 2.
OneStale ==
  [Go(8, 2, 0, <<>>, InHeap) EXCEPT
     !.objects = (@ \ {G(24, 2, 40, 44)}) \cup {[addr |-> 24, data |-> <<44, 0, 40, 0>>]}]

Supported ==
  { Go(8, 2, 0, Mixed(0), InHeap), Go(8, 2, 3, Mixed(3), <<>>),
    Go(4, 3, 3, InHeap, Literals(3)), Go(4, 3, 0, Literals(0), Mixed(0)),
    Go(8, 2, 0, Stale(0), WithEmpty), Go(8, 2, 3, <<>>, Stale(3)),
    Go(4, 3, 0, InHeap, InHeap), OneStale }

\* Versions and machines the table does not cover; the last keeps its labels
\* where no family does.
Unsupported ==
  { World(<<"go1.25", ".", "3">>, 8, TRUE, 2, 0, InHeap, Mixed(0), 1),
    World(<<"go1.23", ".", "1">>, 8, FALSE, 3, 0, InHeap, Mixed(0), 1),
    World(<<"go1.250", ".", "1">>, 8, FALSE, 1, 0, Mixed(0), InHeap, 2),
    World(<<>>, 8, FALSE, 2, 0, InHeap, <<>>, 1) }

\* Dumps that were damaged, or exceed the limits: a capacity below the length,
\* a string and a list longer than allowed, and a goroutine and a pointer near
\* the end of the address space.
Damaged ==
  { World(<<"go1.24", ".", "3">>, 8, FALSE, 2, 0, Mixed(0), InHeap, 1),
    [Go(8, 2, 0, << <<Key, Long>> >>, InHeap) EXCEPT !.parts[1] = {}],
    Go(8, 2, 0, InHeap \o Mixed(0), InHeap),
    [Go(8, 2, 0, InHeap, InHeap) EXCEPT !.goroutines[1].addr = AddressLimit - 1, !.parts[1] = {}],
    [Go(8, 2, 0, InHeap, InHeap) EXCEPT
       !.objects = (@ \ {G(24, 2, 40, 44)}) \cup {G(24, 2, AddressLimit - 2, 44)}, !.parts[1] = {}],
    [Go(8, 2, 0, InHeap, <<>>) EXCEPT
       !.objects = {o \in @ : o.addr # 40} \cup {[addr |-> 40, data |-> <<0, 1, 1>>]}, !.parts[1] = {}] }

\* Label sets that differ, but not in JSON, and such that differ there as well,
\* for an odd key may change the order of the labels.
NotText ==
  { Go(8, 2, 0, << <<Key, Odd1>> >>, << <<Key, Odd2>> >>),
    Go(8, 2, 0, << <<Odd1, Value>>, <<Key, Wide>> >>, << <<Key, Wide>>, <<Odd2, Value>> >>),
    Go(8, 2, 0, << <<Key, Wide>> >>, << <<Key, Odd1>> >>),
    Go(8, 2, 0, << <<Odd1, Key>>, <<Wide, Key>> >>, << <<Odd2, Key>>, <<Wide, Key>> >>) }

MCWorlds == Supported \cup Unsupported \cup Damaged \cup NotText
=============================================================================
