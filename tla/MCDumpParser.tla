---------------------------- MODULE MCDumpParser ----------------------------
(***************************************************************************)
(* Integers of 8 bits in at most three cells of 3 + 1 bits, so that the    *)
(* last cell can overflow; pointers of one cell and of two in both byte    *)
(* orders; every dump cut after every cell.                                *)
(***************************************************************************)
EXTENDS DumpParser

\* A word of two cells holds what an integer holds.
ASSUME WordAssumption == (2 * Continue) * (2 * Continue) = MaxUint + 1

R(tag, vals) == [tag |-> tag, vals |-> vals]
Ptr(offset) == [kind |-> FieldKindPtr, offset |-> offset]
Iface(offset) == [kind |-> FieldKindIface, offset |-> offset]
Eface(offset) == [kind |-> FieldKindEface, offset |-> offset]

End == R(TagEOF, <<>>)
Small == R(TagParams, <<0, 1, 0, 9, <<1>>, <<>>, 1>>)
Big == R(TagParams, <<1, 2, 0, 255, <<>>, <<1, 2>>, 1>>)

\* At a small address and at one of three cells; inside another; empty.
Objects ==
  {R(TagObject, <<16, <<5, 0, 3, 0>>, <<Ptr(0), Ptr(1), Ptr(2)>> >>),
   R(TagObject, <<250, <<1, 2, 3, 4>>, <<Iface(0)>> >>),
   R(TagObject, <<18, <<9, 8>>, <<>> >>),
   R(TagObject, <<16, <<7, 6>>, <<>> >>),
   R(TagObject, <<20, <<>>, <<>> >>)}

Frame(sp) == R(TagStackFrame, <<sp, 0, 0, <<6, 0>>, 1, 2, 3, <<4>>, <<Ptr(0)>> >>)
Routine(id) == R(TagGoroutine, <<1, 2, id, 3, 4, 0, 1, 0, <<>>, 5, 6, 7, 0>>)
Thread == R(TagOSThread, <<1, 2, 3>>)
Deferred == R(TagDefer, <<1, 2, 3, 4, 5, 6, 7>>)

Others ==
  {R(TagType, <<9, 1, <<2>>, 1>>), R(TagOtherRoot, << <<1>>, 7>>),
   R(TagFinalizer, <<1, 2, 3, 4, 5>>), R(TagQueuedFinalizer, <<16, 2, 3, 4, 5>>),
   R(TagItab, <<3, 9>>), R(TagMemStats, <<1, 255, 0>>), Thread,
   R(TagData, <<30, <<4, 0, 6, 7>>, <<Ptr(0), Eface(0), Ptr(1)>> >>),
   R(TagBSS, <<60, <<4, 3, 2, 1>>, <<Ptr(2), Iface(0)>> >>),
   Routine(1), R(TagPanic, <<1, 2, 3, 4, 0, 6>>), Deferred,
   R(TagMemProf, <<1, 8, 1, <<1>>, <<2>>, 3, 4, 5>>), R(TagMemProf, <<1, 8, 0, 4, 5>>),
   R(TagAllocSample, <<16, 1>>)}

Faults ==
  {R(18, <<>>), R(TagType, <<9, 1, <<2>>, 2>>), R(TagType, <<9, 1, <<1, 2, 3>>, 1>>),
   R(TagParams, <<0, 3, 0, 9, <<>>, <<>>, 1>>),
   R(TagObject, <<16, <<5, 6>>, <<Ptr(2), Ptr(0)>> >>),
   R(TagObject, <<254, <<5, 6, 7>>, <<>> >>),
   R(TagObject, <<16, <<1, 1, 1, 1, 1>>, <<>> >>),
   R(TagData, <<254, <<5, 6, 7, 8>>, <<Ptr(0), Ptr(2)>> >>),
   R(TagBSS, <<30, <<5, 6>>, <<[kind |-> 5, offset |-> 0], Iface(255)>> >>)}

Sections == [1 .. 3 -> {Routine(2), Frame(50), Deferred, Thread}]

Written_ ==
  {<<params, r, End>> : params \in {Small, Big}, r \in Objects \cup Others \cup Faults}
    \cup {<<Small, a, b, End>> : a, b \in Objects}
    \cup {<<Small, Routine(1)>> \o s \o <<Frame(60), End>> : s \in Sections}
    \cup {<<r, Small, End>> : r \in Objects \cup Others \cup {Frame(50)}}
    \cup {<<R(TagItab, <<3, 9>>), R(TagItab, <<3, 8>>), End>>, <<Small, End, R(18, <<>>)>>,
          <<Small, R(TagMemStats, <<1, 255, 0>>), Deferred, Big, R(TagMemStats, <<2, 0, 1>>),
            R(TagObject, <<16, <<5, 0, 3, 0>>, <<Ptr(0), Ptr(1), Ptr(2)>> >>), End>>,
          <<R(TagType, <<9, 1, <<2>>, 1>>), R(TagType, <<9, 2, <<3, 4>>, 0>>), End>>,
          <<Small, R(18, <<>>), End>>, <<Small>>}

MCDumps == {[header |-> Header, records |-> s] : s \in Written_}
             \cup {[header |-> <<7>>, records |-> <<End>>],
                   [header |-> <<7, 1, 1, 1>>, records |-> <<End>>]}

MCOptionSets ==
  {[strict |-> TRUE, keepContents |-> FALSE, keepOffsets |-> TRUE, lazy |-> TRUE],
   [strict |-> FALSE, keepContents |-> TRUE, keepOffsets |-> FALSE, lazy |-> FALSE],
   [strict |-> FALSE, keepContents |-> FALSE, keepOffsets |-> FALSE, lazy |-> TRUE]}
=============================================================================
