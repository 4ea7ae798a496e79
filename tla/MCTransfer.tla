----------------------------- MODULE MCTransfer -----------------------------
(***************************************************************************)
(* The instance of Transfer that TLC checks: the mappings a bundle takes,  *)
(* one with a middle chunk that can vanish, one whose last chunk may never *)
(* be readable, and one that is writable; and the archives other servers   *)
(* send.                                                                   *)
(***************************************************************************)
EXTENDS Transfer

MCSegmentNames ==
  <<"rodata/00000.bin", "rodata/00001.bin", "rodata/00002.bin", "rodata/00003.bin">>

Mapping(start, size, write) == [start |-> start, size |-> size, read |-> TRUE, write |-> write]
MCMappings == <<Mapping(1, 3, FALSE), Mapping(4, 1, TRUE), Mapping(5, 1, FALSE),
                Mapping(6, 2, FALSE)>>

MCHoles == {{}, {7}}
MCDump == <<Signature, [k |-> "dump", v |-> 1]>>

MCModes == {[stdout |-> FALSE, max |-> 0], [stdout |-> FALSE, max |-> 11],
            [stdout |-> TRUE, max |-> 12]}

Heap == "profiles/heap.pb.gz"
Option(budget, reader, profiles, max) ==
  [budget |-> budget, reader |-> reader, profiles |-> profiles, max |-> max]
MCOptions == {Option(9, "open", <<Heap>>, 0), Option(3, "open", <<>>, 14),
              Option(9, "disabled", <<>>, 12), Option(9, "missing", <<>>, 1)}

Everything == [metadata |-> 9, index |-> 9, profiles |-> 9, rodata |-> 9]
MCReadLimits == {Everything, [Everything EXCEPT !.rodata = 3]}

File(chunks) == FlattenSeq(chunks)
Index(infos) == IndexChunks(infos)
Info(name, addr, size) == [member |-> name, addr |-> addr, size |-> size]
Both == <<Info(MCSegmentNames[1], 1, 3), Info(MCSegmentNames[2], 5, 1)>>
Overlap == <<Info(MCSegmentNames[1], 1, 3), Info(MCSegmentNames[2], 3, 1)>>
Full2 == MetaChunks(Meta(1, 2, 4, "ok", TRUE))
Empty == MetaChunks(Meta(1, 0, 0, "ok", FALSE))
Segments(infos) == SegmentChunks(infos)
Pair == <<Info(MCSegmentNames[1], 1, 1), Info(MCSegmentNames[2], 3, 1)>>
Swapped == SegmentChunks(<<Pair[2], Pair[1]>>)
Dump == DumpChunks(MCDump)

Sound(chunks) == [stream |-> File(chunks), whole |-> TRUE]
Unsound(chunks) == [stream |-> File(chunks), whole |-> FALSE]

MCForeign == {
  \* Members in another order, an unknown member, padding after the end.
  Sound(Dump \o Swapped \o Index(Pair) \o writeMember("notes", <<Signature>>)
          \o MetaChunks(Meta(1, 2, 2, "ok", TRUE)) \o ClosingChunks \o ClosingChunks),
  \* No segments although the status is "ok".
  Sound(Empty \o Dump \o ClosingChunks),
  \* Segments that overlap: sound in transit, refused when opened.
  Sound(Full2 \o Index(Overlap) \o Segments(Overlap) \o Dump \o ClosingChunks),
  Unsound(Empty \o Dump),
  Unsound(Empty \o Dump \o << <<Zero, Zero>> >>),
  Unsound(Empty \o Dump \o Dump \o ClosingChunks),
  Unsound(Full2 \o Dump \o ClosingChunks),
  Unsound(Full2 \o Index(Both) \o Segments(<<Both[1]>>) \o Dump \o ClosingChunks),
  Unsound(MetaChunks(Meta(2, 0, 0, "ok", FALSE)) \o Dump \o ClosingChunks),
  Unsound(Empty \o MemberChunks(HeapDumpMember, "link", MCDump) \o ClosingChunks),
  Unsound(Empty \o DumpChunks(<<[k |-> "text", v |-> 0]>>) \o ClosingChunks),
  Unsound(Dump \o ClosingChunks),
  Unsound(Empty \o Dump \o ClosingChunks \o << <<Signature, Signature>> >>) }

\* What the theorems about Transfer suppose of other servers.
ASSUME HonestServers /\ TruthfulServers
=============================================================================
