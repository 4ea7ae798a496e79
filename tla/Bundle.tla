------------------------------- MODULE Bundle -------------------------------
(***************************************************************************)
(* The capture bundle: its members (bundle/format.go, profiles.go), its    *)
(* validation in transit (validate.go), its opening for analysis (read.go) *)
(* and the reader over the memory segments it carries (segreader.go).      *)
(***************************************************************************)
EXTENDS TarStream, FiniteSetsExt

CONSTANTS SegmentNames,  \* the names of segment members, by index
          TopAddr,       \* math.MaxUint64
          MaxMetadata    \* DefaultMaxMetadataBytes and ...SegmentIndexBytes, in units

MetaMember == "meta.json"
SegmentsMember == "rodata/segments.json"
HeapDumpMember == "heap.dump"
FormatVersion == 1

SegmentMemberName(i) == SegmentNames[i]
IsSegment(name) == name \in Range(SegmentNames)

ProfileKinds == {"profiles/heap.pb.gz", "profiles/goroutine.pb.gz"}
IsProfile(name) == name \in ProfileKinds

\* The names of the segments are apart from the others.
ASSUME BundleAssumption ==
  Range(SegmentNames) \cap ({MetaMember, SegmentsMember, HeapDumpMember} \cup ProfileKinds) = {}

\* The status of the snapshot of read-only memory, whether the capture warned
\* about it, and the number and size of the segments.
Meta(version, segments, units, status, warnings) ==
  [version |-> version, segments |-> segments, units |-> units, status |-> status,
   warnings |-> warnings]

\* One JSON value and nothing after it.
DecodesAs(kind, body) == Len(body) = 1 /\ body[1].k = kind

Signature == [k |-> "dump", v |-> 0]

Recognized(name) ==
  \/ name \in {MetaMember, SegmentsMember, HeapDumpMember}
  \/ IsSegment(name) \/ IsProfile(name)

SumOf(sizes) == FoldLeft(LAMBDA a, b : a + b, 0, sizes)
-----------------------------------------------------------------------------
(* ValidateArchive.                                                         *)

\* Slip: one zero block is enough.
HalfMarker(read) == read >= 2

\* Two zero blocks: 1024 bytes consumed by the Next that met the end.
CompleteMarker(read) == read >= 4

\* The members of one name, by their place, and the contents of the only one.
Named(members, name) == {i \in DOMAIN members : members[i].name = name}
BodyOf(members, name) == members[CHOOSE i \in Named(members, name) : TRUE].body

SegmentsOf(members) == SelectSeq(members, LAMBDA m : IsSegment(m.name))

\* What the reader of one member checks.
SoundMember(m) ==
  /\ Whole(m)
  /\ Recognized(m.name) => m.type = "regular"
  /\ m.name \in {MetaMember, SegmentsMember} => m.size <= MaxMetadata
  /\ m.name = MetaMember => DecodesAs("meta", m.body)
  /\ m.name = SegmentsMember => DecodesAs("index", m.body)
  /\ m.name = HeapDumpMember => m.size > 0 /\ m.body[1] = Signature

IndexOf(members) ==
  IF Named(members, SegmentsMember) = {} THEN <<>> ELSE BodyOf(members, SegmentsMember)[1].v

\* The index names every segment member exactly once, with its size.
IndexMatches(index, segments) ==
  /\ Len(segments) = Len(index)
  /\ \A i \in DOMAIN index :
       /\ \E j \in DOMAIN segments :
            segments[j].name = index[i].member /\ segments[j].size = index[i].size
       /\ \A j \in DOMAIN index : index[i].member = index[j].member => i = j
       /\ index[i].addr <= TopAddr - index[i].size

ValidateArchive(s) ==
  LET scan == Scan(s)
      members == scan.members
      meta == BodyOf(members, MetaMember)[1].v
      segments == SegmentsOf(members)
  IN /\ scan.end = "EOF" /\ CompleteMarker(scan.last)
     /\ \A i \in DOMAIN members : SoundMember(members[i])
     /\ \A i, j \in DOMAIN members :
          Recognized(members[i].name) /\ members[i].name = members[j].name => i = j
     /\ Named(members, MetaMember) # {} /\ Named(members, HeapDumpMember) # {}
     /\ meta.version \in 1 .. FormatVersion
     /\ meta.segments = Len(segments)
     /\ meta.units = SumOf([i \in DOMAIN segments |-> segments[i].size])
     /\ IndexMatches(IndexOf(members), segments)
     /\ \A i \in scan.pos .. Len(s) : s[i] = Zero
-----------------------------------------------------------------------------
(* SegmentsReader.                                                          *)

Overlapping(index) ==
  \E i, j \in DOMAIN index :
    /\ i # j /\ index[i].size > 0 /\ index[j].size > 0
    /\ index[i].addr <= index[j].addr /\ index[j].addr < index[i].addr + index[i].size

\* NewSegmentsReader.
SegmentsFit(index, data) ==
  /\ \A i \in DOMAIN index : Len(data[i]) = index[i].size /\ index[i].addr <= TopAddr - index[i].size
  /\ ~ Overlapping(index)

\* ReadAtAddr: the bytes of one segment, or nothing.
SegmentRead(segments, addr, size) ==
  LET holders == {i \in DOMAIN segments :
                    /\ segments[i].addr <= addr
                    /\ addr + size <= segments[i].addr + Len(segments[i].units)}
      holder == segments[CHOOSE i \in holders : TRUE]
  IN IF size = 0 THEN [ok |-> TRUE, units |-> <<>>]
     ELSE IF addr = 0 \/ addr > TopAddr - size \/ holders = {} THEN [ok |-> FALSE, units |-> <<>>]
     ELSE [ok |-> TRUE, units |-> SubSeq(holder.units, addr - holder.addr + 1,
                                         addr - holder.addr + size)]
-----------------------------------------------------------------------------
(* OpenWithOptions.  limits holds the bounds of the members kept in memory; *)
(* broken is the step of the extraction of the dump that fails, if any.     *)

Unopened == [ok |-> TRUE, dump |-> FALSE, temp |-> FALSE, seen |-> {}, meta |-> <<>>,
             index |-> <<>>, data |-> <<>>, rodata |-> 0, profiles |-> <<>>, profileUnits |-> 0]

\* Slip: an error that does not remove what was extracted.
LeaveDump(b) == [b EXCEPT !.ok = FALSE]

\* cleanupDump, on every error once the dump may have been extracted.
Abandon(b) == [b EXCEPT !.ok = FALSE, !.temp = FALSE]

WithinLimits(b, m, limits) ==
  CASE m.name = MetaMember -> m.size <= limits.metadata
    [] m.name = SegmentsMember -> m.size <= limits.index
    [] IsProfile(m.name) -> m.size <= limits.profiles - b.profileUnits
    [] IsSegment(m.name) -> m.size <= limits.rodata - b.rodata
    [] OTHER -> TRUE

Admissible(b, m, limits) ==
  Recognized(m.name) => m.type = "regular" /\ m.name \notin b.seen /\ WithinLimits(b, m, limits)

\* The dump is extracted to a temporary file.
ExtractDump(b, m, broken) ==
  IF broken = "create" THEN [b EXCEPT !.ok = FALSE]
  ELSE IF broken # "none" \/ ~ Whole(m) THEN Abandon([b EXCEPT !.temp = TRUE])
  ELSE [b EXCEPT !.temp = TRUE, !.dump = TRUE]

Keep(b, m) ==
  CASE m.name = MetaMember -> [b EXCEPT !.meta = m.body]
    [] m.name = SegmentsMember -> [b EXCEPT !.index = m.body[1].v]
    [] IsProfile(m.name) -> [b EXCEPT !.profiles = Append(@, m), !.profileUnits = @ + m.size]
    [] IsSegment(m.name) -> [b EXCEPT !.data = Append(@, m), !.rodata = @ + m.size]
    [] OTHER -> b

\* Member by member; the first error ends the loop.  An unknown member is
\* skipped without reading it: the next header is where its cut is noticed.
TakeMember(b, m, limits, broken) ==
  LET seen == [b EXCEPT !.seen = @ \cup {m.name}]
  IN IF ~ b.ok THEN b
     ELSE IF ~ Admissible(b, m, limits) THEN Abandon(b)
     ELSE IF m.name = HeapDumpMember THEN ExtractDump(seen, m, broken)
     ELSE IF \/ ~ Whole(m)
             \/ m.name = MetaMember /\ ~ DecodesAs("meta", m.body)
             \/ m.name = SegmentsMember /\ ~ DecodesAs("index", m.body)
     THEN Abandon(b)
     ELSE Keep(seen, m)

\* Slip: the segments by their place in the archive.
DataInOrder(b, i) == IF i \in DOMAIN b.data THEN b.data[i].body ELSE <<>>

DataFor(b, i) == BodyOf(b.data, b.index[i].member)

\* What is checked once the archive has been read.
Complete(b) ==
  /\ b.meta # <<>> /\ b.meta[1].v.version \in 1 .. FormatVersion
  /\ b.dump
  /\ \A i \in DOMAIN b.index : Named(b.data, b.index[i].member) # {}
  /\ SegmentsFit(b.index, [i \in DOMAIN b.index |-> DataFor(b, i)])

\* The read-only memory is not known to be complete.
Partial(meta) == meta.status # "ok" \/ meta.warnings

\* The bundle handed out: what it warns about, and its segments.
Handed(b) ==
  [ok |-> TRUE, temp |-> TRUE, meta |-> b.meta[1].v,
   profiles |-> {b.profiles[i].name : i \in DOMAIN b.profiles},
   segments |-> [i \in DOMAIN b.index |-> [addr |-> b.index[i].addr, units |-> DataFor(b, i)]],
   warned |-> Partial(b.meta[1].v) \/ b.index = <<>>]

Refused(b) == [ok |-> FALSE, temp |-> Abandon(b).temp]

TakeAll(members, limits, broken) ==
  LET after[k \in 0 .. Len(members)] ==
        IF k = 0 THEN Unopened ELSE TakeMember(after[k - 1], members[k], limits, broken)
  IN after[Len(members)]

Open(s, limits, broken) ==
  LET scan == Scan(s)
      b == TakeAll(scan.members, limits, broken)
  IN IF ~ b.ok THEN [ok |-> FALSE, temp |-> b.temp]
     ELSE IF scan.end # "EOF" \/ ~ Complete(b) THEN Refused(b)
     ELSE Handed(b)
=============================================================================
