--------------------------- MODULE BundleCapture ---------------------------
(***************************************************************************)
(* What the target puts into a bundle: the read-only memory it selects     *)
(* (bundle/capture.go, addrspace/proc_linux.go) and the tar it writes      *)
(* (bundle/write.go).  An address is one unit of memory; `present' is the  *)
(* set of addresses that can be read at the moment.                        *)
(***************************************************************************)
EXTENDS Bundle

CONSTANTS Mappings,   \* /proc/self/maps: a sequence of [start, size, read, write]
          ChunkSize   \* segmentChunkSize, in units

\* SegmentMemberName gives every segment a name of its own.
ASSUME CaptureAssumption ==
  /\ Mappings \in Seq([start : Nat, size : Nat, read : BOOLEAN, write : BOOLEAN])
  /\ ChunkSize \in Nat \ {0} /\ TopAddr \in Nat
  /\ \A i \in DOMAIN Mappings :
       /\ SegmentNames[i] \in Range(SegmentNames)
       /\ \A j \in DOMAIN Mappings : SegmentNames[i] = SegmentNames[j] => i = j

MemoryAt(addr, size) == [i \in 1 .. size |-> [k |-> "mem", v |-> addr + i - 1]]
Addresses(m) == m.start .. m.start + m.size - 1

mappingEligibleForStringBody(m) == m.read /\ ~ m.write

EligibleStringRanges ==
  LET upTo[k \in 0 .. Len(Mappings)] ==
        IF k = 0 THEN <<>>
        ELSE IF mappingEligibleForStringBody(Mappings[k]) THEN Append(upTo[k - 1], Mappings[k])
        ELSE upTo[k - 1]
  IN upTo[Len(Mappings)]

\* ProcessReader.ReadAtAddr succeeds: inside one eligible mapping, all of it
\* readable now.
CanRead(present, addr, size) ==
  \/ size = 0
  \/ /\ addr # 0 /\ addr <= TopAddr - size
     /\ \E i \in DOMAIN EligibleStringRanges :
          addr .. addr + size - 1 \subseteq Addresses(EligibleStringRanges[i])
     /\ addr .. addr + size - 1 \subseteq present

\* The first and the last chunk of a range.
probeRange(present, m) ==
  LET probe == IF ChunkSize > m.size THEN m.size ELSE ChunkSize
  IN /\ CanRead(present, m.start, probe)
     /\ m.size > probe => CanRead(present, m.start + m.size - probe, probe)

NoSegments(budget) == [segments |-> <<>>, budget |-> budget, status |-> "ok", skipped |-> FALSE]

\* A range that cannot be read, or does not fit, is left out with a warning.
Collect(sofar, m, present) ==
  IF m.size = 0 THEN sofar
  ELSE IF ~ probeRange(present, m) THEN [sofar EXCEPT !.skipped = TRUE]
  ELSE IF m.size > sofar.budget THEN [sofar EXCEPT !.status = "truncated"]
  ELSE [sofar EXCEPT !.segments = Append(@, m), !.budget = @ - m.size]

CollectAll(present, budget) ==
  LET after[k \in 0 .. Len(EligibleStringRanges)] ==
        IF k = 0 THEN NoSegments(budget)
        ELSE Collect(after[k - 1], EligibleStringRanges[k], present)
  IN after[Len(EligibleStringRanges)]

collectSegments(present, budget) ==
  LET all == CollectAll(present, budget)
  IN IF all.segments = <<>> /\ all.status = "ok" THEN [all EXCEPT !.status = "unavailable"] ELSE all

\* What CaptureSelf hands to Write: reader is "disabled" by the options,
\* "missing" when /proc/self cannot be opened, or "open".
Collected(present, budget, reader) ==
  CASE reader = "disabled" -> [NoSegments(budget) EXCEPT !.status = "disabled"]
    [] reader = "missing" -> [NoSegments(budget) EXCEPT !.status = "unavailable"]
    [] reader = "open" -> collectSegments(present, budget)

Infos(segments) ==
  [i \in DOMAIN segments |-> [member |-> SegmentMemberName(i), addr |-> segments[i].start,
                              size |-> segments[i].size]]

Metadata(collected) ==
  Meta(FormatVersion, Len(collected.segments),
       SumOf([i \in DOMAIN collected.segments |-> collected.segments[i].size]),
       collected.status, collected.skipped)

writeMember(name, units) == MemberChunks(name, "regular", units)

MetaChunks(meta) == writeMember(MetaMember, <<[k |-> "meta", v |-> meta]>>)
IndexChunks(infos) ==
  IF infos = <<>> THEN <<>> ELSE writeMember(SegmentsMember, <<[k |-> "index", v |-> infos]>>)
SegmentChunks(infos) ==
  FlattenSeq([i \in DOMAIN infos |-> writeMember(infos[i].member,
                                                 MemoryAt(infos[i].addr, infos[i].size))])
ProfileChunks(names) ==
  FlattenSeq([i \in DOMAIN names |-> writeMember(names[i], <<[k |-> "profile", v |-> 0]>>)])
DumpChunks(units) == writeMember(HeapDumpMember, units)

\* Slip: the dump right after the metadata, as soon as it is at hand.
DumpFirst(collected, names, dump) ==
  LET infos == Infos(collected.segments)
  IN MetaChunks(Metadata(collected)) \o DumpChunks(dump) \o IndexChunks(infos)
       \o SegmentChunks(infos) \o ProfileChunks(names) \o ClosingChunks

\* The Writes of one bundle in order.  The contents of a segment are read
\* from memory only when their turn comes.
Write(collected, names, dump) ==
  LET infos == Infos(collected.segments)
  IN MetaChunks(Metadata(collected)) \o IndexChunks(infos) \o SegmentChunks(infos)
       \o ProfileChunks(names) \o DumpChunks(dump) \o ClosingChunks

\* rangeReader.Read: the memory a chunk needs can be read.
ChunkReadable(present, chunk) ==
  \A i \in DOMAIN chunk : chunk[i].k = "mem" => CanRead(present, chunk[i].v, 1)

\* artifactWriter.Write: the chunk is refused whole when it does not fit; a
\* limit of 0 is none.
WithinArtifact(written, chunk, max) == max > 0 => Len(chunk) <= max - Len(written)
=============================================================================
