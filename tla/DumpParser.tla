----------------------------- MODULE DumpParser -----------------------------
(***************************************************************************)
(* The heap dump parser (heapdump/parser.go): one step for the header, one *)
(* per record of the stream, and the resolver that later reads object      *)
(* contents back from the file (heapdump/contentresolver.go).              *)
(*                                                                         *)
(* The runtime wrote the records of dump; the parser is given the first    *)
(* cut cells of them, as a download or a full disk leaves them.  dump and  *)
(* cut are never read by the parser's steps, only by the properties.       *)
(***************************************************************************)
EXTENDS DumpReader

CONSTANTS Dumps,      \* [header, records]: what may have been written, each record [tag, vals]
          OptionSets, \* heapdump.Options: [strict, keepContents, keepOffsets, lazy]
          MemStatsWords  \* the words of a memstats record; 281 in the code


VARIABLES dump, cut,  \* what was written, and how much of it arrived
          file,       \* the cells the parser reads
          opts,       \* heapdump.Options
          status,     \* "header", "records", "ok", "failed" or "cancelled"
          pos,        \* reader.offset, as the index of the next cell
          snap,       \* parser.snap
          curG        \* parser.curG, as an index into snap.goroutines; 0 is nil

vars == <<dump, cut, file, opts, status, pos, snap, curG>>
inputVars == <<dump, cut, file, opts>>

TagEOF == 0
TagObject == 1
TagOtherRoot == 2
TagType == 3
TagGoroutine == 4
TagStackFrame == 5
TagParams == 6
TagFinalizer == 7
TagItab == 8
TagOSThread == 9
TagMemStats == 10
TagQueuedFinalizer == 11
TagData == 12
TagBSS == 13
TagDefer == 14
TagPanic == 15
TagMemProf == 16
TagAllocSample == 17

Newline == 0
Header == <<7, 1>>

ASSUME ParserAssumption == MemStatsWords \in Nat /\ Len(Header) < MaxLine

\* What each record consists of, in the order it is read.  The last word here
\* of a memprof record is the number of frames that follow it.
Shape ==
  [tag \in TagObject .. TagAllocSample |->
     CASE tag = TagParams -> <<"bool", "uint", "uint", "uint", "string", "string", "uint">>
       [] tag = TagType -> <<"uint", "uint", "string", "bool">>
       [] tag \in {TagObject, TagData, TagBSS} -> <<"uint", "bytes", "fields">>
       [] tag = TagOtherRoot -> <<"string", "uint">>
       [] tag \in {TagFinalizer, TagQueuedFinalizer} -> [i \in 1 .. 5 |-> "uint"]
       [] tag \in {TagItab, TagAllocSample} -> <<"uint", "uint">>
       [] tag \in {TagOSThread, TagMemProf} -> <<"uint", "uint", "uint">>
       [] tag = TagMemStats -> [i \in 1 .. MemStatsWords |-> "uint"]
       [] tag = TagGoroutine -> <<"uint", "uint", "uint", "uint", "uint", "bool", "bool", "uint",
                                  "string", "uint", "uint", "uint", "uint">>
       [] tag = TagStackFrame -> <<"uint", "uint", "uint", "bytes", "uint", "uint", "uint",
                                   "string", "fields">>
       [] tag = TagDefer -> [i \in 1 .. 7 |-> "uint"]
       [] tag = TagPanic -> [i \in 1 .. 6 |-> "uint"]]

StackShape(n) == [i \in 1 .. 3 * n + 2 |->
                    IF i > 3 * n \/ i % 3 = 0 THEN "uint" ELSE "string"]

\* heapsnapshot.ParseStats.
StatNames ==
  {"ObjectCount", "ObjectBytes", "ObjectPointers", "TypeCount", "ItabCount", "GoroutineCount",
   "StackFrameCount", "StackPointers", "OtherRootCount", "DataCount", "DataPointers", "BSSCount",
   "BSSPointers", "GlobalRootCount", "FinalizerCount", "QueuedFinalizers", "OSThreadCount",
   "DeferCount", "PanicCount", "MemProfCount", "AllocSampleCount", "UnknownRecords",
   "InterfaceFieldsDecoded", "EfaceFieldsDecoded"}

NoParams == [bigEndian |-> FALSE, ptrSize |-> 0, rest |-> <<>>]

\* heapsnapshot.HeapSnapshot, and the refs of the ContentResolver filled beside it.
EmptySnapshot ==
  [params |-> NoParams, types |-> <<>>, itabs |-> <<>>, memStats |-> <<>>,
   objects |-> <<>>, globals |-> <<>>, goroutines |-> <<>>, data |-> <<>>, bss |-> <<>>,
   finalizers |-> <<>>, queued |-> <<>>, threads |-> <<>>, profiles |-> <<>>, samples |-> <<>>, refs |-> <<>>,
   warnings |-> 0, stats |-> [name \in StatNames |-> 0]]

\* The snapshot with some counters raised.
Counted(s, raised) ==
  [s EXCEPT !.stats = [name \in StatNames |->
                         @[name] + IF name \in DOMAIN raised THEN raised[name] ELSE 0]]
\* A map with one more entry, or another value for its key.
With(f, key, val) == [x \in DOMAIN f \cup {key} |-> IF x = key THEN val ELSE f[x]]
-----------------------------------------------------------------------------
(* The runtime's writer.                                                    *)

EncodeUint(n) ==
  LET groups[m \in 0 .. MaxUint] ==
        IF m < Continue THEN <<m>>
        ELSE <<Continue + (m % Continue)>> \o groups[m \div Continue]
  IN groups[n]

EncodeOne(shape, val) ==
  CASE shape \in {"uint", "bool"} -> EncodeUint(val)
    [] shape \in {"string", "bytes"} -> EncodeUint(Len(val)) \o val
    [] shape = "fields" ->
         FlattenSeq([i \in DOMAIN val |-> EncodeUint(val[i].kind) \o EncodeUint(val[i].offset)])
           \o EncodeUint(FieldKindEol)

ShapeOf(record) ==
  CASE record.tag = TagMemProf -> Shape[TagMemProf] \o StackShape(record.vals[3])
    [] record.tag \in DOMAIN Shape \ {TagMemProf} -> Shape[record.tag]
    [] OTHER -> <<>>

\* What there is an encoding for.
Encodable(shape, val) ==
  CASE shape \in {"uint", "bool"} -> val \in 0 .. MaxUint
    [] shape \in {"string", "bytes"} -> val \in Seq(Cells) /\ Len(val) <= MaxUint
    [] shape = "fields" -> val \in Seq([kind : 1 .. MaxUint, offset : 0 .. MaxUint])

WellFormed(record) ==
  /\ record.tag \in 0 .. MaxUint
  /\ record.tag = TagMemProf => record.vals[3] \in 0 .. MaxUint
  /\ record.vals = [k \in DOMAIN ShapeOf(record) |-> record.vals[k]]
  /\ \A k \in DOMAIN record.vals : Encodable(ShapeOf(record)[k], record.vals[k])

ASSUME DumpsAssumption ==
  \A d \in Dumps :
    /\ d = [header |-> d.header, records |-> d.records]
    /\ d.header \in Seq(Cells \ {Newline})
    /\ d.records \in Seq(Range(d.records))
    /\ \A i \in DOMAIN d.records : WellFormed(d.records[i])

EncodeRecord(record) ==
  EncodeUint(record.tag)
    \o FlattenSeq([i \in DOMAIN record.vals |-> EncodeOne(ShapeOf(record)[i], record.vals[i])])

EncodeRecords(s) == FlattenSeq([i \in DOMAIN s |-> EncodeRecord(s[i])])

Encode(d) == d.header \o <<Newline>> \o EncodeRecords(d.records)
-----------------------------------------------------------------------------
Init ==
  /\ dump \in Dumps
  /\ cut \in 0 .. Len(Encode(dump))
  /\ file = SubSeq(Encode(dump), 1, cut)
  /\ opts \in OptionSets
  /\ status = "header" /\ pos = 1 /\ snap = EmptySnapshot /\ curG = 0

\* Any error loses the whole snapshot.
Fail == status' = "failed" /\ snap' = EmptySnapshot /\ curG' = 0 /\ UNCHANGED pos

\* The context is polled before each byte and each payload.
Cancel ==
  /\ status \in {"header", "records"}
  /\ status' = "cancelled" /\ snap' = EmptySnapshot /\ curG' = 0
  /\ UNCHANGED <<inputVars, pos>>

ParseHeader ==
  /\ status = "header"
  /\ LET line == ReadLine(file, Newline)
     IN IF line.err = "none" /\ line.val = Header
        THEN status' = "records" /\ pos' = line.pos /\ UNCHANGED <<snap, curG>>
        ELSE Fail
  /\ UNCHANGED inputVars

\* The tag of the next record.
Tag == Uvarint(file, pos)
Tagged(tag, read) == read.err = "none" /\ read.val = tag
At(tag) == status = "records" /\ Tagged(tag, Tag)

\* Slip: the end of the file taken for the end of the dump.
EndQuietly ==
  /\ status = "records" /\ Tag.err # "none"
  /\ status' = "ok" /\ UNCHANGED <<inputVars, pos, snap, curG>>

\* The file ends, or is damaged, where a tag is expected.
NoTag ==
  /\ status = "records" /\ Tag.err # "none"
  /\ Fail
  /\ UNCHANGED inputVars

\* Slip: only the next goroutine ends a goroutine's section.
StickyG(tag) == IF tag = TagGoroutine THEN Len(snap.goroutines) + 1 ELSE curG

\* The goroutine whose section the record after this one may be in.
NextG(tag) ==
  CASE tag = TagGoroutine -> Len(snap.goroutines) + 1
    [] tag \in {TagStackFrame, TagDefer, TagPanic} -> curG
    [] OTHER -> 0

Joined(head, stack) ==
  IF stack.err # "none" THEN stack ELSE Got(head.val \o stack.val, stack.pos)
WithStack(head) ==
  IF head.err # "none" THEN head
  ELSE Joined(head, ReadAll(file, head.pos, StackShape(head.val[3])))

Parts(tag, p) ==
  IF tag = TagMemProf THEN WithStack(ReadAll(file, p, Shape[tag])) ELSE ReadAll(file, p, Shape[tag])

\* The next record, if it has this tag.
RecordAt(tag) == IF At(tag) THEN {Parts(tag, Tag.pos)} ELSE {}

\* One record: its parts are read in order; a part that cannot be read, or a
\* record its parse function refuses, ends the parse.
Parse(record, tag, refused, parsed) ==
  /\ IF record.err # "none" \/ refused THEN Fail
     ELSE /\ snap' = parsed /\ pos' = record.pos /\ curG' = NextG(tag)
          /\ UNCHANGED status
  /\ UNCHANGED inputVars

\* warn: an error under Strict, otherwise a line in snap.Warnings.
Tolerated(warnings) == warnings = 0 \/ ~ opts.strict
Noted(s, warnings) == [s EXCEPT !.warnings = @ + warnings]

HaveParams == snap.params.ptrSize # 0

\* The pointers of a payload; none before the parameters are known.
Pointers(payload, fields, base, keepSlots) ==
  IF HaveParams THEN Extract(payload.cells, fields, snap.params, base, keepSlots)
  ELSE [targets |-> <<>>, slots |-> <<>>, warned |-> 0, iface |-> 0, eface |-> 0]

Interfaces(found) ==
  [InterfaceFieldsDecoded |-> found.iface, EfaceFieldsDecoded |-> found.eface]
-----------------------------------------------------------------------------
ParseParams ==
  \E record \in RecordAt(TagParams) :
    LET vals == record.val
    IN Parse(record, TagParams, vals[2] \notin {1, 2},
          [snap EXCEPT !.params = [bigEndian |-> vals[1] = 1, ptrSize |-> vals[2],
                                   rest |-> SubSeq(vals, 3, 7)]])

ParseType ==
  \E record \in RecordAt(TagType) :
    LET vals == record.val
    IN Parse(record, TagType, FALSE,
          Counted([snap EXCEPT !.types = With(@, vals[1], vals)], [TypeCount |-> 1]))

ParseItab ==
  \E record \in RecordAt(TagItab) :
    LET vals == record.val
    IN Parse(record, TagItab, FALSE,
          Counted([snap EXCEPT !.itabs = With(@, vals[1], vals[2])], [ItabCount |-> 1]))

\* Slip: offsets counted from address 0, as the slots of segments are.
AbsoluteOffsets(vals) == Pointers(vals[2], vals[3], vals[1], opts.keepOffsets)

ObjectPointers(vals) == Pointers(vals[2], vals[3], 0, opts.keepOffsets)
ObjectWarnings(vals) == ObjectPointers(vals).warned + IF HaveParams THEN 0 ELSE 1

\* The content is only recorded for later when it is kept out of the object.
Ref(vals) == [addr |-> vals[1], off |-> vals[2].off, len |-> Len(vals[2].cells)]

ObjectOf(vals) ==
  LET found == ObjectPointers(vals)
  IN [addr |-> vals[1], size |-> Len(vals[2].cells), fields |-> vals[3],
      pointers |-> found.targets, offsets |-> found.slots,
      contents |-> IF opts.keepContents /\ ~ opts.lazy THEN vals[2].cells ELSE <<>>]

ParseObject ==
  \E record \in RecordAt(TagObject) :
    LET vals == record.val
        object == ObjectOf(vals)
    IN Parse(record, TagObject,
          \/ Len(vals[2].cells) > MaxUint - vals[1]
          \/ ~ Tolerated(ObjectWarnings(vals)),
          Counted(Counted(Noted([snap EXCEPT !.objects = Append(@, object),
                                             !.refs = IF opts.lazy /\ object.size > 0
                                                      THEN Append(@, Ref(vals)) ELSE @],
                                ObjectWarnings(vals)),
                          [ObjectCount |-> 1, ObjectBytes |-> object.size,
                           ObjectPointers |-> Len(object.pointers)]),
                  Interfaces(ObjectPointers(vals))))

ParseOtherRoot ==
  \E record \in RecordAt(TagOtherRoot) :
    LET vals == record.val
    IN Parse(record, TagOtherRoot, FALSE,
          Counted([snap EXCEPT !.globals = Append(@, [kind |-> "otherroot", addr |-> 0,
                                                      target |-> vals[2], about |-> vals[1]])],
                  [OtherRootCount |-> 1, GlobalRootCount |-> 1]))

ParseFinalizer ==
  \E record \in RecordAt(TagFinalizer) :
    LET vals == record.val
    IN Parse(record, TagFinalizer, FALSE,
          Counted([snap EXCEPT !.finalizers = Append(@, vals)], [FinalizerCount |-> 1]))

ParseQueuedFinalizer ==
  \E record \in RecordAt(TagQueuedFinalizer) :
    LET vals == record.val
    IN Parse(record, TagQueuedFinalizer, FALSE,
          Counted([snap EXCEPT !.queued = Append(@, vals)], [QueuedFinalizers |-> 1]))

ParseOSThread ==
  \E record \in RecordAt(TagOSThread) :
    LET vals == record.val
    IN Parse(record, TagOSThread, FALSE,
          Counted([snap EXCEPT !.threads = Append(@, vals)], [OSThreadCount |-> 1]))

ParseMemStats ==
  \E record \in RecordAt(TagMemStats) :
    Parse(record, TagMemStats, FALSE, [snap EXCEPT !.memStats = record.val])

ParseDefer ==
  \E record \in RecordAt(TagDefer) :
    Parse(record, TagDefer, FALSE, Counted(snap, [DeferCount |-> 1]))

ParsePanic ==
  \E record \in RecordAt(TagPanic) :
    Parse(record, TagPanic, FALSE, Counted(snap, [PanicCount |-> 1]))

ParseMemProf ==
  \E record \in RecordAt(TagMemProf) :
    LET vals == record.val
    IN Parse(record, TagMemProf, FALSE,
          Counted([snap EXCEPT !.profiles = Append(@, vals)], [MemProfCount |-> 1]))

ParseAllocSample ==
  \E record \in RecordAt(TagAllocSample) :
    LET vals == record.val
    IN Parse(record, TagAllocSample, FALSE,
          Counted([snap EXCEPT !.samples = Append(@, vals)], [AllocSampleCount |-> 1]))
-----------------------------------------------------------------------------
(* Data and BSS segments: every pointer in them is a root.                  *)

\* Slip: slots counted from the start of the segment, as those of objects are.
RelativeSlots(vals) == Pointers(vals[2], vals[3], 0, TRUE)

SegmentPointers(vals) == Pointers(vals[2], vals[3], vals[1], TRUE)

WithSegment(kind, segment) ==
  IF kind = "data"
  THEN Counted([snap EXCEPT !.data = Append(@, segment)],
               [DataCount |-> 1, DataPointers |-> Len(segment.pointers)])
  ELSE Counted([snap EXCEPT !.bss = Append(@, segment)],
               [BSSCount |-> 1, BSSPointers |-> Len(segment.pointers)])

SegmentParsed(kind, vals) ==
  LET found == SegmentPointers(vals)
      segment == [addr |-> vals[1], size |-> Len(vals[2].cells), fields |-> vals[3],
                  pointers |-> found.targets, slots |-> found.slots]
      roots == [i \in DOMAIN found.targets |->
                  [kind |-> kind, addr |-> found.slots[i], target |-> found.targets[i],
                   about |-> <<>>]]
  IN Counted(Counted(Noted([WithSegment(kind, segment) EXCEPT !.globals = @ \o roots],
                           found.warned),
                     [GlobalRootCount |-> Len(roots)]),
             Interfaces(found))

ParseData ==
  \E record \in RecordAt(TagData) :
    LET vals == record.val
    IN Parse(record, TagData, ~ Tolerated(SegmentPointers(vals).warned), SegmentParsed("data", vals))

ParseBSS ==
  \E record \in RecordAt(TagBSS) :
    LET vals == record.val
    IN Parse(record, TagBSS, ~ Tolerated(SegmentPointers(vals).warned), SegmentParsed("bss", vals))
-----------------------------------------------------------------------------
(* Goroutines and their frames.                                             *)

ParseGoroutine ==
  \E record \in RecordAt(TagGoroutine) :
    LET vals == record.val
        g == [addr |-> vals[1], stackTop |-> vals[2], id |-> vals[3], goPC |-> vals[4],
              status |-> vals[5], isSystem |-> vals[6] = 1, isBackground |-> vals[7] = 1,
              waitSince |-> vals[8], waitReason |-> vals[9], context |-> vals[10],
              m |-> vals[11], defer |-> vals[12], panic |-> vals[13], frames |-> <<>>]
    IN Parse(record, TagGoroutine, FALSE,
          Counted([snap EXCEPT !.goroutines = Append(@, g)], [GoroutineCount |-> 1]))

FramePointers(vals) == Pointers(vals[4], vals[9], vals[1], TRUE)

\* A frame outside every goroutine's section is dropped, with a warning.
FrameWarnings(vals) == FramePointers(vals).warned + IF curG = 0 THEN 1 ELSE 0

FrameParsed(vals) ==
  LET found == FramePointers(vals)
      frame == [sp |-> vals[1], depth |-> vals[2], childSP |-> vals[3],
                size |-> Len(vals[4].cells), entryPC |-> vals[5], currentPC |-> vals[6],
                continuePC |-> vals[7], func |-> vals[8], fields |-> vals[9],
                pointers |-> found.targets, slots |-> found.slots]
      noted == Counted(Noted(snap, FrameWarnings(vals)), Interfaces(found))
  IN IF curG = 0 THEN noted
     ELSE Counted([noted EXCEPT !.goroutines[curG].frames = Append(@, frame)],
                  [StackFrameCount |-> 1, StackPointers |-> Len(frame.pointers)])

ParseStackFrame ==
  \E record \in RecordAt(TagStackFrame) :
    LET vals == record.val
    IN Parse(record, TagStackFrame, ~ Tolerated(FrameWarnings(vals)), FrameParsed(vals))
-----------------------------------------------------------------------------
\* Slip: the resolver is used without finalize.
Unsorted(s) == {s}

\* finalize sorts by address with an unstable sort: equal addresses may come
\* out either way round.
SortedOrders(s) ==
  {[i \in DOMAIN s |-> s[order[i]]] :
     order \in {o \in Bijection(DOMAIN s, DOMAIN s) :
                  \A i, j \in DOMAIN s : i < j => s[o[i]].addr <= s[o[j]].addr}}

Finish ==
  /\ At(TagEOF)
  /\ \E sorted \in SortedOrders(snap.refs) : snap' = [snap EXCEPT !.refs = sorted]
  /\ status' = "ok" /\ pos' = Tag.pos /\ curG' = 0
  /\ UNCHANGED inputVars

\* A tag of a later runtime: the rest cannot be read.
UnknownRecord ==
  /\ status = "records" /\ Tag.err = "none" /\ Tag.val \notin DOMAIN Shape \cup {TagEOF}
  /\ IF Tolerated(1)
     THEN /\ \E sorted \in SortedOrders(snap.refs) :
               snap' = Counted(Noted([snap EXCEPT !.refs = sorted], 1), [UnknownRecords |-> 1])
          /\ status' = "ok" /\ pos' = Tag.pos /\ curG' = 0
     ELSE Fail
  /\ UNCHANGED inputVars

Next ==
  \/ Cancel \/ ParseHeader \/ NoTag \/ UnknownRecord \/ Finish
  \/ ParseParams \/ ParseType \/ ParseObject \/ ParseOtherRoot \/ ParseFinalizer
  \/ ParseQueuedFinalizer \/ ParseItab \/ ParseOSThread \/ ParseMemStats
  \/ ParseData \/ ParseBSS \/ ParseGoroutine \/ ParseStackFrame
  \/ ParseDefer \/ ParsePanic \/ ParseMemProf \/ ParseAllocSample

Spec == Init /\ [][Next]_vars
-----------------------------------------------------------------------------
(* ContentResolver.Read.                                                    *)

Refusal == [ok |-> FALSE, cells |-> <<>>]

ReadRef(ref, offset, size) ==
  IF offset + size > ref.len \/ ref.off + offset + size - 1 > Len(file) THEN Refusal
  ELSE [ok |-> TRUE, cells |-> SubSeq(file, ref.off + offset, ref.off + offset + size - 1)]

\* The object at exactly addr, or the one whose start is the last not after it.
Read(addr, size) ==
  LET sorted == snap.refs
      exact == {i \in DOMAIN sorted : sorted[i].addr = addr}
      below == {i \in DOMAIN sorted : sorted[i].addr <= addr}
      ref == sorted[Max(IF exact # {} THEN exact ELSE below)]
  IN IF size = 0 THEN [ok |-> TRUE, cells |-> <<>>]
     ELSE IF addr = 0 \/ addr + size > MaxUint \/ below = {} THEN Refusal
     ELSE ReadRef(ref, addr - ref.addr, size)
-----------------------------------------------------------------------------
(* What the dump says, read off its records rather than its cells.          *)

\* The records up to the end of the dump, or to the first of an unknown kind.
Stops == {i \in DOMAIN dump.records : dump.records[i].tag \notin DOMAIN Shape}
Written == IF Stops = {} THEN dump.records ELSE SubSeq(dump.records, 1, Min(Stops) - 1)
Ends == {i \in DOMAIN dump.records : dump.records[i].tag = TagEOF}

RecordsOf(tag) == Numbers({i \in DOMAIN Written : Written[i].tag = tag}, Len(Written))
ValsOf(tag) == [i \in DOMAIN RecordsOf(tag) |-> Written[RecordsOf(tag)[i]].vals]
Part(s, n) == [i \in DOMAIN s |-> s[i][n]]

\* The last of a list of records for each key; the key is the first part.
LastOfKey(s) == [key \in Range(Part(s, 1)) |-> s[Max({i \in DOMAIN s : s[i][1] = key})]]

\* The goroutine record in whose section record i was written, if any.
Owners(i) ==
  {j \in 1 .. i - 1 : /\ Written[j].tag = TagGoroutine
                      /\ \A k \in j + 1 .. i - 1 :
                           Written[k].tag \in {TagStackFrame, TagDefer, TagPanic}}

\* The parameters that hold for record i: those written last before it.
AfterParams(i) == \E j \in 1 .. i - 1 : Written[j].tag = TagParams
ParamsAt(i) ==
  LET vals == Written[Max({j \in 1 .. i - 1 : Written[j].tag = TagParams})].vals
  IN [bigEndian |-> vals[1] = 1, ptrSize |-> vals[2], rest |-> SubSeq(vals, 3, 7)]

\* What only a faulty runtime writes: a part out of its range, parameters or an object
\* that cannot be, a pointer field outside its payload, a pointer beyond the last address.
PartIsSound(shape, val) ==
  /\ shape = "bool" => val \in {0, 1}
  /\ shape = "string" => Len(val) <= MaxStringBytes
  /\ shape = "bytes" => Len(val) <= MaxMemRangeSize

FieldIsSound(base, cells, params, field) ==
  /\ field.kind \in {FieldKindPtr, FieldKindIface, FieldKindEface}
  /\ LET offset == DataWord(field, params.ptrSize)
     IN /\ offset + params.ptrSize <= Len(cells)
        /\ WordAt(cells, offset, params) # 0 => base + offset <= MaxUint

FieldsAreSound(i, base, cells, fields) ==
  AfterParams(i) => \A k \in DOMAIN fields : FieldIsSound(base, cells, ParamsAt(i), fields[k])

Sound(i) ==
  LET tag == Written[i].tag
      vals == Written[i].vals
  IN /\ \A k \in DOMAIN vals : PartIsSound(ShapeOf(Written[i])[k], vals[k])
     /\ tag = TagParams => vals[2] \in {1, 2}
     /\ tag = TagObject => /\ AfterParams(i) /\ vals[1] + Len(vals[2]) <= MaxUint
                           /\ FieldsAreSound(i, 0, vals[2], vals[3])
     /\ tag \in {TagData, TagBSS} => FieldsAreSound(i, vals[1], vals[2], vals[3])
     /\ tag = TagStackFrame => Owners(i) # {} /\ FieldsAreSound(i, vals[1], vals[4], vals[9])

\* The dump is not what a correct runtime of this version writes.
Faulty ==
  \/ dump.header # Header
  \/ Stops # {} /\ dump.records[Min(Stops)].tag # TagEOF
  \/ \E i \in DOMAIN Written : ~ Sound(i)
-----------------------------------------------------------------------------
(* What a whole record comes to in the snapshot.                            *)

\* The offsets of the data words of the fields that are sound and not nil; none
\* before the parameters are known.
Places(i, base, cells, fields) ==
  LET params == ParamsAt(i)
      Offset(k) == DataWord(fields[k], params.ptrSize)
      kept == Numbers({k \in DOMAIN fields :
                         /\ AfterParams(i) /\ FieldIsSound(base, cells, params, fields[k])
                         /\ WordAt(cells, Offset(k), params) # 0}, Len(fields))
  IN [k \in DOMAIN kept |-> Offset(kept[k])]

Held(i, cells, places) == [k \in DOMAIN places |-> WordAt(cells, places[k], ParamsAt(i))]
Addresses(base, places) == [k \in DOMAIN places |-> base + places[k]]

ObjectAt(i) ==
  LET v == Written[i].vals
      places == Places(i, 0, v[2], v[3])
  IN [addr |-> v[1], size |-> Len(v[2]), fields |-> v[3], pointers |-> Held(i, v[2], places),
      offsets |-> IF opts.keepOffsets THEN Addresses(0, places) ELSE <<>>,
      contents |-> IF opts.keepContents /\ ~ opts.lazy THEN v[2] ELSE <<>>]

SegmentAt(i) ==
  LET v == Written[i].vals
      places == Places(i, v[1], v[2], v[3])
  IN [addr |-> v[1], size |-> Len(v[2]), fields |-> v[3], pointers |-> Held(i, v[2], places),
      slots |-> Addresses(v[1], places)]

FrameAt(i) ==
  LET v == Written[i].vals
      places == Places(i, v[1], v[4], v[9])
  IN [sp |-> v[1], depth |-> v[2], childSP |-> v[3], size |-> Len(v[4]), entryPC |-> v[5],
      currentPC |-> v[6], continuePC |-> v[7], func |-> v[8], fields |-> v[9],
      pointers |-> Held(i, v[4], places), slots |-> Addresses(v[1], places)]

\* The frames written in the section of goroutine record g.
Home(g) ==
  Numbers({i \in DOMAIN Written : Written[i].tag = TagStackFrame /\ g \in Owners(i)},
          Len(Written))

GoroutineAt(i) ==
  LET v == Written[i].vals
  IN [addr |-> v[1], stackTop |-> v[2], id |-> v[3], goPC |-> v[4], status |-> v[5],
      isSystem |-> v[6] = 1, isBackground |-> v[7] = 1, waitSince |-> v[8],
      waitReason |-> v[9], context |-> v[10], m |-> v[11], defer |-> v[12],
      panic |-> v[13], frames |-> [k \in DOMAIN Home(i) |-> FrameAt(Home(i)[k])]]

\* The roots of a record: one of an otherroot, one per pointer of a segment.
RootsAt(i) ==
  LET v == Written[i].vals
      SegmentRoots(kind) ==
        LET segment == SegmentAt(i)
        IN [k \in DOMAIN segment.pointers |->
              [kind |-> kind, addr |-> segment.slots[k], target |-> segment.pointers[k],
               about |-> <<>>]]
  IN CASE Written[i].tag = TagOtherRoot ->
            <<[kind |-> "otherroot", addr |-> 0, target |-> v[2], about |-> v[1]]>>
       [] Written[i].tag = TagData -> SegmentRoots("data")
       [] Written[i].tag = TagBSS -> SegmentRoots("bss")
       [] OTHER -> <<>>

\* The counters that count records of one kind.
CounterOf ==
  [tag \in TagObject .. TagAllocSample \ {TagStackFrame, TagParams, TagMemStats} |->
     CASE tag = TagObject -> "ObjectCount" [] tag = TagOtherRoot -> "OtherRootCount"
       [] tag = TagType -> "TypeCount" [] tag = TagGoroutine -> "GoroutineCount"
       [] tag = TagFinalizer -> "FinalizerCount" [] tag = TagItab -> "ItabCount"
       [] tag = TagOSThread -> "OSThreadCount"
       [] tag = TagQueuedFinalizer -> "QueuedFinalizers" [] tag = TagData -> "DataCount"
       [] tag = TagBSS -> "BSSCount" [] tag = TagDefer -> "DeferCount"
       [] tag = TagPanic -> "PanicCount" [] tag = TagMemProf -> "MemProfCount"
       [] tag = TagAllocSample -> "AllocSampleCount"]
-----------------------------------------------------------------------------
(* Properties.                                                              *)

\* A snapshot is only returned when the stream was there up to and with its
\* end record (or, without Strict, up to a record of an unknown kind): a dump
\* cut anywhere before is an error, also when it is cut between two records
\* (parser.go: parseRecords).
TruncationIsAnError ==
  status = "ok" /\ snap.stats["UnknownRecords"] = 0
    => /\ Ends # {}
       /\ cut >= Len(Encode([dump EXCEPT !.records = SubSeq(@, 1, Min(Ends))]))

\* A dump a correct runtime wrote, and that arrived whole, is never refused,
\* whatever its addresses and however many cells its integers take.
WholeDumpsAreAccepted ==
  status = "failed" => Faulty \/ Ends = {} \/ cut < Len(Encode(dump))

\* The snapshot is what the records say: every record is there exactly once, in order,
\* with all its values, its pointers, and its contents if they are kept; a map
\* has, for each key, the values of its last record; parameters and memory
\* statistics are those written last; the roots are the other roots and the pointers of
\* the segments in the order they were written; deferred calls and panics are
\* counted, as all other records are.  (The sums over pointers and bytes are
\* not compared.)  Under Strict nothing was amiss with any record.
SnapshotIsTheDump ==
  status = "ok" =>
    LET last == Len(Written) + 1
        memStats == ValsOf(TagMemStats)
        Entries(tag, Entry(_)) == [k \in DOMAIN RecordsOf(tag) |-> Entry(RecordsOf(tag)[k])]
    IN /\ opts.strict => snap.warnings = 0 /\ ~ Faulty
       /\ snap.params = IF AfterParams(last) THEN ParamsAt(last) ELSE NoParams
       /\ snap.memStats = IF memStats = <<>> THEN <<>> ELSE memStats[Len(memStats)]
       /\ snap.objects = Entries(TagObject, ObjectAt)
       /\ snap.data = Entries(TagData, SegmentAt)
       /\ snap.bss = Entries(TagBSS, SegmentAt)
       /\ snap.goroutines = Entries(TagGoroutine, GoroutineAt)
       /\ snap.globals = FlattenSeq([i \in DOMAIN Written |-> RootsAt(i)])
       /\ snap.finalizers = ValsOf(TagFinalizer)
       /\ snap.queued = ValsOf(TagQueuedFinalizer)
       /\ snap.threads = ValsOf(TagOSThread)
       /\ snap.samples = ValsOf(TagAllocSample)
       /\ snap.profiles = ValsOf(TagMemProf)
       /\ snap.types = LastOfKey(ValsOf(TagType))
       /\ snap.itabs = LET kept == LastOfKey(ValsOf(TagItab))
                       IN [key \in DOMAIN kept |-> kept[key][2]]
       /\ \A tag \in DOMAIN CounterOf : snap.stats[CounterOf[tag]] = Len(ValsOf(tag))

\* A frame is in the stack of the goroutine in whose section it was written
\* and in no other: one that follows a record of another kind is never taken
\* for the previous goroutine's (parser.go: the switch before the dispatch).
FramesStayHome ==
  status = "ok" =>
    \A n \in DOMAIN snap.goroutines :
      LET home == Home(RecordsOf(TagGoroutine)[n])
      IN [i \in DOMAIN snap.goroutines[n].frames |-> snap.goroutines[n].frames[i].sp]
           = [i \in DOMAIN home |-> Written[home[i]].vals[1]]

\* The roots taken from data and BSS segments are their pointers: the target
\* is what the segment holds at the root's address, and each pointer field
\* that is not nil has its root (pointers.go keeps slots and targets in step).
RootsAreMemory ==
  status = "ok" =>
    LET Segments == {r \in DOMAIN Written :
                       Written[r].tag \in {TagData, TagBSS} /\ AfterParams(r)}
        Kind(r) == IF Written[r].tag = TagData THEN "data" ELSE "bss"
        HeldAt(r, offset) == WordAt(Written[r].vals[2], offset, ParamsAt(r))
        Holds(r, root) ==
          /\ root.kind = Kind(r)
          /\ LET offset == root.addr - Written[r].vals[1]
             IN /\ offset >= 0 /\ offset + ParamsAt(r).ptrSize <= Len(Written[r].vals[2])
                /\ root.target # 0 /\ root.target = HeldAt(r, offset)
    IN /\ \A root \in Range(snap.globals) :
            root.kind # "otherroot" => \E r \in Segments : Holds(r, root)
       /\ \A r \in Segments : \A field \in Range(Written[r].vals[3]) :
            LET offset == DataWord(field, ParamsAt(r).ptrSize)
            IN Sound(r) /\ HeldAt(r, offset) # 0 =>
                 [kind |-> Kind(r), addr |-> Written[r].vals[1] + offset,
                  target |-> HeldAt(r, offset), about |-> <<>>] \in Range(snap.globals)

\* A read through the resolver returns the bytes the dump holds at that
\* address in one object, and is granted whenever a single object with a
\* distinct address has them all (contentresolver.go).
ReadsAreTheDump ==
  status = "ok" /\ opts.lazy =>
    LET objects == ValsOf(TagObject)
        Covers(o, addr, size) == o[1] <= addr /\ addr + size <= o[1] + Len(o[2])
        Cut(o, addr, size) == SubSeq(o[2], addr - o[1] + 1, addr - o[1] + size)
    IN \A addr \in 0 .. MaxUint, size \in 1 .. MaxMemRangeSize :
         LET covering == {i \in DOMAIN objects : Covers(objects[i], addr, size)}
         IN /\ Read(addr, size).ok =>
                 \E i \in covering : Read(addr, size).cells = Cut(objects[i], addr, size)
            /\ \A i \in covering :
                 (\A j \in DOMAIN objects \ {i} :
                    objects[j][1] + Len(objects[j][2]) <= objects[i][1]
                      \/ objects[j][1] >= objects[i][1] + Len(objects[i][2]))
                   => addr = 0 \/ Read(addr, size).ok
=============================================================================
