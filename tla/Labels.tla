------------------------------- MODULE Labels -------------------------------
(***************************************************************************)
(* Recovering the pprof labels of every goroutine from a heap dump         *)
(* (internal/heaplabels), and what is made of them: the diagnostics and    *)
(* the label index of a session (memusage/snapshot.go), the list of label  *)
(* sets (memusage/bubbles.go) and the probe for the offset of the labels   *)
(* field (cmd/labeloffsetprobe).  The dump file, or the mapping or file    *)
(* behind the extra reader, may become unreadable between two steps.       *)
(***************************************************************************)
EXTENDS AddressSpace, RuntimeLayout, FiniteSetsExt

CONSTANTS Worlds,       \* the processes to consider; MCLabels says what they are
          Hosts,        \* <<platform, procfs>> pairs
          MaxLabels, MaxStringLen,
          Encodings,    \* of the characters: sequences of bytes, as in UTF-8
          MaxMissing    \* bound on the heap objects a dump lacks

-----------------------------------------------------------------------------
(* What a process is.  Its `written' lists, for each goroutine, the labels    *)
(* the program had set as <<key, value>> pairs, a later one of a key          *)
(* replacing an earlier one; the memory agrees with them wherever the heap    *)
(* has what they are made of.                                                 *)

Latest(pairs, n) ==
  {pairs[k] : k \in {k \in 1 .. n : \A later \in k + 1 .. n : pairs[later][1] # pairs[k][1]}}

HeapBytes(w, a, n) ==
  {Cut(o.data, a - o.addr, n) : o \in {o \in w.objects : Inside(a, n, o.addr, Len(o.data))}}
HeapWords(w, a) == {b[1] : b \in HeapBytes(w, a, 1)}
ImageBytes(w, a, n) ==
  {Cut(s.live, a - (s.addr + w.slide), n) :
     s \in {s \in w.sections : Inside(a, n, s.addr + w.slide, Len(s.live))}}

\* The string header at a is that of text.
Spells(w, a, text) ==
  \A len \in HeapWords(w, a + StringLenOffset) :
    /\ len = Len(text)
    /\ len # 0 => \A data \in HeapWords(w, a + StringDataOffset) :
                    HeapBytes(w, data, len) \cup ImageBytes(w, data, len) \subseteq {text}

\* Label k of an array is this pair; the label map at a lists these pairs.
SpellsPair(w, data, k, pair) ==
  /\ Spells(w, data + (k - 1) * LabelSize + LabelKeyOffset, pair[1])
  /\ Spells(w, data + (k - 1) * LabelSize + LabelValueOffset, pair[2])

Lists(w, a, pairs) ==
  \A len \in HeapWords(w, a + SliceLenOffset) :
    /\ len = Len(pairs)
    /\ \A data \in HeapWords(w, a + SliceDataOffset), k \in 1 .. len : SpellsPair(w, data, k, pairs[k])

Carries(w, i) ==
  \A a \in HeapWords(w, w.goroutines[i].addr + w.offset) :
    IF a = 0 THEN w.written[i] = <<>> ELSE Lists(w, a, w.written[i])

\* The n units at a, in an object that belongs to goroutine i's labels and
\* that no other overlaps.
Stands(w, o) ==
  /\ o.addr # 0 /\ ~ Overflows(o.addr, Len(o.data))
  /\ \A p \in w.objects \ {o} : \/ p.data = <<>>
                                \/ p.addr + Len(p.data) <= o.addr
                                \/ p.addr >= o.addr + Len(o.data)

Kept(w, i, a, n) ==
  {Cut(o.data, a - o.addr, n) :
     o \in {o \in w.objects : /\ o.addr \in w.parts[i] /\ Stands(w, o)
                              /\ Inside(a, n, o.addr, Len(o.data))}}

KeptString(w, i, a, text) ==
  /\ Len(text) <= MaxStringLen
  /\ \E h \in Kept(w, i, a, 2) :
       h[2] = Len(text) /\ (text # <<>> => text \in Kept(w, i, h[1], Len(text)))

KeptArray(w, i, data, pairs) ==
  /\ Kept(w, i, data, Len(pairs) * LabelSize) # {}
  /\ \A k \in 1 .. Len(pairs) :
       /\ KeptString(w, i, data + (k - 1) * LabelSize + LabelKeyOffset, pairs[k][1])
       /\ KeptString(w, i, data + (k - 1) * LabelSize + LabelValueOffset, pairs[k][2])

\* Everything goroutine i's labels are made of is in the heap, in the objects
\* that `parts' names, and within the limits.
KeptLabels(w, i) ==
  \E g \in Kept(w, i, w.goroutines[i].addr, w.offset + 1) :
    \E map \in Kept(w, i, g[w.offset + 1], 3) :
      /\ map[2] = Len(w.written[i]) /\ map[2] <= map[3] /\ map[2] <= MaxLabels
      /\ map[2] # 0 => KeptArray(w, i, map[1], w.written[i])

\* What is read-only in memory is what the file has, as far as the file goes.
FileIsMemory(s) ==
  Eligible(s) => Len(s.file) <= Len(s.live) /\ \A k \in 1 .. Len(s.file) : s.file[k] = s.live[k]

Texts == Seq(Nat)
IsList(s) == Len(s) \in Nat /\ DOMAIN s = 1 .. Len(s)

IsProcess(w) ==
  /\ w.slide \in Nat /\ w.offset \in Nat /\ w.ptrSize \in {4, 8}
  /\ \A o \in w.objects : o.addr \in Nat /\ o.data \in Seq(Nat)
  /\ \A s \in w.sections :
       s.addr \in Nat /\ s.file \in Seq(Nat) /\ s.live \in Seq(Nat) /\ FileIsMemory(s)
  /\ IsList(w.goroutines)
  /\ \A i \in DOMAIN w.goroutines :
       /\ w.goroutines[i].addr \in Nat
       /\ w.written[i] \in Seq(Texts \X Texts)
       /\ \A j \in DOMAIN w.goroutines : w.goroutines[j].gid = w.goroutines[i].gid => j = i
       /\ Carries(w, i)
       /\ w.parts[i] # {} => KeptLabels(w, i)

\* An entry of the table is true of every process it applies to.
IsTrueOf(e, w) == Applies(e, w.version, w.ptrSize, w.bigEndian) => e.offset = w.offset

ASSUME HostsAssumption == \A host \in Hosts : host[1] \in {"linux", "freebsd", "darwin", "windows"}

ASSUME WorldsAssumption ==
  /\ MaxLabels \in Nat /\ MaxStringLen \in Nat /\ IsList(VerifiedTable)
  /\ \A c \in Encodings : c \in Seq(Nat)
  /\ \A w \in Worlds : IsProcess(w)
  /\ \A w \in Worlds, k \in DOMAIN VerifiedTable : IsTrueOf(VerifiedTable[k], w)

-----------------------------------------------------------------------------

VARIABLES
  world,      \* the process that was dumped
  missing,    \* addresses of the heap objects the dump does not hold
  reader,     \* the extra reader for string bytes
  gone,       \* "file", "image": what can no longer be read
  pc,
  layout,     \* the offset of runtime.g.labels, once looked up
  cur,        \* the goroutine being decoded
  walk,       \* its label list and the labels read so far
  results,    \* Result.Goroutines: [status, labels]
  diag,       \* Diagnostics
  answer      \* what the caller gets

vars == <<world, missing, reader, gone, pc, layout, cur, walk, results, diag, answer>>

Objects == {o \in world.objects : o.addr \notin missing}
HeapRead(a, n) == IF "file" \in gone THEN Unreadable ELSE MemoryRead(Objects, a, n)

\* composeStringBodyReader
BodyRead(a, n) ==
  FirstOf(a, n, HeapRead(a, n),
          ExtraRead(reader, "image" \notin gone, world.sections, world.slide, a, n))

The(read) == CHOOSE b \in read : TRUE
Word(a) == {b[1] : b \in HeapRead(a, 1)}

NoWalk == [data |-> 0, len |-> 0, next |-> 1, status |-> "decoded", labels |-> {}]
NoAnswer == [kind |-> "pending", index |-> {}, bubbles |-> {}, candidates |-> {}]
NoDiag == [failed |-> {}, stringMissing |-> {}, unsupported |-> FALSE]

GIDs == {world.goroutines[i].gid : i \in DOMAIN world.goroutines}
EligibleGIDs(all) == IF all THEN GIDs ELSE GIDs \ world.system
Selected(all) == {i \in DOMAIN world.goroutines : world.goroutines[i].gid \in EligibleGIDs(all)}
ResultOf(g) == results[CHOOSE i \in DOMAIN results : world.goroutines[i].gid = g]

-----------------------------------------------------------------------------
(* One string, one label, one list of labels                                  *)

Found(text) == [status |-> "decoded", text |-> text]
NotFound(status) == [status |-> status, text |-> <<>>]

\* A body is read from the heap, or also from the extra reader.
StringBody(extra, data, len) == IF extra THEN BodyRead(data, len) ELSE HeapRead(data, len)
Text(body) == IF body = Unreadable THEN NotFound("string_missing") ELSE Found(The(body))

StringAt(extra, data, len) ==
  IF data = Unreadable \/ len = Unreadable THEN NotFound("string_missing")
  ELSE IF The(len) > MaxStringLen THEN NotFound("malformed")
  ELSE IF The(len) = 0 THEN Found(<<>>)
  ELSE IF The(data) = 0 THEN NotFound("string_missing")
  ELSE Text(StringBody(extra, The(data), The(len)))

\* Headers are read from the heap.
DecodeString(extra, header) ==
  IF Overflows(header, StringLenOffset) THEN NotFound("malformed")
  ELSE StringAt(extra, Word(header + StringDataOffset), Word(header + StringLenOffset))

Put(labels, key, value) == {l \in labels : l[1] # key} \cup {<<key, value>>}

WithLabel(sofar, key, value) ==
  CASE key.status # "decoded" -> [sofar EXCEPT !.status = key.status, !.labels = {}]
    [] key.status = "decoded" /\ value.status # "decoded" ->
         [sofar EXCEPT !.status = value.status, !.labels = {}]
    [] OTHER -> [sofar EXCEPT !.next = @ + 1, !.labels = Put(@, key.text, value.text)]

DecodeLabel(extra, sofar) ==
  LET at == sofar.data + (sofar.next - 1) * LabelSize
  IN WithLabel(sofar, DecodeString(extra, at + LabelKeyOffset),
                      DecodeString(extra, at + LabelValueOffset))

\* The header of label.Set.List and the array behind it.
Failed(status) == [NoWalk EXCEPT !.status = status]

LabelArray(data, len, cap) ==
  IF len > cap \/ len > MaxLabels THEN Failed("malformed")
  ELSE IF len = 0 THEN NoWalk
  ELSE IF data = 0 \/ HeapRead(data, len * LabelSize) = Unreadable
         THEN Failed("label_array_missing")
  ELSE [NoWalk EXCEPT !.data = data, !.len = len]

SliceAt(data, len, cap) ==
  IF Unreadable \in {data, len, cap} THEN Failed("labels_object_missing")
  ELSE LabelArray(The(data), The(len), The(cap))

DecodeHeader(addr) ==
  IF Overflows(addr, SliceCapOffset) THEN Failed("malformed")
  ELSE SliceAt(Word(addr + SliceDataOffset), Word(addr + SliceLenOffset),
               Word(addr + SliceCapOffset))

Finished(w) == w.status # "decoded" \/ w.next > w.len

DecodeLabels(extra, header) ==
  LET after[k \in 0 .. header.len] ==
        IF k = 0 THEN header
        ELSE IF Finished(after[k - 1]) THEN after[k - 1]
        ELSE DecodeLabel(extra, after[k - 1])
  IN after[header.len]

DecodeLabelMap(extra, addr) == DecodeLabels(extra, DecodeHeader(addr))

-----------------------------------------------------------------------------
(* Slips: one plausible mistake each; no specification uses them.             *)

\* Only missing strings count as failures.
OnlyMissingStrings(res) ==
  LET having(status) == {world.goroutines[i].gid : i \in {i \in DOMAIN res : res[i].status = status}}
  IN [failed |-> having("string_missing"), stringMissing |-> having("string_missing"),
      unsupported |-> Len(res) > 0 /\ having("unsupported_runtime") = GIDs]

\* The scan stops before the last word of runtime.g.
ShortOffsets(g) ==
  UNION {{off \in 0 .. Len(o.data) : g.addr + off + 1 < o.addr + Len(o.data)} :
           o \in {o \in Objects : g.addr # 0 /\ Inside(g.addr, 1, o.addr, Len(o.data))}}

-----------------------------------------------------------------------------
(* Recover: Lookup, then DecodeAll                                            *)

Init ==
  /\ world \in Worlds
  /\ missing \in UNION {kSubset(k, {o.addr : o \in world.objects}) : k \in 0 .. MaxMissing}
  /\ \E host \in Hosts, disabled \in BOOLEAN :
       reader = IF disabled THEN "none" ELSE OpenSelfProcessReader(host[1], host[2])
  /\ gone = {}
  /\ pc = "parsed"
  /\ layout = NoLayout
  /\ cur = 1
  /\ walk = NoWalk
  /\ results = <<>>
  /\ diag = NoDiag
  /\ answer = NoAnswer

Given == <<world, missing, reader>>

\* UnsupportedResult when the table has no entry.
LookupLayout ==
  /\ pc = "parsed"
  /\ layout' = Lookup(world.version, world.ptrSize, world.bigEndian)
  /\ IF layout' = NoLayout
       THEN /\ pc' = "recovered"
            /\ results' = [i \in DOMAIN world.goroutines |->
                             [status |-> "unsupported_runtime", labels |-> {}]]
       ELSE pc' = "decoding" /\ UNCHANGED results
  /\ UNCHANGED <<Given, gone, cur, walk, diag, answer>>

Record(status, labels) ==
  /\ results' = Append(results, [status |-> status, labels |-> labels])
  /\ cur' = cur + 1

\* What the labels field of the goroutine at g leads to.
HeaderOf(g, field) ==
  IF Overflows(g, The(layout)) THEN Failed("malformed")
  ELSE IF field = Unreadable THEN Failed("g_object_missing")
  ELSE IF The(field) = 0 THEN Failed("no_labels")
  ELSE DecodeHeader(The(field))

\* DecodeLabelsForGoroutine up to the first label.
DecodeGoroutine ==
  /\ pc = "decoding"
  /\ cur <= Len(world.goroutines)
  /\ LET g == world.goroutines[cur].addr
     IN \E header \in {HeaderOf(g, Word(g + The(layout)))} :
          IF Finished(header) THEN Record(header.status, {}) /\ UNCHANGED <<pc, walk>>
          ELSE pc' = "labels" /\ walk' = header /\ UNCHANGED <<results, cur>>
  /\ UNCHANGED <<Given, gone, layout, diag, answer>>

NextLabel ==
  /\ pc = "labels"
  /\ \E w \in {DecodeLabel(TRUE, walk)} :
       IF Finished(w)
         THEN Record(w.status, w.labels) /\ walk' = NoWalk /\ pc' = "decoding"
         ELSE walk' = w /\ UNCHANGED <<pc, results, cur>>
  /\ UNCHANGED <<Given, gone, layout, diag, answer>>

\* The probe prints the result; the others go on.
DecodedAll ==
  /\ pc = "decoding"
  /\ cur > Len(world.goroutines)
  /\ pc' = IF answer.kind = "probed" THEN "done" ELSE "recovered"
  /\ UNCHANGED <<Given, gone, layout, cur, walk, results, diag, answer>>

\* The dump's file, or what the extra reader reads, stops being readable.
Lose(what) ==
  /\ pc \in {"decoding", "labels"}
  /\ what \notin gone
  /\ gone' = gone \cup {what}
  /\ UNCHANGED <<Given, pc, layout, cur, walk, results, diag, answer>>

-----------------------------------------------------------------------------
(* What is made of the labels                                                 *)

DiagnosticsFromHeapLabels(res) ==
  LET gids(Test(_)) == {world.goroutines[i].gid : i \in {i \in DOMAIN res : Test(res[i].status)}}
  IN [failed |-> gids(LAMBDA s : s \notin {"decoded", "no_labels", "unsupported_runtime"}),
      stringMissing |-> gids(LAMBDA s : s = "string_missing"),
      unsupported |-> Len(res) > 0 /\ gids(LAMBDA s : s = "unsupported_runtime") = GIDs]

Diagnose ==
  /\ pc = "recovered"
  /\ diag' = DiagnosticsFromHeapLabels(results)
  /\ pc' = "diagnosed"
  /\ UNCHANGED <<Given, gone, layout, cur, walk, results, answer>>

Conclude(a) ==
  /\ answer' = a
  /\ pc' = "done"
  /\ UNCHANGED <<Given, gone, layout, cur, walk, results, diag>>

\* newSnapshot's index: <<label, goroutine>> pairs.
Load ==
  /\ pc = "diagnosed"
  /\ \E all \in BOOLEAN :
       Conclude(IF diag.unsupported THEN [NoAnswer EXCEPT !.kind = "unsupported"]
                ELSE [NoAnswer EXCEPT !.kind = IF all THEN "session_all" ELSE "session",
                        !.index = UNION {ResultOf(g).labels \X {g} : g \in EligibleGIDs(all)}])

\* eligibleFailureError, over the goroutines that count.
FailureError(all) ==
  IF diag.stringMissing \cap EligibleGIDs(all) # {} THEN "string_missing"
  ELSE IF diag.failed \cap EligibleGIDs(all) # {} THEN "recovery_failed" ELSE "none"

\* Bytes that make up no character of UTF-8; json.Marshal writes the same
\* escape for each of them, and no other byte like it.
Escape == -1

\* Encodings never overlap: each byte is in one at most.
InCharacter(text, k) ==
  \E c \in Encodings, before \in 0 .. Len(text) :
    /\ before < k /\ k <= before + Len(c) /\ before + Len(c) <= Len(text)
    /\ \A m \in 1 .. Len(c) : text[before + m] = c[m]

MarshalString(text) ==
  [k \in DOMAIN text |-> IF InCharacter(text, k) THEN text[k] ELSE Escape]

\* The order of strings, byte by byte.
KeyBefore(s, t) ==
  \E n \in 0 .. Len(s) :
    /\ n < Len(t) /\ \A k \in 1 .. n : s[k] = t[k]
    /\ n = Len(s) \/ s[n + 1] < t[n + 1]

\* The JSON of a label set: its labels in the order of the keys as they are,
\* each at its place.
Marshal(labels) ==
  {<<Cardinality({m \in labels : KeyBefore(m[1], l[1])}), MarshalString(l[1]), MarshalString(l[2])>> :
     l \in labels}

\* Goroutines are grouped by the JSON of their labels; a group has the labels
\* of its first one.
LabelsOf(i) == ResultOf(world.goroutines[i].gid).labels
Labelled(all) == {i \in Selected(all) : LabelsOf(i) # {}}
Group(all, i) == {j \in Labelled(all) : Marshal(LabelsOf(j)) = Marshal(LabelsOf(i))}
Bubbles(all) ==
  {[labels |-> LabelsOf(i), count |-> Cardinality(Group(all, i))] :
     i \in {i \in Labelled(all) : \A j \in Group(all, i) : i <= j}}

\* listBubblesFromDecoded
ListBubbles ==
  /\ pc = "diagnosed"
  /\ \E all \in BOOLEAN :
       Conclude(
         IF diag.unsupported THEN [NoAnswer EXCEPT !.kind = "unsupported"]
         ELSE IF FailureError(all) # "none" THEN [NoAnswer EXCEPT !.kind = FailureError(all)]
         ELSE [NoAnswer EXCEPT !.kind = IF all THEN "bubbles_all" ELSE "bubbles",
                 !.bubbles = Bubbles(all)])

-----------------------------------------------------------------------------
(* cmd/labeloffsetprobe                                                       *)

\* The offsets of the words of the object that holds runtime.g, from g on.
Offsets(g) ==
  UNION {{off \in 0 .. Len(o.data) : g.addr + off + 1 <= o.addr + Len(o.data)} :
           o \in {o \in Objects : g.addr # 0 /\ Inside(g.addr, 1, o.addr, Len(o.data))}}

\* containsLabels: a key that is absent reads as the empty string.
ContainsLabels(have, want) ==
  \A w \in want : \/ w \in have
                  \/ w[2] = <<>> /\ \A l \in have : l[1] # w[1]

HasLabels(map, want) == map.status = "decoded" /\ ContainsLabels(map.labels, want)

LeadsToLabels(word, want) ==
  word \notin {Unreadable, {0}} /\ HasLabels(DecodeLabelMap(FALSE, The(word)), want)

\* FindOffsetCandidates: offset and goroutine, for every word that leads to a
\* label map which has the wanted labels.
FindOffsetCandidates(want) ==
  IF ManualLayout(world.ptrSize, world.bigEndian, 0) = NoLayout THEN {}
  ELSE {c \in UNION {Offsets(world.goroutines[i]) \X {i} : i \in DOMAIN world.goroutines} :
          LeadsToLabels(Word(world.goroutines[c[2]].addr + c[1]), want)}

\* The probe looks for one label, and decodes every goroutine with the offset
\* when there is exactly one.
Probe ==
  /\ pc = "parsed"
  /\ \E found \in {FindOffsetCandidates(world.want)} :
       LET offsets == {c[1] : c \in found}
       IN IF Cardinality(offsets) = 1
            THEN /\ layout' = ManualLayout(world.ptrSize, world.bigEndian, The(offsets))
                 /\ pc' = "decoding"
                 /\ answer' = [NoAnswer EXCEPT !.kind = "probed", !.candidates = found]
            ELSE /\ UNCHANGED layout
                 /\ pc' = "done"
                 /\ answer' = [NoAnswer EXCEPT !.kind = "inconclusive", !.candidates = found]
  /\ UNCHANGED <<Given, gone, cur, walk, results, diag>>

\* The context is cancelled between two stages.
Cancel ==
  /\ pc \in {"parsed", "recovered", "diagnosed"}
  /\ answer.kind = "pending"
  /\ Conclude([NoAnswer EXCEPT !.kind = "cancelled"])

Next ==
  \/ LookupLayout
  \/ Probe
  \/ DecodeGoroutine
  \/ NextLabel
  \/ DecodedAll
  \/ \E what \in {"file", "image"} : Lose(what)
  \/ Diagnose
  \/ Load
  \/ ListBubbles
  \/ Cancel

Spec == Init /\ [][Next]_vars

-----------------------------------------------------------------------------
(* Properties                                                                 *)

Written(i) == Latest(world.written[i], Len(world.written[i]))

\* What the readers promise: the file behind an executable that is not
\* position independent, or memory and files with the slide taken off.
TrueAddresses == reader = "elf" => world.slide = 0

\* The one candidate a probe goes on with may be another pointer to labels.
TrueOffset == answer.kind = "probed" => layout = {world.offset}

\* A goroutine is reported with labels, or as having none, only with exactly
\* the labels the program had set: whatever objects the dump lacks, whatever
\* the version, whatever becomes unreadable half way (heaplabels/decode.go:33-281,
\* runtimelayout/table.go:167-187, addrspace/elf.go:56-81).
DecodedIsWritten ==
  TrueAddresses /\ TrueOffset => \A i \in DOMAIN results :
    /\ results[i].status = "decoded" => results[i].labels = Written(i)
    /\ results[i].status = "no_labels" => Written(i) = {}

\* Every string of the labels consists of characters.
IsText(labels) == \A l \in labels, n \in 1 .. 2 : \A k \in DOMAIN l[n] : InCharacter(l[n], k)

\* What a reader of the JSON sees of the labels.
Shown(labels) == {<<MarshalString(l[1]), MarshalString(l[2])>> : l \in labels}

\* Every goroutine that had labels is counted in one bubble, no other is, and
\* each bubble shows the labels of one of those it counts.  A goroutine whose
\* labels are text is counted under exactly these labels; labels that are not
\* may be counted under others that look the same in JSON.
CountsEveryone(all, bubbles) ==
  LET labelled == {i \in Selected(all) : Written(i) # {}}
  IN \E bubble \in [labelled -> bubbles] :
       /\ \A b \in bubbles :
            /\ b.count = Cardinality({i \in labelled : bubble[i] = b})
            /\ \E i \in labelled : bubble[i] = b /\ b.labels = Written(i)
       /\ \A b, c \in bubbles : b.labels = c.labels => b = c
       /\ \A i \in labelled :
            /\ Shown(bubble[i].labels) = Shown(Written(i))
            /\ IsText(Written(i)) \/ IsText(bubble[i].labels) => bubble[i].labels = Written(i)

\* No goroutine loses its labels without a word.  In a session each eligible
\* goroutine is indexed under every label it had, or is among the failed ones
\* that make a query refuse; the list of label sets accounts for every
\* eligible goroutine that had labels, as CountsEveryone says, or is refused
\* (memusage/compute.go:390-427, snapshot.go:80-97, bubbles.go:46-104).
NobodySilentlyUnlabelled ==
  TrueAddresses =>
    /\ \A all \in BOOLEAN :
         answer.kind = (IF all THEN "session_all" ELSE "session") =>
           \A i \in Selected(all) :
             LET gid == world.goroutines[i].gid
             IN gid \in diag.failed \/ Written(i) = {l \in Written(i) : <<l, gid>> \in answer.index}
    /\ \A all \in BOOLEAN :
         answer.kind = (IF all THEN "bubbles_all" ELSE "bubbles") =>
           CountsEveryone(all, answer.bubbles)

\* bubbles.go:15: "Bubble is one exact pprof label set and the number of
\* goroutines carrying it."
ExactBubbles ==
  TrueAddresses => \A all \in BOOLEAN :
    answer.kind = (IF all THEN "bubbles_all" ELSE "bubbles") =>
      answer.bubbles =
        {[labels |-> s, count |-> Cardinality({i \in Selected(all) : Written(i) = s})] :
           s \in {Written(i) : i \in Selected(all)} \ {{}}}

\* What a goroutine's labels are made of is all in the dump, and within the
\* decoder's limits.
InDump(i) == world.parts[i] # {} /\ world.parts[i] \cap missing = {}

\* The probe never passes over the true offset: when a goroutine had the label
\* it looks for and the dump holds all that its labels are made of, this one
\* and the others, the offset of the labels field is among its candidates,
\* with that goroutine
\* (heaplabels/decode.go:321-365).
TrueOffsetIsACandidate ==
  answer.kind \in {"probed", "inconclusive"} /\ ~ world.bigEndian =>
    \A i \in DOMAIN world.goroutines :
      (world.want \subseteq Written(i) /\ InDump(i)) => <<world.offset, i>> \in answer.candidates
=============================================================================
