----------------------------- MODULE ObjectGraph -----------------------------
(***************************************************************************)
(* internal/snapshotgraph/build.go and graph.go: BuildContext turns a      *)
(* parsed dump into an object graph. It indexes the objects, sweeps their  *)
(* address ranges for overlaps, resolves every pointer word to the object  *)
(* that contains it, and collects the roots; any step may find the context *)
(* cancelled. FindObjectContaining is the lookup it and the labels use.    *)
(*                                                                         *)
(* The last address is MaxAddr and the last object id MaxId (2^64 - 1 and  *)
(* 2^32 - 1 in the code), so that wrap-around happens within reach. Object *)
(* ids start at 0; the object with id o is objects[o + 1].                 *)
(***************************************************************************)
EXTENDS Integers, Sequences, FiniteSetsExt, SequencesExt

CONSTANTS
  MaxAddr, MaxId,
  Inputs      \* parsed dumps: [objects, goroutines, globals, finalizers]

Addrs == 0 .. MaxAddr

(***************************************************************************)
(* What the parser hands over. objects: [addr, size, pointers], pointers a *)
(* sequence of words. goroutines: [frames, sched], the pointer words of    *)
(* the stack frames in order and the three words of the record (sched.ctxt,*)
(* defer, panic). globals: the root records and segment slots in order as  *)
(* [kind, ptr, slot]. finalizers: the words of the finalizer records.      *)
(* Every number is an unsigned word.                                       *)
(***************************************************************************)
Dumps ==
  [objects    : Seq([addr : Addrs, size : Addrs, pointers : Seq(Addrs)]),
   goroutines : Seq([frames : Seq(Addrs), sched : Seq(Addrs)]),
   globals    : Seq([kind : STRING, ptr : Addrs, slot : Addrs]),
   finalizers : Seq(Addrs)]

ASSUME GraphAssumption == MaxAddr \in Nat /\ MaxId \in Nat /\ Inputs \subseteq Dumps

VARIABLES
  input, strict,   \* the arguments
  phase,           \* the loop BuildContext is in, or how it ended
  next,            \* index of the loop's next element, from 1; in the sweep,
                   \* where the starts begin that it has not come to
  word,            \* index of the next pointer of objects[next]
  \* The graph.
  children,        \* Object.Children by id + 1
  references,      \* Graph.References by id + 1: the targets, in slot order
  byAddr,          \* Graph.ByAddr
  ranges,          \* Graph.ranges; its Starts differ, so their order is implied
  maxEnd,          \* maxEndRange.End in the sweep over the sorted ranges
  seen,            \* the epoch stamps
  overlapping,     \* ids of the ranges an overlap warning was issued for
  warned,          \* kinds of the other warnings issued
  \* The roots.
  roots,           \* ids of each goroutine's roots
  globalRoots,     \* ids of the global roots
  seenRoots,       \* seenGlobalRoots
  stats

argVars == <<input, strict>>
indexVars == <<byAddr, ranges, maxEnd, overlapping, warned>>
edgeVars == <<children, references, seen>>
rootVars == <<roots, globalRoots, seenRoots>>
vars == <<argVars, phase, next, word, indexVars, edgeVars, rootVars, stats>>

objects == input.objects
Ids == 0 .. Len(children) - 1
Loops == <<"objects", "ranges", "edges", "goroutines", "globals", "finalizers", "totals">>
Counters == {"raw", "zero", "resolved", "unresolved", "unresolvedStack",
             "unresolvedGlobal", "unresolvedFinalizer", "bytes"}

(* Slips: one plausible mistake each; no specification uses them.           *)

FindAfter(ptr) ==
  IF ptr \in DOMAIN byAddr THEN {byAddr[ptr]}
  ELSE LET below == {r \in ranges : r.start <= ptr}
       IN  {r.id : r \in {q \in below : /\ \A s \in below : s.start <= q.start
                                        /\ ptr <= q.end}}

\* FindObjectContaining: the set of the id found, empty when there is none.
\* An exact address wins; otherwise only the range that starts last at or
\* before ptr is looked at.
Find(ptr) ==
  IF ptr = 0 THEN {}
  ELSE IF ptr \in DOMAIN byAddr THEN {byAddr[ptr]}
  ELSE LET below == {r \in ranges : r.start <= ptr}
       IN  {r.id : r \in {q \in below : /\ \A s \in below : s.start <= q.start
                                        /\ ptr < q.end}}

\* The ids a list of words resolves to, in order, and how many do not.
Resolved(words) ==
  FoldLeft(LAMBDA ids, w : ids \o SetToSeq(Find(w)), <<>>, words)
Unresolved(words) ==
  Cardinality({i \in DOMAIN words : words[i] # 0 /\ Find(words[i]) = {}})

Count(counter, n) == stats' = [stats EXCEPT ![counter] = @ + n]

Init ==
  /\ input \in Inputs
  /\ strict \in BOOLEAN
  /\ phase = "objects" /\ next = 1 /\ word = 1
  /\ children = <<>> /\ references = <<>> /\ seen = <<>>
  /\ byAddr = [a \in {} |-> 0] /\ ranges = {} /\ maxEnd = 0
  /\ overlapping = {} /\ warned = {}
  /\ roots = <<>> /\ globalRoots = <<>> /\ seenRoots = {}
  /\ stats = [c \in Counters |-> 0]

\* The function returns nil and an error.
Fail ==
  /\ phase' = "failed"
  /\ UNCHANGED <<argVars, next, word, edgeVars, byAddr, ranges, maxEnd, overlapping,
                 rootVars, stats>>

Size(loop) ==
  CASE loop = "goroutines" -> Len(input.goroutines)
    [] loop = "globals" -> Len(input.globals)
    [] loop = "finalizers" -> Len(input.finalizers)
    [] OTHER -> Len(objects)

Done(loop) ==
  IF loop = "ranges" THEN \A r \in ranges : r.start < next ELSE next > Size(loop)

Element(loop) == phase = loop /\ next <= Size(loop)
Advance == next' = next + 1 /\ UNCHANGED phase

\* ctx.Err() before each element, but for the sweep, and before the return.
Cancel ==
  /\ phase \in ToSet(Loops) \ {"ranges"}
  /\ Element(phase) \/ phase = "totals"
  /\ Fail /\ UNCHANGED warned

\* A loop is done and the one after it starts.
NextLoop ==
  /\ \E i \in 1 .. Len(Loops) - 1 : Loops[i] = phase /\ phase' = Loops[i + 1]
  /\ Done(phase)
  /\ next' = 1
  /\ UNCHANGED <<argVars, word, indexVars, edgeVars, rootVars, stats>>
-----------------------------------------------------------------------------
(* The objects *)

src == objects[next]
duplicate == src.addr \in DOMAIN byAddr
overflows == src.addr + src.size > MaxAddr
full == Len(children) > MaxId

\* One more graph object, whatever becomes of its address.
AppendObject ==
  /\ children' = Append(children, <<>>)
  /\ references' = Append(references, <<>>)
  /\ seen' = Append(seen, 0)

Warn(kind) == warned' = warned \cup {kind}

IndexWithoutLookup ==
  /\ Element("objects") /\ ~full
  /\ \/ src.addr = 0 /\ Warn("zero address")
     \/ duplicate /\ ~strict /\ Warn("duplicate")
  /\ AppendObject /\ Advance
  /\ UNCHANGED <<argVars, word, byAddr, ranges, maxEnd, overlapping, rootVars, stats>>

\* A zero-sized object is found by its address only. A range that would end
\* beyond the last address is clamped to it.
Index ==
  /\ Element("objects") /\ ~full
  /\ src.addr # 0 /\ ~duplicate
  /\ src.size > 0 /\ overflows => ~strict
  /\ byAddr' = [a \in DOMAIN byAddr \cup {src.addr} |->
                  IF a = src.addr THEN Len(children) ELSE byAddr[a]]
  /\ IF src.size = 0
       THEN Warn("zero size") /\ UNCHANGED ranges
       ELSE /\ ranges' = ranges \cup
                 {[start |-> src.addr,
                   end   |-> IF overflows THEN MaxAddr ELSE src.addr + src.size,
                   id    |-> Len(children)]}
            /\ IF overflows THEN Warn("overflow") ELSE UNCHANGED warned
  /\ AppendObject /\ Advance
  /\ UNCHANGED <<argVars, word, maxEnd, overlapping, rootVars, stats>>

\* Strict turns a duplicate address and an overflowing range into errors; an
\* id that does not fit ObjectID always is one.
IndexFails ==
  /\ Element("objects")
  /\ \/ strict /\ duplicate /\ Warn("duplicate")
     \/ full /\ ~(strict /\ duplicate) /\ UNCHANGED warned
     \/ /\ strict /\ src.addr # 0 /\ ~duplicate /\ src.size > 0 /\ overflows /\ ~full
        /\ Warn("overflow")
  /\ Fail

-----------------------------------------------------------------------------
(* The sweep over the ranges in the order of their starts *)

\* The range of the sweep's next element.
ComesNext(cur) ==
  /\ phase = "ranges" /\ next <= cur.start
  /\ \A r \in ranges : next <= r.start => cur.start <= r.start

Past(cur) == next' = cur.start + 1 /\ UNCHANGED phase

(* Slips *)
SweepAdjacent ==
  \E cur \in ranges :
    /\ ComesNext(cur)
    /\ IF cur.start < maxEnd
         THEN /\ overlapping' = overlapping \cup {cur.id}
              /\ IF strict THEN phase' = "failed" /\ UNCHANGED next ELSE Past(cur)
         ELSE UNCHANGED overlapping /\ Past(cur)
    /\ maxEnd' = cur.end
    /\ UNCHANGED <<argVars, word, edgeVars, byAddr, ranges, warned, rootVars, stats>>

SweepWarning ==
  \E cur \in ranges :
    /\ ComesNext(cur)
    /\ overlapping' = IF cur.start < maxEnd THEN overlapping \cup {cur.id} ELSE overlapping
    /\ Past(cur)
    /\ maxEnd' = IF cur.end > maxEnd THEN cur.end ELSE maxEnd
    /\ UNCHANGED <<argVars, word, edgeVars, byAddr, ranges, warned, rootVars, stats>>

\* The range is compared with the one that reaches furthest so far.
Sweep ==
  \E cur \in ranges :
    /\ ComesNext(cur)
    /\ IF cur.start < maxEnd
         THEN /\ overlapping' = overlapping \cup {cur.id}
              /\ IF strict THEN phase' = "failed" /\ UNCHANGED next ELSE Past(cur)
         ELSE UNCHANGED overlapping /\ Past(cur)
    /\ maxEnd' = IF cur.end > maxEnd THEN cur.end ELSE maxEnd
    /\ UNCHANGED <<argVars, word, edgeVars, byAddr, ranges, warned, rootVars, stats>>

-----------------------------------------------------------------------------
(* The edges *)

(* Slip *)
epochFromZero == (next - 1) % (MaxId + 1)

\* uint32(i) + 1 for the 0-based i = next - 1.
epoch == next % (MaxId + 1)
pointer == objects[next].pointers[word]

AtPointer == Element("edges") /\ word <= Len(objects[next].pointers)
NextPointer == word' = word + 1

SkipPointer ==
  /\ AtPointer
  /\ Find(pointer) = {}
  /\ stats' = [stats EXCEPT !.raw = @ + 1,
                            ![IF pointer = 0 THEN "zero" ELSE "unresolved"] = @ + 1]
  /\ NextPointer
  /\ UNCHANGED <<argVars, phase, next, indexVars, edgeVars, rootVars>>

(* Slip *)
AddEdgeUnstamped(target) ==
  /\ AtPointer
  /\ target \in Find(pointer)
  /\ stats' = [stats EXCEPT !.raw = @ + 1, !.resolved = @ + 1]
  /\ references' = [references EXCEPT ![next] = Append(@, target)]
  /\ children' = [children EXCEPT ![next] = Append(@, target)]
  /\ NextPointer
  /\ UNCHANGED <<argVars, phase, next, indexVars, seen, rootVars>>

\* Every resolved slot is a reference; only the first to a target, by its
\* stamp, is an edge.
AddEdge(target) ==
  /\ AtPointer
  /\ target \in Find(pointer)
  /\ stats' = [stats EXCEPT !.raw = @ + 1, !.resolved = @ + 1]
  /\ references' = [references EXCEPT ![next] = Append(@, target)]
  /\ IF seen[target + 1] = epoch
       THEN UNCHANGED <<seen, children>>
       ELSE /\ seen' = [seen EXCEPT ![target + 1] = epoch]
            /\ children' = [children EXCEPT ![next] = Append(@, target)]
  /\ NextPointer
  /\ UNCHANGED <<argVars, phase, next, indexVars, rootVars>>

NextSource ==
  /\ Element("edges") /\ word > Len(objects[next].pointers)
  /\ Advance /\ word' = 1
  /\ UNCHANGED <<argVars, indexVars, edgeVars, rootVars, stats>>

-----------------------------------------------------------------------------
(* The roots *)

\* The words of the frames, then the scheduler's; only the former are
\* counted when they do not resolve.
AddGoroutine ==
  LET g == input.goroutines[next]
  IN  /\ Element("goroutines")
      /\ roots' = Append(roots, Resolved(g.frames) \o Resolved(g.sched))
      /\ Count("unresolvedStack", Unresolved(g.frames))
      /\ Advance
      /\ UNCHANGED <<argVars, word, indexVars, edgeVars, globalRoots, seenRoots>>

\* A root seen before, by kind, word and slot, is skipped, resolved or not.
AddGlobal ==
  LET r == input.globals[next]
  IN  /\ Element("globals")
      /\ IF r.ptr = 0 \/ r \in seenRoots
           THEN UNCHANGED <<seenRoots, globalRoots, stats>>
           ELSE /\ seenRoots' = seenRoots \cup {r}
                /\ globalRoots' = globalRoots \o Resolved(<<r.ptr>>)
                /\ Count("unresolvedGlobal", Unresolved(<<r.ptr>>))
      /\ Advance
      /\ UNCHANGED <<argVars, word, indexVars, edgeVars, roots>>

AddFinalizer ==
  LET w == input.finalizers[next]
  IN  /\ Element("finalizers")
      /\ globalRoots' = globalRoots \o Resolved(<<w>>)
      /\ Count("unresolvedFinalizer", Unresolved(<<w>>))
      /\ Advance
      /\ UNCHANGED <<argVars, word, indexVars, edgeVars, roots, seenRoots>>

-----------------------------------------------------------------------------
(* The totals *)

(* Slip *)
AddBytesWrapping ==
  /\ Element("totals")
  /\ stats' = [stats EXCEPT !.bytes = (@ + objects[next].size) % (MaxAddr + 1)]
  /\ Advance
  /\ UNCHANGED <<argVars, word, indexVars, edgeVars, rootVars>>

AddBytes ==
  /\ Element("totals")
  /\ objects[next].size <= MaxAddr - stats.bytes
  /\ Count("bytes", objects[next].size)
  /\ Advance
  /\ UNCHANGED <<argVars, word, indexVars, edgeVars, rootVars>>

BytesOverflow ==
  /\ Element("totals")
  /\ objects[next].size > MaxAddr - stats.bytes
  /\ Fail /\ UNCHANGED warned

Return ==
  /\ phase = "totals" /\ next > Len(objects)
  /\ phase' = "returned"
  /\ UNCHANGED <<argVars, next, word, indexVars, edgeVars, rootVars, stats>>

Next ==
  \/ IndexWithoutLookup \/ Index \/ IndexFails
  \/ Sweep
  \/ SkipPointer \/ NextSource \/ \E target \in Ids : AddEdge(target)
  \/ AddGoroutine \/ AddGlobal \/ AddFinalizer
  \/ AddBytes \/ BytesOverflow \/ Return
  \/ NextLoop \/ Cancel

Spec == Init /\ [][Next]_vars
-----------------------------------------------------------------------------
(* Properties *)

IdsOnly(lists) == \A i \in DOMAIN lists : ToSet(lists[i]) \subseteq Ids

\* Every id in the graph, its index, its ranges and its roots is an object's,
\* and no range wraps around.
TypeOK ==
  /\ phase \in ToSet(Loops) \cup {"failed", "returned"}
  /\ Len(children) <= Len(objects) /\ Len(references) = Len(children)
  /\ IdsOnly(children) /\ IdsOnly(references) /\ IdsOnly(roots)
  /\ ToSet(globalRoots) \subseteq Ids
  /\ DOMAIN byAddr \subseteq Addrs \ {0}
  /\ \A a \in DOMAIN byAddr : byAddr[a] \in Ids /\ objects[byAddr[a] + 1].addr = a
  /\ \A r \in ranges : r.id \in Ids /\ 0 < r.start /\ r.start <= r.end /\ r.end <= MaxAddr
  /\ seen \in Seq(0 .. MaxId) /\ Len(seen) = Len(children)
  /\ stats \in [Counters -> Nat]

\* The objects that can be found: not at address 0, and the first of those
\* that claim the same address.
Findable ==
  {o \in 0 .. Len(objects) - 1 :
     /\ objects[o + 1].addr # 0
     /\ \A p \in 0 .. o - 1 : objects[p + 1].addr # objects[o + 1].addr}

Swept == phase \notin {"objects", "ranges", "failed"}

\* An interior pointer resolves to the object that contains it and to no
\* other, an exact address to the object there even inside another's range,
\* and any other word to nothing. The last address is left out: a range that
\* reaches it is clamped to end before it.
FindIsContainment ==
  Swept /\ overlapping = {} =>
    \A ptr \in 1 .. MaxAddr - 1 :
      LET at     == {o \in Findable : objects[o + 1].addr = ptr}
          within == {o \in Findable : /\ objects[o + 1].addr < ptr
                                      /\ ptr < objects[o + 1].addr + objects[o + 1].size}
      IN  Find(ptr) = IF at # {} THEN at ELSE within

\* The sweep, which looks at each range once, reports every range that starts
\* inside another, whatever is nested in between, and no other range.
OverlapsReported ==
  Swept => overlapping = {s.id : s \in {t \in ranges :
             \E r \in ranges : r.start < t.start /\ t.start < r.end}}

\* The edges of an object are its resolved pointers, each once. build.go says
\* that the stamps lose nothing: at worst, with 2^32 objects, the last one
\* keeps its duplicates, and reachability is unaffected.
EdgesAreReferences ==
  \A o \in 1 .. Len(children) : ToSet(children[o]) = ToSet(references[o])

\* Dropping duplicates by stamp keeps none: an edge is there once.
EachEdgeOnce == \A o \in 1 .. Len(children) : IsInjective(children[o])

\* In strict mode an analysis is only returned for a dump whose objects have
\* distinct addresses and ranges that neither overlap nor wrap around.
StrictIsClean ==
  strict /\ phase = "returned" =>
    overlapping = {} /\ warned \subseteq {"zero address", "zero size"}

SumOf(terms) == MapThenSumSet(LAMBDA i : terms[i], DOMAIN terms)
Words(g) == ToSet(g.frames) \cup ToSet(g.sched)
FoundOf(words) == UNION {Find(w) : w \in words}
GlobalWords == {r.ptr : r \in ToSet(input.globals)} \cup ToSet(input.finalizers)
CountedWords ==
  GlobalWords \cup
    UNION ({ToSet(objects[o].pointers) : o \in DOMAIN objects}
           \cup {ToSet(input.goroutines[g].frames) : g \in DOMAIN input.goroutines})

\* What is returned accounts for the whole dump: every word that points into
\* an object is a root or a reference, skipping repeated global roots loses
\* none, no pointer is lost between the counters, the byte total is exact,
\* and the unresolved counters, which mark the analysis as incomplete, are
\* all zero exactly when every counted word that is not nil was resolved.
ReturnedIsComplete ==
  phase = "returned" =>
    /\ Len(children) = Len(objects) /\ Len(roots) = Len(input.goroutines)
    /\ \A g \in DOMAIN roots : ToSet(roots[g]) = FoundOf(Words(input.goroutines[g]))
    /\ ToSet(globalRoots) = FoundOf(GlobalWords)
    /\ \A o \in DOMAIN objects :
         ToSet(references[o]) = FoundOf(ToSet(objects[o].pointers))
    /\ stats.raw = SumOf([o \in DOMAIN objects |-> Len(objects[o].pointers)])
    /\ stats.raw = stats.zero + stats.resolved + stats.unresolved
    /\ stats.bytes = SumOf([o \in DOMAIN objects |-> objects[o].size])
    /\ (\A w \in CountedWords \ {0} : Find(w) # {}) <=>
         (\A c \in {"unresolved", "unresolvedStack", "unresolvedGlobal",
                    "unresolvedFinalizer"} : stats[c] = 0)
=============================================================================
