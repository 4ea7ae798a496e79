# Verification of bubblepprof

bubblepprof answers the question "how much memory is reachable from the goroutines that
carry these labels?". It writes a heap dump of its own process, recovers the pprof labels
from the dump, builds a graph of the heap objects, and walks it from the roots of the
selected goroutines. The dump stops the world and fills a scratch file, so one gate guards
both HTTP endpoints; the analysis may be kept as a session and queried by many callers.

This directory holds TLA+ models of those parts, TLC configurations that check them on
small instances, and proofs of the central properties for every instance. Source paths
below are relative to the repository.

1. [Inventory](#1-inventory)
2. [Plan](#2-plan)
3. [Modules and the code](#3-modules-and-the-code)
4. [Runs and what they show](#4-runs-and-what-they-show)
5. [Bounds](#5-bounds)
6. [Fairness](#6-fairness)
7. [Proofs](#7-proofs)
8. [Findings](#8-findings)
9. [What is not modelled](#9-what-is-not-modelled)

## 1. Inventory

| Component | State | Operations | Correct when |
|---|---|---|---|
| Capture gate (`internal/capture/gate.go`) | a channel of capacity 1, the end of the cooldown | `Acquire`, the release closure | one capture at a time; never sooner than the cooldown; `Retry-After` suffices; never locked for good |
| Heap dump capture (`internal/capture`) | a temporary directory and a dump file | `Capture`, cleanup | every failure and cancellation removes both, before the gate opens again |
| HTTP endpoints (`internal/memusage/handler.go`, `internal/bundle/handler.go`, `pkg/bubblepprof/bundle.go`) | the shared gate, the response sent so far | `POST /debug/memusage`, `GET /debug/memusage/bundle` | the gate given back on every path; a cut tar never looks complete; each endpoint's cooldown respected |
| Heap dump parser (`internal/heapdump`) | reader position, records so far, the goroutine whose frames come next; later the table of lazy contents | `Parse`, `Contents` | a prefix of a dump is never taken for a dump, a sound dump never refused; every record, frame and root is where it was written |
| Label recovery (`internal/heaplabels`, `internal/memusage/capture.go`) | results so far; the session's label index and failures | `DecodeAll`, the diagnostics, `ListBubbles`, the offset probe | a label set is complete and true or the failure is reported, all the way to the query |
| Address spaces (`internal/addrspace`) | mappings, sections of the executable | `ReadAtAddr` of each reader and of their composition | bytes read are those the process held |
| Runtime layouts (`internal/runtimelayout`) | none | `Lookup`, `Manual` | an unknown runtime is unsupported, never guessed |
| Object graph builder (`internal/snapshotgraph/build.go`, `graph.go`) | objects, address ranges, edges, roots, counters | `BuildContext`, `FindObjectContaining` | a pointer resolves to the object that contains it; nothing lost or doubled; totals exact; no partial result |
| Reachability walk (`internal/snapshotgraph/reachability.go`) | visited set, queue | `ReachableFrom` | the least closed set around the roots |
| Path search (`internal/snapshotgraph/path.go`) | predecessors, queue, limit | `FindPath`, the reported status | a witness is a shortest path; "not reachable" is never a guess |
| Path export (`internal/memusage/export_paths.go`) | one forest for all objects | `ExportPprof` | each stack is a shortest path from the first root, by goroutine id, that has one, cut as asked, with what is omitted counted |
| Snapshot session (`internal/memusage`) | analysis, label index, two cached root sets, one mutex | `Query`, `Compare`, `Shared`, `Exclusive`, `Top`, `Summary`, `Objects`, `Explain`, `ExplainTop`, `Export`, label lists, `Close` | atomic; true answers; none after `Close`; none when labels that matter could not be decoded |
| Bundle archive (`internal/bundle`) | tar stream, extracted dump, segment table | `CaptureSelf`, `Write`, `Validate`, `Open`, segment reads | only a whole, consistent bundle opens; temporary files removed; a segment reads back as memory |
| Download (`internal/cli/download.go`, `fetch.go`) | staging file, the timer of the request | fetch, stage, validate, rename or print | the destination is replaced only by a valid bundle; the fetch ends |
| Offline diff (`internal/offline`) | two sessions | `Diff` | both sides use the same selection; incompatibilities are reported |
| Command line, public wrappers, examples | none | option and flag translation | - |

How they interact: a handler takes the gate, calls `Capture`, opens the dump file again by
name, and either analyses it (parser, label recovery, graph builder, then one session query)
or streams it as a bundle. The command line downloads bundles and loads them into sessions
through the same parser, decoder and builder. Handlers run on one goroutine per request and
share only the gate; callers of a session share its mutex.

What is hard here: the window between two channel or mutex operations of the gate; clients
that leave, panics and failures at each step while a temporary directory exists; responses
whose header is already sent; caches filled by one query and used by another, with refusals
and cancellation between; `Close` racing queries; epochs, address ranges and totals at the
limits of their width; a search that stops at a limit; dumps and archives cut at any byte,
memory unmapped between being planned and being read, labels of which the dump lacks a part.
`PROJECT.json` lists these hazards at their lines, each with the properties that watch it.

## 2. Plan

Order of work, the most consequential first. All modules named here exist, and the
plan is carried out; section 9 says what is left out of it.

1. `SingleFlight` (abstract), `Gate` and `GateProofs`: the gate, its refinement, its proofs.
2. `Endpoints` and `EndpointsProofs`: both handlers around the gate's specification.
3. `Reach` and its theorems: the walk every number rests on.
4. `ObjectGraph`: the builder at the limits of its integer widths.
5. `Selection`, `Explanations`, `Answers`, `SessionPromise` (abstract), `Session`,
   and `SessionProofs`.
6. `PathSearch`, `ExportForest` and `PathSearchProofs`: the bounded search and the export.
7. `TarStream`, `Bundle`, `BundleCapture`, `TransferPromise` (abstract), `Transfer`: a bundle
   from the target's memory to an analysis.
8. `DumpReader`, `DumpParser`: the stream and the records.
9. `AddressSpace`, `RuntimeLayout`, `Labels`: the labels and what is made of them.
10. `ObjectGraphProofs` (with the theorems about `Reach`), the distances and the export of `PathSearchProofs`, the refinement in
    `SessionProofs`, `LabelsProofs`, `TransferProofs`.
11. `DumpParserProofs`: the codec, the records, the snapshot, the resolver.
12. The answers of `Objects`, `Shared`, `Explain` and `ExplainTop`, in `SessionProofs`.

Composition: `Endpoints` instantiates `SingleFlight`, which `Gate` is proved to implement, so
the gate's own interleavings need not be repeated in the product of the handlers. `Session`
uses a walk as one operator, the least closed set that `Reach` is proved to compute; the
sets `failed` and `missing` of its sources are what `Labels` shows loading a dump to yield.
`Transfer` composes the endpoint's stream, the network, the download and the reader of
bundles. `ExportForest` is compared with `PathSearch`'s result in length and presence, and with
all paths of its roots; `Explanations` takes that result as a shortest path.

## 3. Modules and the code

**`SingleFlight`** is what the gate promises: an owner or none, and `rest`, the time since the
last capture, which must have reached the cooldown before the next starts.

**`Gate`** is `gate.go`. One step is one channel operation or one region under `mu`, so a
request goes idle, checking, refusing or capturing, recording, freeing, and others run in
between. `sem` is the length of the channel, `left` is what `next.Sub(now())` would return.
Time is relative, so no clock grows. `rest`, `hint` and `renewed` are history: the time that
really passed, what each refused client still has to wait, and whether a capture ended since.

**`Endpoints`** is `serve` and `serveBundle` from the method check to the end of the response,
with `Capture` and its cleanup in between. `at` is the next thing the handler does; the
steps of one request between two context checks are one step. `scratch` and `files` are
the directory and the open files; `header`, `sent` and `body` are what the client sees. A
client may leave at any moment, and each step may fail or panic. `WaitsForClient` says in which
calls the goroutine depends on its client: reading a JSON request, writing the tar or an answer,
the flush at the end.

**`Reach`** is `ReachableFrom`, one step per root and child, over arrays of child lists that
may hold ids that index nothing, as the code's bounds checks expect.

**`ObjectGraph`** is `BuildContext`, loop by loop, one element per step, and
`FindObjectContaining`. The last address is `MaxAddr` and the last id `MaxId`. The sweep over the sorted
ranges goes from one start to the next; the starts differ, so their order needs no list. The input is
what the parser hands over. Provenance (`KeepReferenceProvenance`) is taken as on, since
`references` is what the edges are compared with; it does not influence the edges.

**`Selection`** has the pure computations of a session: who is eligible, what matches,
whether failures count, and the reports of `inspect`, `compare`, `memberships` and `Top`. An
answer keeps the set of objects where the code returns its count and bytes: equal sets give
equal measures, and sets tell more mistakes apart. `Walk` is the least closed set, which
`ObjectGraphProofs` proves of the worklist algorithm. `Snapshot.walk` and `ReachableFrom` are the
same algorithm, apart from the context.

**`Answers`** defines the same reports a second time, from what the documentation says they
mean: reachability by single goroutines, one label at a time, "reached by no other root".
Apart from `Walk` of a single root and `Bytes` it shares no definition with the reports, and it is what a call's answer is compared with.

**`SessionPromise`** is a session as its callers may see it: each call takes effect at one
instant between its start and its end, with the true answer, a refusal, or, after a
`Close` took effect, the refusal that it is closed.

**`Session`** is `Snapshot` under concurrent calls. The mutex is a variable; a method enters,
computes and leaves. `Query` takes several steps, because it fills the two caches one
after the other and may give up after either; the other methods change nothing and take
one step. `Export` takes the mutex twice, in `Summary` and in `Metadata`, as the code does,
and others run in between.

**`Explanations`** has the lists of objects (`rankedIDs`, limits, size distributions,
memberships in groups) and `Explain` and `ExplainTop`: which sources are searched, which are
counted only, which paths are printed and how far. Both halves of `explainObject`'s count of
sources are kept apart as in the code; `Answers` counts them once. A sort is any row of the set that
its order holds along (`Sorted`); `Answers` instead puts each element at the place that the number of
those before it gives. Sizes have `SizeBits` bits.

**`PathSearch`** is `FindPath`, one step per root, child and witness object, and the status
`path` in `explain.go` derives from its result. A context check may fail wherever the code
has one. **`ExportForest`** is the search of `export_paths.go`, which has no target: one forest
for all objects, anchors for the beginnings of long paths, and the segments of a stack. An
export sorts the goroutines by id before it lists their roots (`ExportOrder`, lines 79-88), an
explanation lists them as the analysis has them (`explain.go:109-116`): where two roots are as
near, the two may name different roots and different paths, of the same length.

**`DumpReader`** is the reader of the dump's cells (varints, strings, memory ranges, pointer
fields), with the code's checks in the code's order. Its loops are recursive functions, of the
cell or the part they have come to. A cell is a byte outside payloads and half a word inside
them. The widths of a varint are constants: the flag of a cell that is not the last (`Continue`,
0x80 in the code), how many cells there may be (`MaxGroups`, 10) and what the last of them must
stay below (`LastGroup`, 2); `MaxUint` is what they can hold. **`DumpParser`** is `Parse`, one step for the
header and one per record, in strict and tolerant mode, eager and lazy, and the content
resolver that reads objects back from the file by address. What the runtime wrote (`dump`) and
how much of it arrived (`cut`) are variables that only the properties read, except through
`file`, the part that arrived. A dump is any sequence of well-formed records
(`DumpsAssumption`); which of them a correct runtime would not write is defined from their values
(`Sound`), and `Faulty` is a dump with one of those, or with an unknown record before its end.

**`TarStream`** is a tar archive as a sequence of headers and data units, closed by two zero
blocks. **`Bundle`** is the format: members, metadata, index, `Validate` and `Open` over a
stream, and the segment reader. **`BundleCapture`** chooses the ranges of read-only memory and
writes the members chunk by chunk, through the artifact limit. **`Transfer`** runs them: the
endpoint writes, the program unmaps memory, the connection breaks or ends, `fetch` stages,
probes, validates, renames or prints, times out, meets a full disk or is killed, and a session
opens what there is. **`TransferPromise`** is the same without tar, HTTP or contents: the
destination is replaced in one step by a whole archive, and temporary files have living owners.

**`AddressSpace`** has the readers (the dump's objects, the executable's file-backed and
readable sections, live mappings, the composition of readers) as functions from an address and
a size to the set of their results, empty when the read fails. **`RuntimeLayout`** is the
lookup of the verified table and the manual override. **`Labels`** is `DecodeAll`, one step per
goroutine and label, over a `world` (the process, with the labels it really set, in order) of
which the dump lacks some objects; `IsProcess` says what a world has to be: wherever the heap
has what a goroutine's labels are made of, it spells what was set (`Carries`), and the objects
named as holding all of it do (`KeptLabels`). Then come the diagnostics, the session's index and failed set,
`ListBubbles`, which groups goroutines by the JSON of their labels (`Marshal`: in the order of the
keys, with one escape for every byte that is in no character of `Encodings`), and the offset probe of
`cmd/labeloffsetprobe`. The dump or the file behind the
extra reader may become unreadable between two steps.

`MC*` modules only give the constants values. Each module also contains *slips*: variants of
its own definitions with one plausible mistake (a token not returned, an epoch from zero, a
`Close` that keeps a cache). No specification uses them. `PROJECT.json` pairs every property
of every passing run with a slip that breaks it, so each property is known to see
something.

## 4. Runs and what they show

| Run | Module, cfg | Distinct states | Shows |
|---|---|---|---|
| `gate` | MCGate, Gate.cfg | 48,583 | The token is neither lost nor doubled (`TokenInv`); no capture too soon (`CooldownRespected`); a client that waits as told is not refused for the same cooldown (`RetryHintSuffices`); the gate always becomes free (`GateRecovers`), and polling neither prolongs a cooldown nor starves captures (`CapturesHappen`); Gate implements SingleFlight (`PromiseKept`) |
| `endpoints` | MCEndpoints, Endpoints.cfg | 74,954 | Directory and files exist only while their request holds the gate, on every path (`ScratchGuarded`); a response that ends normally is whole and honest (`HonestReply`); each endpoint's own cooldown holds across both (`OwnCooldown`); the gate comes back from every request that gets it, through failures, panics and clients that leave (`GateReturned`) |
| `reach` | MCReach, Reach.cfg | 40,800 | The walk ends (`Terminates`) with the least closed set (`Exact`), queueing each object once (`VisitedOnce`) |
| `object_graph` | MCObjectGraph, ObjectGraph.cfg | 278,996 | Lookup is containment (`FindIsContainment`); one pass finds exactly the overlaps (`OverlapsReported`); edges are the references, once each (`EdgesAreReferences`, `EachEdgeOnce`); strict results are clean (`StrictIsClean`); a returned analysis is complete and its counters add up (`ReturnedIsComplete`) |
| `session` | MCSession, Session.cfg | 178,888 | A cached set is the whole walk of its roots, whoever filled it and whatever was cancelled (`CacheIsWhole`); `Close` leaves nothing (`ClosedHoldsNothing`); no answer depends on undecoded labels (`Authoritative`); calls are atomic, true, and refused after `Close` (`KeepsPromise`); every call returns (`Answered`) |
| `path_search` | MCPathSearch, PathSearch.cfg | 482,235 | A witness is a shortest path from the root it names (`ShortestWitness`); "not reachable" and "search limit" are said only when true (`StatusIsHonest`); an exported stack is the beginning and end of a path as short, from the first root in the order of goroutine ids that has one, with what is omitted counted (`StacksAreHonest`) |
| `parser` | MCDumpParser, DumpParser.cfg | 205,881 | A cut dump is an error, also between two records (`TruncationIsAnError`); a sound and whole one is accepted (`WholeDumpsAreAccepted`); the snapshot is what the records say: each once, in order, with every value, pointer and kept content, the last of each key, the roots in order, the counts (`SnapshotIsTheDump`); frames are with the goroutine whose section they were written in (`FramesStayHome`); roots of data and BSS are the words at their slots, nil ones and damaged fields among them (`RootsAreMemory`); lazy reads return the dump's bytes (`ReadsAreTheDump`) |
| `transfer` | MCTransfer, Transfer.cfg | 50,798 | No proper piece of a capture's stream validates, or opens to less than the whole (`CutsNeverOpen`; other servers' archives may end in padding, of which a piece is still whole); segments read back as the target's memory, at every address and size, and a bundle without warnings misses no address that could be read throughout (`SegmentsReadBack`); Transfer implements TransferPromise (`KeepsPromise`); every fetch ends (`FetchEnds`) |
| `labels` | MCLabels, Labels.cfg | 234,949 | Labels reported are the labels set (`DecodedIsWritten`); no goroutine loses its labels without a failure that the session or `ListBubbles` reports, and the list counts every goroutine once, under labels that look like its own in JSON and are its own when they are text (`NobodySilentlyUnlabelled`); the probe never passes over the true offset (`TrueOffsetIsACandidate`) |
| `gate_busy` | MCGate, GateBusy.cfg | violation | Finding 1 |
| `epoch_wrap` | MCObjectGraph, EpochWrap.cfg | violation | Finding 2 |
| `exact_bubbles` | MCLabels, ExactBubbles.cfg | violation | Finding 3 |

The type invariants of the modules with a proof module are theorems (section 7) and take no
room in the runs. Runs of systems that stop (`object_graph`, `reach`, `path_search`, `parser`,
`labels`, and `transfer` after its last fetch) do not check deadlock.

To repeat one: `tlc -workers 2 -config Gate.cfg MCGate`.

## 5. Bounds

- Gate: three requests, so that one holds the token, one is refused and one arrives; two
  ticks a second and cooldowns -1 to 3, so that `Retry-After` is exact, rounded, zero and
  invalid. Requests repeat for ever.
- Endpoints: one goroutine per endpoint, each serving request after request; three chunks, so
  that a limit or failure cuts the stream before the first, in the middle and before the end
  marker. Within an endpoint a second goroutine would only meet the gate, which `Gate`
  covers.
- Reach: three objects, nine child lists, eight root lists, invalid ids among them.
- ObjectGraph: three objects in addresses 0 to 7, at five addresses with three sizes
  (adjacent, nested, overlapping, duplicate, zero-sized, wrapping), and five objects for
  the four ids 0 to 3. `EpochWrap.cfg` has ids 0 and 1 and two objects.
- Session: four objects with a cycle, of sizes of two bits (`SizeBits`), two workers and a system goroutine, six sources
  (who carries which labels, what globals and the system goroutine reach, whose labels failed:
  nobody's, a system goroutine's, a worker's, an unknown goroutine's), system goroutines
  included or not, two clients, fifteen calls (queries with no, one and two labels; object lists below their limit, cut by it, and with a refused one; an explanation with fewer printed paths than sources). Two clients suffice for one mutex: a third
  could only wait for the same lock. Clients call for ever.
- PathSearch: five objects, five child lists (cycles, shortcuts, duplicates, an id that
  indexes nothing), two root lists, owned by one goroutine or by two of which the one with the
  higher id comes first in the analysis, limits 0 and 3, a target that indexes an object and one
  that does not; stacks of unlimited, odd and even depth, so that a chain of five loses one
  to three of its middle.
- DumpParser: integers of 8 bits in at most three cells (`Continue` 8, `MaxGroups` 3, `LastGroup`
  4), the last of which can overflow as in the code's ten; words of two cells that hold what an
  integer holds (`WordAssumption`, as in the code, and needed by no theorem); pointers of one and two cells in both byte orders; dumps of one record of
  every kind, of two objects, of a goroutine section of three, and faulty ones; each cut after
  every cell, under three sets of options. Among them parameters and memory
  statistics written twice, with other values and another pointer size, and a type written twice.
- Transfer: three eligible mappings, one with a middle chunk that can vanish and one whose last chunk
  may never be readable, and a writable one; names for four segments; four sets of endpoint options with limits that cut the stream in different members, three ways to run `fetch`,
  thirteen archives of other servers, two fetches (`MaxFetches`). A stream ends
  between two of its units, which are half blocks of 256 bytes (`TarStream`): headers, contents,
  padding and the end marker can each be cut in their middle, but not at every byte.
- Labels: two word sizes, eight supported processes, four of unsupported runtimes, six damaged
  (`OneStale` keeps a stale pointer to other labels, which a probe takes for the labels field
  when it is the only candidate left: hence `TrueOffset` in `DecodedIsWritten`), and four with
  labels that are not text (bytes that are no character alone, and a character of two bytes, in
  keys and in values, alike and apart in JSON, in one order and in another); at most two heap objects missing (`MaxMissing`), every kind of extra reader.

No action is bounded otherwise: no counter of any model grows without end.

## 6. Fairness

- Gate: a goroutine that entered goes on (weak fairness of each request's steps), captures
  end, and time passes. `CapturesHappen` also needs clients that keep asking: weak fairness of
  *someone* entering, not of any one request, which the code does not promise. The channel
  operations are non-blocking sends and receives that find a token (`TokenInv`), so no
  stronger fairness is hidden in them.
- Endpoints: weak fairness of each handler's steps, except while it waits for its client
  (`WaitsForClient`): the handlers set no deadline, so such a call may never return, and nothing
  makes a client read, send or leave. `GateReturned` therefore excepts the one case the code does not
  exclude, an owner of the gate whose client stays connected and stops reading for ever.
- Reach: a sequential function runs to its end. ObjectGraph, PathSearch, DumpParser and
  Labels state no liveness.
- Transfer: weak fairness of the fetch's own steps, its timer among them, and of nothing else:
  the target, the network and the program may stop for ever, and `FetchEnds` still holds,
  which is what the timer is for (`fetch` insists on a positive one). Reading and printing a
  staged file is local and returns.
- Session: weak fairness of a method that holds the mutex, strong fairness of taking it, since
  `sync.Mutex` hands over to a goroutine that waited for a millisecond (starvation mode).
  Nothing forces a client to call, or a context to be cancelled.

## 7. Proofs

`tlapm` checks eight modules; everything holds for every value of the constants under the
assumptions named in the modules (values that are no member of a set, cooldowns that are
integers, a second of at least one tick).

**`GateProofs`.** `IInv` is `TypeOK /\ TokenInv /\ ClockInv`. `CooldownRespected` is not inductive
by itself: it needs that `left + rest` covers the cooldown, which fails between the end of a
capture and the write of `next`, and there the token keeps everybody out. From `IInv` follow
`TokenKept`, `ClocksAgree`, `CooldownHolds`, `HintSuffices` (with a lemma on rounding up)
and `GateImplementsSingleFlight`, step by step: `Admit` maps to the start, `Finish` to the end,
`Tick` to time, everything else to a stutter.

**`SessionProofs`** starts with the reports. `Walk` is the least closed set and distributes over the union of roots
(`OneWalkForAll`, the claim of `compute.go:24`). From this `ComparisonIsTrue` and
`InspectionIsTrue`: what `compare` and `inspect` return is what `Answers` says they mean, for
every graph and labelling. The second assumes that system goroutines are goroutines.

`TopIsTrue` is about the ranking of groups. `RowsAreTrue` takes the code's way to a row (a counter
per object, walks of the roots outside the groups) to the partition of
`docs/multi-bubble-analysis.md`, where an object is another group's when a goroutine of that
group reaches it: a counter above 1 is a second group, because a goroutine has one value of a key
(`GroupsAreApart`). `RowsAreOrdered` shows that the order of the rows is strict and total, hence
that the places below the limit are taken by exactly that many rows (`FirstPlaces`), none smaller than
one that is hidden. It assumes of the graph `GraphIsSound`, finitely many objects, numbered by address, of sizes of `SizeBits` bits, and of
the source `SoundSource`: system goroutines are goroutines, a goroutine's labels are a Go map with
one value for a key, and there are finitely many. That `Bytes`, a fold over a set, is a number at all is
`BytesAreNumbers`.

Then the concurrent session. `IInv` is `TypeOK`, `CacheIsWhole`, `ClosedHoldsNothing`,
`OpenWhileQuerying` (a query past its check runs on an open session, or `ClosedHoldsNothing`
would not survive its cache writes) and `FailuresChecked` (or `Authoritative` would have
nothing to stand on between check and answer). Theorems: `TypeCorrect`, `CachesAreWhole`,
`NothingHeldAfterClose`, `AnswersAreAuthoritative`.

`SessionImplementsPromise` adds `PromiseInv`: the index is that of the open session, no reply
is told before its step, and what a query under way has found is the true match but for the
overlaps it has not come to (`FoundBy`). `QueryFinish`, `Refuse`, `Cancel`, the reports and `Close` then map to
the instant at which a call takes effect, `Ask` and `Return` to its ends, the rest to stutters. The
specification tabulates reports and truths with a fold; `FillingTabulates` shows that the
table holds the report of each case. The theorem has `Hypotheses`: finitely many sources and
calls, `GraphIsSound`, sources that are sound, and `CallIsSound`: calls of the ten methods, whose limits
are what the checks and defaults of `objects`, `memberships`, `normalized` and `ExplainTop` leave
(negative limits of these are refused before anything is computed, and not modelled; those of
`Top` and `Shared` are). TLC evaluates the hypotheses for the run's sources and calls (`MCSession`
assumes them).

What each method returns is shown beforehand to be what `Answers` says, one theorem per method.
`SharedIsTrue`, `ListingIsTrue` and `ExplainTopIsTrue` rest on `InOrderIsSorted`: a strict and total order
of a finite set has exactly one row that it holds along, and in this the element at place i is the one with
i - 1 before it; so the code's sort, cut at a limit, and the ranking by number are the same.
`DistributionIsTrue` adds that `bits.Len64` puts sizes in the same bucket exactly when the same
powers of 2 bound them. `DistanceIsTrue` is the search by distance: what it finds after n rounds is what
a chain of at most n objects reaches, the rounds end within the number of objects, and a
first round is a shortest chain. `ExplanationIsTrue` then counts the sources once where the code adds what it kept
and what it dropped, and shows that the paths printed are those of the first sources, as many
as fit. For `ExplainTop`, the candidates after each row are the objects of the rows so far
at their first places (`Place`), no object twice (`RoundRobinIsSorted`). So nothing is supposed of
the reports: the theorem speaks of all ten methods.

**`ObjectGraphProofs`.** `Base` has the types and how far the build has come, and that the
lookup holds the first object at each address, with its range cut off at the last address.
On it rest `Sweeping` (the largest end so far is that of a range already passed, so it meets
the next start exactly when some range before does): `SweepIsExact` and
`LookupIsContainment`; `Clean`: `StrictBuildsAreClean`; `Stamped`, that the targets of the
source at hand carry its epoch: `EdgesAreDistinct`; `StampedOnly`, the converse, which is
`StampsLoseNothing`, for dumps of at most `MaxId` objects: with one more the last epoch is 0
and the claim is false, which is finding 2; and `Linked`, `Counted`,
`StackRooted`, `GlobalRooted`, `Summed`, which say of the words, roots and sizes handled so
far what `ReturnedIsComplete` says of all: `ReturnsAreComplete`. The counters are compared with sums
of lengths and sizes over the whole dump, for which the lemmas on folds are there.
`GraphAssumption` is that numbers are unsigned words.

The same module, for the same package, proves `Reach` (whose names are chosen to go with those of
`ObjectGraph`). `WalkInv` adds to `VisitedOnce` and the types that the queue is the visited
set in order, that the roots and children handled so far are in it, and that whatever is in
it belongs to every closed set around the roots. At the end the first part gives closure and
the last gives leastness: `ReachableIsExact`. Termination is model-checked.

**`EndpointsProofs`.** `IInv` is `TypeOK`, `OwnerInv` (the gate's owner is exactly the request
between admission and release), `FilesInv` (at which stages a handler may have a directory or
an open dump, which is what `ScratchGuarded` reads off `scratch` and `files` alone),
`ReplyInv` (what was sent and with which header at each stage: without it a handler that
unwinds could be anywhere in its tar) and `OptionInv` (the shared cooldown is that of the
options). `OwnEntries` says first, over all actions at once, how one request's step may change
its entries of each variable and that it changes no other's; the rest is pointwise. Theorems:
`TypeCorrect`, `ScratchStaysGuarded`, `RepliesAreHonest`, `CooldownsHold`.

**`PathSearchProofs`.** `IInv` adds to the types that what was seen is reachable and each
predecessor is seen, has an edge to its successor and names the same root (`SeenInv`); that
what hangs on the roots and objects already handled was seen, unless the limit kept it out
(`DoneInv`); that the limit is only noted with that many objects seen and a reachable one
missing (`LimitInv`); that no object handled was the target (`LoopInv`); and that the part of
the witness traced so far leads from the next object to the target (`TraceInv`). When the
queue is exhausted without a limit, `DoneInv` makes the seen set closed, hence all that is
reachable, and the target is not in it; with a limit, `LimitInv` makes the seen set a proper
part of the reachable one, which counts more: `AbsenceIsReal`. `NearInv` says that the queue is
in the order of the distance from the roots, holds at most two distances from its head on, and
that an object is one reference further away than its predecessor; the limit changes none of
this, as nothing is queued after it struck. With `TraceInv`, which counts the distance
down along the witness, follows `WitnessIsShortest`.

`ExportsAreHonest` compares two searches over the same roots in different orders: `FindPath`,
which stops at its target, and the forest of `export_paths.go`, which has none. The forest is
taken for any list of roots. While it grows its queue is in the order of depth and, among equal
depths, of the root's place in that list (`Tree`), and every node comes at most one reference
after whatever is still to be scanned (`Ahead`). When all is scanned no path gets to an object
over fewer objects than its depth, nor over as many from an earlier root (`Closest`), and its
predecessors are a path of that depth (`Descent`). `OrderOfExport` shows that the list of an
export has each root once, sorted by goroutine id. So the depth of the target is the length of
the witness, by `WitnessIsShortest` one way and `Closest` the other, and the root is the first of
those as near (`FoundNode`); the stack shows the two ends of the path of predecessors and counts
what lies between. `DepthsAssumption` leaves out depth 1, which
`export_paths.go` refuses.

**`LabelsProofs`.** What is read is part of what is there: `HeapReadIsHeap` and
`BodyReadIsMemory` say that a read through any reader, of any dump, at any moment, yields at
most the process's bytes at that address, so that objects the dump lacks and files that
disappear can only make a read fail. `StringIsSpelled`, `LabelIsSpelled` and
`HeaderIsListed` carry this through the decoder. `IInv` is `Base` (types and stages) and, as
the properties are conditional on `TrueAddresses` and `TrueOffset`, `ResultInv` (each result is
true or says that it does not know; an unsupported runtime is reported of all goroutines or
of none), `WalkInv` (the labels read so far are those the part of the list read so far sets, a
later label of a key replacing an earlier) and `DiagInv`. From it follow `LabelsAreTrue` and,
as a goroutine reported without a failure carries exactly what was set, `LabelsAreNotLost`.
Its half on the list of label sets is `CountsEveryone`: what JSON shows is a function of the
labels and gives text back as it is (`TextIsShown`, `TextLooksLikeItself`), equal JSON shows equal
labels (`SameJson`), and the groups of goroutines with the same JSON, each named by its first
member, are a partition (`FirstOfGroup`, `OnesNamed`, `CountsNamed`), so that every goroutine with
labels is counted in one bubble and in no other (`BubblesAreTrue`).
`ProbesMissNothing` goes the other way: with all parts of a goroutine's labels in the dump each
read succeeds (`KeptRead`), so the decoder, a recursive function, walks the array to its end
(`KeptArrayRead`), and the true offset leads to a map with the wanted label.
`WorldsAssumption` is that the members of `Worlds` are processes and that the version table is
true of those it applies to: that the runtime keeps labels where the table says is a fact about
Go which this code can only rely on. `HostsAssumption` names the four platforms. TLC evaluates
both for the run's worlds.

**`TransferProofs`** has to show four things of tar streams before any of the system. What
`Scan` finds from a position on is a recursive function of the position (`ReadingStep`), and
a piece of a stream that reads without an error has the first members of the stream, and all
that the stream has if it ends in both zero blocks (`ReadingOfPrefix`). An archive of `Write` is then read from its end
backwards: `DumpAndMarker` says how the dump and the two zero blocks read, whatever stands
before them, and `PrependOne` adds one member in front of an archive that reads to its last unit
with the dump as its last member (`SoundFrom`); so whole archives do (`WriteIsArchive`,
`CapturedIsArchive`, for every set of ranges that were readable), and the members read are
those written, contents included (`Pieces`). `OpenWithOptions` goes forward through the members,
and has a dump only after it met the member of that name (`DumpIsAMember`). Hence `CutsHold`: a proper piece ends before the second zero block, so it
does not validate, and one that opens has read the dump, hence every member.

`IInv` is `TargetInv` (which points of the endpoint and of the fetch go together), `SentInv`
(what was sent is a row of whole chunks of a capture's archive while the endpoint is
sending, a piece of it once it stopped, or some other server's archive), `FetchInv` (what is staged is
a piece of what was sent, all of it from `staged` on, and valid from `validated` on; a result of
`ok` has its archive in place) and `AnalysisInv` (the extracted dump exists exactly while it is
used; the file analysed is a capture's, or another server's that was validated). Alone, none of the four is preserved: that `SentInv`
survives a fetch's exit is due to `TargetInv`, that what is renamed was offered needs
`SentInv` and the theorem on pieces. `CutsAreNoticed` and `TransferImplementsPromise` follow,
the latter also from `OpenLeavesNothing`: whatever the archive and whichever step fails, a
refused `Open` leaves no temporary file.

`SegmentsAreMemory` is about what is in an archive (`Truthful`): a segment holds the memory at
the address its index gives, and under metadata without a warning the index leaves out nothing
that can be read throughout the capture. A capture's archive is (`OwnIsTruthful`): a collection that
ended without a warning has every range that is not empty (`CollectAllHolds`), and since segments have
names of their own (`NamesApart`), the one of an index entry's name is the one it was written for
(`MemoryPiece`). What is opened may be only a piece of it; `CutsHold` makes it the whole. And
`OpenWithOptions` finds contents by name, not by place (`TakeAllKeeps`,
`OpenReadsBack`). The first attempt failed for a good reason: the model passed over the warning
about a range that cannot be probed (`capture.go:182`), and without that warning the claim is false.

All three theorems suppose `HonestServers`: an archive of another
server that validates is what that server means to send; the last also `TruthfulServers`, that it
is `Truthful`. The code cannot know better, as a
stream carries no length and no checksum of the whole, and `fetch` does not see the target's memory; TLC
evaluates both for the run's servers. `TransferAssumption` and `CaptureAssumption` are types of the
constants, a chunk size that is positive, and that segments have names of their own;
`BundleAssumption`, that these are apart from the other members' (`segmentMemberName`, `format.go:35`).

**`DumpParserProofs`** proves all six properties of the parser, for dumps of any length, cut
anywhere, and every width, limit and option. It is in three layers.

The codec. What the runtime writes of a value reads back as that value, from wherever it stands in
the stream (integers by induction over their groups, with `Capacity` bounding what can follow; field
lists by induction over their length), and a stream cut inside it gives an error and no
value. Records are rows of values, so each reads back, or is cut (`RecordReads` and its
kin), and the place of record n + 1 is where the parser stands after n of them (`Start`,
`AlignedAt`). This is why a cut can never be taken for another record.

The snapshot. `IInv` says that while records are read, the snapshot is the one of the first n
of them for some n at whose end the reader stands. That has five parts, because each kind of record
reads what another left: `ParamsKnown` (the parameters at hand are those last written, without
which no pointer is known to be read at its width and order), `Section` (`curG` is the
goroutine of the section at hand, or none), `Accepted` (under `Strict` the records so far are
sound and nothing was warned about), `Collected` (each list and each map holds what those records
say) and `Refd` (the references of the lazy resolver are those of the objects with contents, each at
the place in the file where its cells stand). `RecordStep` takes each through one record, one lemma
per collection. `Result` says the same of what is returned, with the references in order of
address, and `Excused` that a failure has a cut, a missing end or a fault of the writer for it.

What follows. `WholeAccepted` is `Excused` turned around. `TruncationFails`: a parse returns only
after a record that ends it (`Ended`), which the cut would have had to leave whole. `SnapshotIsWritten`,
`FramesAtHome` and `RootsAreHeld` read `Collected` off at the end. The first compares the whole snapshot
with one computed from the records alone (`ObjectAt`, `SegmentAt`, `GoroutineAt`, `RootsAt`, ...), so it
needs that the pointers extracted are the words at the sound fields that are not nil, and where
they stand (`Places`), and that the roots of all records so far, joined, are those of each in turn
(`RootsJoined`); the last needs that slots and targets are filtered alike (`Extract`). `ReadsAreHeld` is about the search of the
resolver by address: sorted references (`Finish` sorts them, and a sort is any order that is
sorted) in which objects that overlap or share an address are refused or read from the one that
is found; both what is granted is true, and what one object alone holds is granted.

`ReaderAssumption` and `ParserAssumption` are that the widths and limits are positive numbers, that
the last cell holds at least a bit and no more than any other, and that the header line is
shorter than its limit. `DumpsAssumption` says that dumps are well-formed: values a writer can
encode. No theorem supposes a *sound* dump: the properties name `Sound` and `Faulty` where they need it.

Induction. The library's induction theorems take an operator as a parameter and cannot be
used with the installed provers. Where an invariant needs induction over data (a fold over a
sequence, a distance, a table), the proof modules state it over a set: `SetInduction`, a set of
numbers with 0 and all successors is all of them. A recursive function is first shown to exist,
by the same induction, and then used through its equation. `SelectSeq` and `SortSeq`, which the provers do
not expand, are out of reach: the parser numbers what it selects (`Numbers`) and takes any sorted
order (`SortedOrders`) instead, and a session's lists are sorted by `Sorted`.

Only model-checked: all liveness (`GateRecovers`, `CapturesHappen`, `GateReturned`, `Answered`,
`Terminates`, `FetchEnds`), since liveness under fairness and `ENABLED` are out of the prover's reach.
Every other property of a passing run is a theorem.

## 8. Findings

1. **`gate_busy`.** `Acquire` takes the channel before it looks at the cooldown
   (`gate.go:40-51`), so a request that comes while another is only being *refused* for
   cooldown is told `busy`, without `Retry-After`, though nothing is captured.
   `docs/capture-reliability.md:44-46` says that during cooldown requests return `cooldown`.
2. **`epoch_wrap`.** With 2^32 objects the last object's epoch is 0, the value of a target
   that was never stamped, so its edges to such targets are dropped. The comment at
   `build.go:163-166` says that only duplicates are kept and reachability is unaffected.
3. **`exact_bubbles`.** `ListBubbles` groups goroutines by `json.Marshal` of their labels
   (`bubbles.go:81-91`), which writes `\ufffd` for every byte that is no UTF-8. Label sets that
   differ in such bytes become one bubble: the labels of the first goroutine with the count of all.
   `bubbles.go:15` says that a bubble is "one exact pprof label set and the number of goroutines
   carrying it". `NobodySilentlyUnlabelled` shows what remains true: nobody vanishes from the list,
   and label sets that are text are exact.

A divergence without a run of its own: `docs/algorithm.md:64` says that *any* label-decode failure
makes the match set non-authoritative. The code ignores failures of excluded system goroutines
(`compute.go:313-320`), and `Authoritative` shows that this is sound: the documentation is
stricter than the code needs to be.

## 9. What is not modelled

- The content of profiles and of type names; JSON is a record, not characters.
- HTTP status codes beyond the distinctions the properties need.
- In the builder: slot offsets and the optional reachability pass used by tests.
- In the session: root details, allocation samples and their filters, size limits on labels,
  an unsupported runtime (refused before anything else is looked at), and diagnostics
  without goroutine ids (every failure then counts). Goroutine ids are taken as unique. `measure`'s
  overflow error cannot occur, because the builder refuses a dump whose objects' total
  overflows (`build.go:393`, checked by `ReturnedIsComplete`).
- In explanations and exports: the slots along a witness and the encoding of the pprof file;
  the limit of a search within `Explain` (PathSearch has it).
- In the parser: the texts of warnings and the payload of profile records.
- In the bundle and the download: `bundleURL`, query parameters, progress, the checksums of
  profiles, `saveDownload` (only tests call it), a name collision of temporary files, and
  power failure: the code does not `fsync`, so a rename may be lost with the power, which
  nothing here promises. A killed fetch leaves its staging file, and a killed target its
  directory; no code removes either at the next start.
- In the address spaces: parsing `/proc/self/maps` and the executables' headers, and the
  computation of the slide. Without procfs the FreeBSD reader serves an executable's static
  addresses; `README.md:377` says this needs a non-PIE executable, so `DecodedIsWritten` is
  stated for those (`TrueAddresses`).
- `Diff` of the offline package compares two finished summaries and keeps no state; flag
  parsing, output formatting, examples and benchmarks have none whose order of change matters.
