------------------------------ MODULE Transfer ------------------------------
(***************************************************************************)
(* One bundle from the target's memory to an analysis: the endpoint that   *)
(* streams it (bundle/handler.go, capture.go, write.go), the connection,   *)
(* `bubblepprof fetch' that stages, validates and places it (cli/fetch.go, *)
(* download.go), and the session that opens it (offline/snapshot.go,       *)
(* bundle/read.go).  Memory may be unmapped, the connection cut and the    *)
(* fetch killed at any step; other servers may send any archive.           *)
(***************************************************************************)
EXTENDS BundleCapture

CONSTANTS Options,     \* the endpoint's options: [budget, reader, profiles, max]
          Foreign,     \* what other servers send: [stream, whole]
          Fragile,     \* addresses the program may unmap
          Holes,       \* sets of addresses that cannot be read from the start
          DumpUnits,   \* the heap dump
          Modes,       \* how fetch is run: [stdout, max], -max-bytes in units, 0 for none
          ReadLimits,  \* the values of ReaderOptions
          MaxFetches,  \* bound: how often fetch is run
          Nothing

ASSUME TransferAssumption ==
  /\ MaxFetches \in Nat
  /\ \A o \in Options : /\ o.budget \in Nat /\ o.profiles \in Seq(ProfileKinds)
                        /\ o.reader \in {"disabled", "missing", "open"}
  /\ \A f \in Foreign :
       /\ f.stream \in Seq(Range(f.stream)) /\ f.whole \in BOOLEAN
       /\ \A unit \in Range(f.stream) : unit.k = "head" => unit.v.size \in Nat
  /\ DumpUnits \in Seq([k : {"dump"}, v : Nat])
  /\ \A m \in Modes : m.stdout \in BOOLEAN /\ m.max \in Nat

VARIABLES
  target,   \* the endpoint: "idle", "capturing", "sending", "over"
  queue,    \* the chunks still to be written
  limit,    \* the artifact limit of this capture
  present,  \* the addresses that can be read
  status,   \* the response's status: "none", "ok", "error"
  sent,     \* the body so far
  net,      \* how the body ends for the client: "open", "end", "cut"
  offered   \* history: the whole archive this server sends, if any

targetVars == <<target, queue, limit, present, status, sent, net, offered>>

VARIABLES
  pc,       \* the fetch: "idle", "waiting", "copying", "probing", "staged",
            \* "validated", "leaving", "over"
  toStdout, maxBytes, fetches,
  spool,    \* the contents of the staging file
  staging,  \* the staging file of the living fetch exists
  dest, stdout,
  result    \* "none", "ok", "failed", "killed"

fetchVars == <<pc, toStdout, maxBytes, fetches, spool, staging, dest, stdout, result>>

VARIABLES
  analysis, \* "idle", "opened"
  bundle,   \* what Open returned
  dumpFile  \* the extracted dump exists

analysisVars == <<analysis, bundle, dumpFile>>

vars == <<targetVars, fetchVars, analysisVars>>

AllAddresses == UNION {Addresses(Mappings[i]) : i \in DOMAIN Mappings}

Init ==
  /\ target = "idle" /\ queue = <<>> /\ limit = 0 /\ status = "none" /\ sent = <<>>
  /\ net = "open" /\ offered = {}
  /\ \E hole \in Holes : present = AllAddresses \ hole
  /\ pc = "idle" /\ toStdout = FALSE /\ maxBytes = 0 /\ fetches = 0
  /\ spool = <<>> /\ staging = FALSE /\ dest = Nothing /\ stdout = <<>> /\ result = "none"
  /\ analysis = "idle" /\ bundle = Nothing /\ dumpFile = FALSE
-----------------------------------------------------------------------------
(* The endpoint.                                                            *)

\* CaptureSelf fails before its first byte: a JSON error is sent.
CaptureFails ==
  /\ target = "capturing"
  /\ target' = "over" /\ status' = "error" /\ net' = "end"
  /\ UNCHANGED <<queue, limit, present, sent, offered, fetchVars, analysisVars>>

\* The dump and the profiles are there and the ranges have been probed.
PlanBundle ==
  /\ target = "capturing"
  /\ \E o \in Options :
       LET chunks == Write(Collected(present, o.budget, o.reader), o.profiles, DumpUnits)
       IN queue' = chunks /\ offered' = {FlattenSeq(chunks)} /\ limit' = o.max
  /\ target' = "sending"
  /\ UNCHANGED <<present, status, sent, net, fetchVars, analysisVars>>

CanSend == ChunkReadable(present, Head(queue)) /\ WithinArtifact(sent, Head(queue), limit)

\* Bound: the network holds one chunk that the fetch has not read yet.
Window == sent = spool \/ (maxBytes > 0 /\ Len(sent) >= maxBytes)

\* The first byte sends the headers; after the last the handler returns.
SendChunk ==
  /\ target = "sending" /\ net = "open" /\ Window /\ CanSend
  /\ sent' = sent \o Head(queue) /\ queue' = Tail(queue) /\ status' = "ok"
  /\ IF Tail(queue) = <<>> THEN target' = "over" /\ net' = "end" ELSE UNCHANGED <<target, net>>
  /\ UNCHANGED <<limit, present, offered, fetchVars, analysisVars>>

\* A failed Write: a JSON error before the first byte, after it the connection
\* is aborted, which a client without a length or chunks sees as the end.
SendFails ==
  /\ target = "sending" /\ net = "open" /\ Window /\ ~ CanSend
  /\ target' = "over" /\ queue' = <<>>
  /\ IF sent = <<>> THEN status' = "error" /\ net' = "end"
     ELSE net' \in {"cut", "end"} /\ UNCHANGED status
  /\ UNCHANGED <<limit, present, sent, offered, fetchVars, analysisVars>>

\* The program unmaps what it no longer needs.
Unmap ==
  /\ target = "sending" /\ Fragile \cap present # {}
  /\ present' = present \ Fragile
  /\ UNCHANGED <<target, queue, limit, status, sent, net, offered, fetchVars, analysisVars>>

\* The connection breaks, or a proxy ends it.
Disconnect ==
  /\ net = "open" /\ target \in {"capturing", "sending"}
  /\ target' = "over" /\ queue' = <<>> /\ net' \in {"cut", "end"}
  /\ sent = <<>> => net' = "cut"
  /\ UNCHANGED <<limit, present, status, sent, offered, fetchVars, analysisVars>>
-----------------------------------------------------------------------------
(* bubblepprof fetch.                                                       *)

\* A request is sent, to the endpoint or to another server.
Fetch ==
  /\ pc \in {"idle", "over"} /\ fetches < MaxFetches
  /\ pc' = "waiting"
  /\ \E m \in Modes : toStdout' = m.stdout /\ maxBytes' = m.max
  /\ fetches' = fetches + 1 /\ stdout' = <<>> /\ result' = "none"
  /\ \/ target' = "capturing" /\ UNCHANGED <<status, sent, net, offered>>
     \/ \E f \in Foreign :
          /\ target' = "over" /\ status' = "ok" /\ sent' = f.stream /\ net' = "end"
          /\ offered' = IF f.whole THEN {f.stream} ELSE {}
  /\ UNCHANGED <<queue, limit, present, spool, staging, dest, analysisVars>>

\* The process is gone and with it its connection; a target still writing
\* fails unseen.
Exit(how) ==
  /\ pc' = "over" /\ result' = how
  /\ target' = "idle" /\ queue' = <<>> /\ limit' = 0 /\ status' = "none" /\ sent' = <<>>
  /\ net' = "open" /\ offered' = {} /\ spool' = <<>> /\ toStdout' = FALSE /\ maxBytes' = 0
  /\ UNCHANGED <<present, fetches>>

\* stageDownload's fail, or runFetch returning before it.
FailFetch == Exit("failed") /\ staging' = FALSE /\ UNCHANGED <<dest, stdout>>

\* An error status, or a request that failed.
TurnedDown ==
  /\ pc = "waiting" /\ (status = "error" \/ (status = "none" /\ net = "cut"))
  /\ FailFetch /\ UNCHANGED analysisVars

\* Slip: a timeout of the response's headers.
WaitingForHeaders == pc = "waiting"

\* The total timeout of the request, also while the body is read.
Waiting == pc \in {"waiting", "copying", "probing"}

Timeout ==
  /\ Waiting
  /\ FailFetch /\ UNCHANGED analysisVars

\* os.CreateTemp, in the destination's directory.
CreateTemp ==
  /\ pc = "waiting" /\ status = "ok"
  /\ \/ FailFetch
     \/ /\ pc' = "copying" /\ staging' = TRUE
        /\ UNCHANGED <<toStdout, maxBytes, fetches, spool, dest, stdout, result, targetVars>>
  /\ UNCHANGED analysisVars

Full == maxBytes > 0 /\ Len(spool) = maxBytes

\* io.Copy takes what has arrived, up to the limit; a write may fail.
Copy ==
  /\ pc = "copying" /\ ~ Full /\ Len(spool) < Len(sent)
  /\ \/ FailFetch
     \/ /\ spool' = IF maxBytes = 0 \/ Len(sent) <= maxBytes THEN sent
                    ELSE SubSeq(sent, 1, maxBytes)
        /\ UNCHANGED <<pc, toStdout, maxBytes, fetches, staging, dest, stdout, result,
                       targetVars>>
  /\ UNCHANGED analysisVars

Step(from, to) ==
  /\ pc = from /\ pc' = to
  /\ UNCHANGED <<toStdout, maxBytes, fetches, spool, staging, dest, stdout, result, targetVars>>

\* The body ends, properly or with an error, or the limit is reached.
EndCopy ==
  /\ pc = "copying"
  /\ \/ Full /\ Step("copying", "probing")
     \/ ~ Full /\ spool = sent /\ net = "end" /\ Step("copying", "staged")
     \/ ~ Full /\ spool = sent /\ net = "cut" /\ FailFetch
  /\ UNCHANGED analysisVars

\* At exactly the limit, one more byte is asked for.
Probe ==
  /\ pc = "probing"
  /\ \/ Len(sent) > maxBytes /\ FailFetch
     \/ Len(sent) = maxBytes /\ net = "end" /\ Step("probing", "staged")
     \/ Len(sent) = maxBytes /\ net = "cut" /\ FailFetch
  /\ UNCHANGED analysisVars

\* ValidateArchive, between two Seeks, each of which may fail too.
Validate ==
  /\ pc = "staged"
  /\ \/ ValidateArchive(spool) /\ Step("staged", "validated")
     \/ FailFetch
  /\ UNCHANGED analysisVars

\* Close and Rename, each of which may fail; the deferred Remove follows.
Rename ==
  /\ pc = "validated" /\ ~ toStdout
  /\ \/ /\ dest' = spool /\ staging' = FALSE /\ result' = "ok"
        /\ UNCHANGED <<toStdout, maxBytes, fetches, spool, stdout>>
     \/ /\ result' = "failed"
        /\ UNCHANGED <<toStdout, maxBytes, fetches, spool, staging, dest, stdout>>
  /\ pc' = "leaving"
  /\ UNCHANGED <<targetVars, analysisVars>>

\* The copy to standard output, which may break off.
Display ==
  /\ pc = "validated" /\ toStdout
  /\ \/ stdout' = spool /\ result' = "ok"
     \/ stdout' = SubSeq(spool, 1, Len(spool) \div 2) /\ result' = "failed"
  /\ pc' = "leaving"
  /\ UNCHANGED <<toStdout, maxBytes, fetches, spool, staging, dest, targetVars, analysisVars>>

Leave ==
  /\ pc = "leaving"
  /\ Exit(result) /\ staging' = FALSE
  /\ UNCHANGED <<dest, stdout, analysisVars>>

\* The process is killed. `staging' is the file of the living fetch: a killed one
\* leaves its file under a random name that no code opens again.
Kill ==
  /\ pc \notin {"idle", "over"}
  /\ Exit("killed") /\ staging' = FALSE
  /\ UNCHANGED <<dest, stdout, analysisVars>>
-----------------------------------------------------------------------------
(* OpenSnapshot.                                                            *)

\* The file is read through the descriptor it was opened with, so a fetch
\* running meanwhile makes no difference.
OpenBundle ==
  /\ analysis = "idle" /\ dest # Nothing /\ pc \in {"idle", "over"}
  /\ \E limits \in ReadLimits, broken \in {"none", "create", "copy"} :
       LET b == Open(dest, limits, broken)
       IN /\ dumpFile' = b.temp
          /\ IF b.ok THEN analysis' = "opened" /\ bundle' = b
             ELSE UNCHANGED <<analysis, bundle>>
  /\ UNCHANGED <<targetVars, fetchVars>>

\* LoadBundle builds the session or fails; the deferred Bundle.Close follows
\* either way.
LoadBundle ==
  /\ analysis = "opened"
  /\ analysis' = "idle" /\ bundle' = Nothing /\ dumpFile' = FALSE
  /\ UNCHANGED <<targetVars, fetchVars>>
-----------------------------------------------------------------------------
TargetStep == CaptureFails \/ PlanBundle \/ SendChunk \/ SendFails \/ Unmap \/ Disconnect
FetchStep ==
  \/ TurnedDown \/ Timeout \/ CreateTemp \/ Copy \/ EndCopy \/ Probe \/ Validate \/ Rename
  \/ Display \/ Leave
AnalysisStep == OpenBundle \/ LoadBundle

Next == TargetStep \/ Fetch \/ FetchStep \/ Kill \/ AnalysisStep

\* The fetch keeps running and its timer fires; the target and the network
\* owe nothing.
Spec == Init /\ [][Next]_vars /\ WF_vars(FetchStep)
-----------------------------------------------------------------------------
(* Properties.                                                              *)

AtWork == (IF pc \in {"idle", "over"} THEN {} ELSE {"fetch"})
            \cup (IF analysis = "idle" THEN {} ELSE {"analysis"})
TempFiles == (IF staging THEN {"staging"} ELSE {}) \cup (IF dumpFile THEN {"dump"} ELSE {})
Reported == IF pc = "over" THEN result ELSE "none"

Promised == INSTANCE TransferPromise WITH
  users <- AtWork, files <- TempFiles, result <- Reported

\* The destination of a fetch is replaced in one step and only by an archive
\* its server sent whole, success is reported only for such an archive, and no
\* staging file or extracted dump is left by whoever was not killed, whichever
\* step of staging, placing or opening failed.
KeepsPromise == Promised!Spec

\* What this endpoint may send, chunk by chunk: planned before or after the
\* program unmapped a part of what could be read.
Readable == {AllAddresses \ hole : hole \in Holes}
              \cup {(AllAddresses \ hole) \ Fragile : hole \in Holes}
Captured ==
  {Write(Collected(P, o.budget, o.reader), o.profiles, DumpUnits) : P \in Readable, o \in Options}
OwnArchives == {FlattenSeq(chunks) : chunks \in Captured}

\* The parts of the inductive invariant of TransferProofs: where the endpoint
\* is while a fetch talks to it,
TargetInv ==
  /\ target \in {"idle", "capturing", "sending", "over"} /\ present \in Readable
  /\ target = "idle" <=> pc \in {"idle", "over"}
  /\ target = "idle" => offered = {} /\ status = "none"
  /\ target = "capturing" => pc = "waiting" /\ status = "none"
  /\ target \in {"idle", "capturing", "sending"} => net = "open"

\* what has been sent: a piece of this server's archive, or all of another's,
Underway ==
  \E chunks \in Captured : \E n \in 0 .. Len(chunks) - 1 :
    /\ offered = {FlattenSeq(chunks)}
    /\ sent = FlattenSeq(SubSeq(chunks, 1, n))
    /\ queue = SubSeq(chunks, n + 1, Len(chunks))
OwnPiece ==
  \E archive \in OwnArchives : \E n \in 0 .. Len(archive) :
    offered = {archive} /\ sent = SubSeq(archive, 1, n)
OthersStream ==
  \E f \in Foreign : sent = f.stream /\ offered = (IF f.whole THEN {f.stream} ELSE {})
SentInv ==
  /\ target \in {"idle", "capturing"} => sent = <<>>
  /\ target = "sending" => Underway
  /\ target = "over" => sent = <<>> \/ OwnPiece \/ OthersStream

\* what the fetch has of it,
FetchInv ==
  /\ pc \in {"idle", "waiting", "copying", "probing", "staged", "validated", "leaving", "over"}
  /\ maxBytes \in Nat /\ staging \in BOOLEAN
  /\ pc \in {"waiting", "idle", "over"} => ~ staging /\ spool = <<>>
  /\ pc \notin {"leaving", "idle", "over"} => stdout = <<>>
  /\ pc \in {"copying", "probing"} => \E n \in 0 .. Len(sent) : spool = SubSeq(sent, 1, n)
  /\ pc = "probing" => Len(spool) = maxBytes
  /\ pc \in {"staged", "validated"} => target = "over" /\ spool = sent
  /\ pc = "validated" => ValidateArchive(spool)
  /\ pc = "leaving" => /\ target = "over" /\ result \in {"ok", "failed"}
                       /\ result = "ok" => dest \in offered \/ stdout \in offered

\* and that the file to be analysed is some server's, and that whoever
\* analyses it has its dump, and nobody else.
AnalysisInv ==
  /\ \/ dest = Nothing \/ dest \in OwnArchives
     \/ \E f \in Foreign : dest = f.stream /\ ValidateArchive(f.stream)
  /\ analysis \in {"idle", "opened"} /\ dumpFile \in BOOLEAN
  /\ analysis = "opened" <=> dumpFile

IInv == TargetInv /\ SentInv /\ FetchInv /\ AnalysisInv

\* A hypothesis of its theorems: ValidateArchive sees no more of another
\* server's archive than the stream, so one that validates has to be meant as it is.
HonestServers == \A f \in Foreign : ValidateArchive(f.stream) => f.whole

\* Wherever the stream of a capture breaks off, also between two members or
\* between the two blocks of the end marker, the piece that arrived does not
\* validate, and if an analysis opens it all the same it finds in it all that
\* the whole bundle holds.
CutsNeverOpen ==
  \A archive \in offered \cap OwnArchives :
    pc = "copying" /\ spool \notin {<<>>, archive} /\ IsPrefix(spool, archive) =>
    /\ ~ ValidateArchive(spool)
    /\ \A limits \in ReadLimits :
         LET part == Open(spool, limits, "none")
         IN part.ok => part = Open(archive, limits, "none")

\* The addresses that can be read throughout a capture.
Lasting == {a \in AllAddresses : CanRead(AllAddresses \ (Fragile \cup UNION Holes), a, 1)}

\* Among these members: a segment of the size its index gives holds the memory
\* at the address its index gives, and under metadata without a warning an index
\* leaves nothing out that can be read throughout the capture.
Truthful(members) ==
  \A x \in members : x.name = SegmentsMember /\ DecodesAs("index", x.body) =>
    LET infos == x.body[1].v
    IN /\ \A i \in DOMAIN infos :
            /\ infos[i].addr \in Nat /\ infos[i].size \in Nat
            /\ \A m \in members :
                 m.name = infos[i].member /\ Len(m.body) = infos[i].size
                   => m.body = MemoryAt(infos[i].addr, infos[i].size)
       /\ \A y \in members :
            /\ y.name = MetaMember /\ DecodesAs("meta", y.body) /\ ~ Partial(y.body[1].v)
            /\ infos # <<>>
            => \A a \in Lasting : \E i \in DOMAIN infos :
                 infos[i].addr <= a /\ a < infos[i].addr + infos[i].size

\* A hypothesis of the theorem about the next property: what the archives of
\* other servers that validate say of memory is true.
TruthfulServers ==
  \A f \in Foreign : ValidateArchive(f.stream) => Truthful(Range(Scan(f.stream).members))

ReadsBack(b) ==
  /\ \A addr, size \in 0 .. TopAddr :
       LET read == SegmentRead(b.segments, addr, size)
       IN read.ok => read.units = MemoryAt(addr, size)
  /\ ~ b.warned => \A addr \in Lasting : SegmentRead(b.segments, addr, 1).ok

\* What a session reads from the segments of an opened bundle is what the
\* target's memory held at that address, whatever the order of the members, and
\* a bundle that carries no warning about its read-only memory misses none that
\* could be read throughout the capture.
SegmentsReadBack == bundle # Nothing => ReadsBack(bundle)

\* A fetch ends although neither the target nor the network ever does: its
\* timer covers the whole body.
FetchEnds == (pc \notin {"idle", "over"}) ~> (pc = "over")
=============================================================================
