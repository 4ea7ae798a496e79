------------------------------ MODULE Endpoints ------------------------------
(***************************************************************************)
(* The two HTTP handlers Register installs, POST /debug/memusage           *)
(* (internal/memusage/handler.go, capture.go) and GET                      *)
(* /debug/memusage/bundle (internal/bundle/handler.go, capture.go), each   *)
(* around internal/capture/capture.go, on their one shared gate.           *)
(*                                                                         *)
(* The gate is used through its specification SingleFlight, which module   *)
(* Gate is proved to implement. What one request does with its own dump    *)
(* between two checks of its context is one step; requests interleave, and *)
(* a client may leave (cancelling the context) at any moment. Failures of  *)
(* the file system, the runtime and the analysis are nondeterministic.     *)
(***************************************************************************)
EXTENDS Integers

CONSTANTS
  Requests, NoRequest, Cooldowns,    \* as in SingleFlight
  Kind,     \* which endpoint each goroutine's requests go to
  Chunks    \* writes that make a complete tar: members and the end marker

Kinds == {"memusage", "bundle"}

ASSUME NoRequestAssumption == NoRequest \notin Requests
ASSUME CooldownsAssumption == Cooldowns \subseteq Int
ASSUME KindAssumption == Kind \in [Requests -> Kinds]
ASSUME ChunksAssumption == Chunks \in Nat \ {0}

VARIABLES
  cooldown, owner, rest,   \* the gate, see SingleFlight
  configured,  \* CaptureCooldown of each endpoint's options
  limit,       \* MaxArtifactBytes in chunks; 0 is unlimited
  at,          \* what the handler of each request is about to do
  connected,   \* requests whose context is not cancelled
  scratch,     \* requests whose temporary directory exists
  files,       \* open dump files: <<request, "writer" or "reader">>
  result,      \* what compute or capture returned to the handler
  header,      \* the response header sent, if any
  sent,        \* tar chunks handed to the connection
  body         \* how the response body ends

gateVars == <<cooldown, owner, rest>>
optionVars == <<configured, limit>>
fileVars == <<scratch, files>>
replyVars == <<header, sent, body>>
vars == <<gateVars, optionVars, at, connected, fileVars, result, replyVars>>

Flight == INSTANCE SingleFlight

\* In capture.Capture.
CaptureStages == {"begin", "made", "prepared", "dumped"}
\* Back in Compute or CaptureSelf, which defer the cleanup.
UseStages == {"captured", "opened"}
HolderStages == CaptureStages \cup UseStages \cup {"unwound", "release"}
Stages == HolderStages \cup {"ready", "acquire", "return"}

Set(f, r, v) == f' = [f EXCEPT ![r] = v]
Goto(r, from, to) == at[r] = from /\ Set(at, r, to)

(* Slips: one plausible mistake each; no specification uses them.           *)

\* Only one endpoint's option reaches the gate.
SharedCooldownOfOne(c) == c["memusage"]

\* RegisterWithOptions: the larger cooldown; a negative one invalidates both.
SharedCooldown(c) ==
  IF \E k \in Kinds : c[k] < 0 THEN -1
  ELSE CHOOSE m \in {c[k] : k \in Kinds} : \A k \in Kinds : c[k] <= m

Init ==
  /\ configured \in [Kinds -> Cooldowns]
  /\ limit \in 0 .. Chunks
  /\ Flight!Init
  /\ cooldown = SharedCooldown(configured)
  /\ at = [r \in Requests |-> "ready"]
  /\ connected = {}
  /\ scratch = {}
  /\ files = {}
  /\ result = [r \in Requests |-> "none"]
  /\ header = [r \in Requests |-> "none"]
  /\ sent = [r \in Requests |-> 0]
  /\ body = [r \in Requests |-> "none"]
-----------------------------------------------------------------------------
(* The client *)

\* A new request on this goroutine; nothing is left of the one before.
Arrive(r) ==
  /\ Goto(r, "ready", "acquire")
  /\ connected' = connected \cup {r}
  /\ Set(result, r, "none")
  /\ Set(header, r, "none")
  /\ Set(sent, r, 0)
  /\ Set(body, r, "open")
  /\ UNCHANGED <<gateVars, optionVars, fileVars>>

Disconnect(r) ==
  /\ at[r] # "ready"
  /\ r \in connected
  /\ connected' = connected \ {r}
  /\ UNCHANGED <<gateVars, optionVars, at, fileVars, result, replyVars>>
-----------------------------------------------------------------------------
(* Before the capture *)

\* 405 or 400: method, gc parameter, body or validation. The gate is not
\* touched.
Reject(r) ==
  /\ Goto(r, "acquire", "return")
  /\ Set(header, r, "error")
  /\ UNCHANGED <<gateVars, optionVars, connected, fileVars, result, sent, body>>

\* 500 for a negative cooldown; 429 busy while another request is inside the
\* gate, be it only to look at the cooldown or to finish its release; 429
\* cooldown, which ends on the gate's own clock: SingleFlight does not
\* promise to admit a request as soon as it may.
Refuse(r) ==
  /\ \/ cooldown # 0
     \/ \E s \in Requests \ {r} : at[s] # "ready"
  /\ Goto(r, "acquire", "return")
  /\ Set(header, r, "error")
  /\ UNCHANGED <<gateVars, optionVars, connected, fileVars, result, sent, body>>

\* gate.Acquire succeeds and release is deferred.
Admit(r) ==
  /\ Flight!Start(r)
  /\ Goto(r, "acquire", "begin")
  /\ UNCHANGED <<optionVars, connected, fileVars, result, replyVars>>
-----------------------------------------------------------------------------
(* capture.Capture *)

\* ctx.Err, then MkdirTemp.
MakeScratch(r) ==
  /\ r \in connected
  /\ Goto(r, "begin", "made")
  /\ scratch' = scratch \cup {r}
  /\ UNCHANGED <<gateVars, optionVars, connected, files, result, replyVars>>

\* CheckSpace, the optional GC, then ctx.Err again.
Prepare(r) ==
  /\ r \in connected
  /\ Goto(r, "made", "prepared")
  /\ UNCHANGED <<gateVars, optionVars, connected, fileVars, result, replyVars>>

\* CreateTemp and WriteHeapDump. The world is stopped while the runtime
\* writes, so nothing interleaves; a client that leaves now is not noticed.
Dump(r) ==
  /\ Goto(r, "prepared", "dumped")
  /\ files' = files \cup {<<r, "writer">>}
  /\ UNCHANGED <<gateVars, optionVars, connected, scratch, result, replyVars>>

\* Seek, Stat, ctx.Err, the size limit; cleanup passes to the caller.
HandOver(r) ==
  /\ r \in connected
  /\ Goto(r, "dumped", "captured")
  /\ UNCHANGED <<gateVars, optionVars, connected, fileVars, result, replyVars>>

\* Any of these steps fails: the file is closed and the deferred cleanup
\* removes the directory before Capture returns the error.
CaptureFails(r) ==
  /\ at[r] \in CaptureStages
  /\ Set(at, r, "unwound")
  /\ Set(result, r, "error")
  /\ scratch' = scratch \ {r}
  /\ files' = files \ {<<r, "writer">>}
  /\ UNCHANGED <<gateVars, optionVars, connected, replyVars>>
-----------------------------------------------------------------------------
(* Compute and CaptureSelf, after the capture *)

\* The deferred calls: the reader and the dump are closed, the directory is
\* removed, and the handler gets the result.
Unwind(r, outcome) ==
  /\ Set(at, r, "unwound")
  /\ Set(result, r, outcome)
  /\ scratch' = scratch \ {r}
  /\ files' = files \ {<<r, "writer">>, <<r, "reader">>}
  /\ UNCHANGED <<gateVars, optionVars, connected, sent, body>>

\* ctx.Err, and the dump is opened again by name for parsing or streaming.
OpenDump(r) ==
  /\ r \in connected
  /\ Goto(r, "captured", "opened")
  /\ files' = files \cup {<<r, "reader">>}
  /\ UNCHANGED <<gateVars, optionVars, connected, scratch, result, replyVars>>

\* analyzeDump: parse, decode, build and query, with ctx.Err at the end.
Analyze(r) ==
  /\ Kind[r] = "memusage"
  /\ at[r] = "opened"
  /\ r \in connected
  /\ Unwind(r, "ok") /\ UNCHANGED header

\* One write of bundle.Write reaches the connection. artifactWriter lets it
\* through only whole; the first one sends the tar header. The write does
\* not look at the context.
WriteChunk(r) ==
  /\ Kind[r] = "bundle"
  /\ at[r] = "opened"
  /\ sent[r] < Chunks
  /\ limit = 0 \/ sent[r] < limit
  /\ Set(sent, r, sent[r] + 1)
  /\ Set(header, r, "200 tar")
  /\ UNCHANGED <<gateVars, optionVars, at, connected, fileVars, result, body>>

\* The connection breaks under a write. The tar header counts as sent before
\* the first write is tried.
WriteBreaks(r) ==
  /\ Kind[r] = "bundle"
  /\ at[r] = "opened"
  /\ sent[r] < Chunks
  /\ limit = 0 \/ sent[r] < limit
  /\ Unwind(r, "error")
  /\ Set(header, r, "200 tar")

\* bundle.Write returned nil: every chunk was written.
Written(r) ==
  /\ Kind[r] = "bundle"
  /\ at[r] = "opened"
  /\ sent[r] = Chunks
  /\ Unwind(r, "ok") /\ UNCHANGED header

(* Slip *)
UseFailsLeavingScratch(r) ==
  /\ at[r] \in UseStages
  /\ sent[r] < Chunks
  /\ Set(at, r, "unwound")
  /\ Set(result, r, "error")
  /\ UNCHANGED <<gateVars, optionVars, connected, fileVars, replyVars>>

\* The dump cannot be opened, the context is cancelled, parsing or analysis
\* fails, a profile or a memory range cannot be read, the artifact limit is
\* hit.
UseFails(r) ==
  /\ at[r] \in UseStages
  /\ sent[r] < Chunks
  /\ Unwind(r, "error") /\ UNCHANGED header

\* A panic below the handler runs the same deferred calls.
Panic(r) ==
  /\ at[r] \in CaptureStages \cup UseStages
  /\ Unwind(r, "panic") /\ UNCHANGED header
-----------------------------------------------------------------------------
(* The end of the handler *)

(* Slips *)
ReplyQuietly(r) ==
  /\ Goto(r, "unwound", "release")
  /\ IF result[r] = "error" /\ header[r] = "none"
       THEN Set(header, r, "error")
       ELSE IF result[r] = "ok" /\ Kind[r] = "memusage"
              THEN Set(header, r, "200 json")
              ELSE UNCHANGED header
  /\ UNCHANGED <<gateVars, optionVars, connected, fileVars, result, sent, body>>

\* release is called last instead of deferred.
ReleaseUnlessPanic(r) ==
  /\ Goto(r, "release", "return")
  /\ IF result[r] = "panic" THEN UNCHANGED gateVars ELSE Flight!End(r)
  /\ UNCHANGED <<optionVars, connected, fileVars, result, replyVars>>

\* JSON for every outcome of memusage and for a bundle that failed before its
\* first byte; a bundle that failed later panics with ErrAbortHandler.
Reply(r) ==
  /\ Goto(r, "unwound", "release")
  /\ \/ /\ result[r] = "ok" /\ Kind[r] = "memusage"
        /\ Set(header, r, "200 json")
        /\ UNCHANGED result
     \/ /\ result[r] = "error" /\ header[r] = "none"
        /\ Set(header, r, "error")
        /\ UNCHANGED result
     \/ /\ result[r] = "error" /\ header[r] = "200 tar"
        /\ Set(result, r, "panic")
        /\ UNCHANGED header
     \/ /\ \/ result[r] = "panic"
           \/ result[r] = "ok" /\ Kind[r] = "bundle"
        /\ UNCHANGED <<header, result>>
  /\ UNCHANGED <<gateVars, optionVars, connected, fileVars, sent, body>>

\* The deferred release, on every path out of the handler.
Release(r) ==
  /\ Flight!End(r)
  /\ Goto(r, "release", "return")
  /\ UNCHANGED <<optionVars, connected, fileVars, result, replyVars>>

\* net/http ends the response: a panicking handler's connection is cut, any
\* other response is completed.
Return(r) ==
  /\ Goto(r, "return", "ready")
  /\ connected' = connected \ {r}
  /\ Set(body, r, IF result[r] = "panic" THEN "aborted" ELSE "complete")
  /\ UNCHANGED <<gateVars, optionVars, fileVars, result, header, sent>>

Tick ==
  /\ Flight!Tick
  /\ UNCHANGED <<optionVars, at, connected, fileVars, result, replyVars>>

Serve(r) ==
  \/ Reject(r) \/ Refuse(r) \/ Admit(r)
  \/ MakeScratch(r) \/ Prepare(r) \/ Dump(r) \/ HandOver(r) \/ CaptureFails(r)
  \/ OpenDump(r) \/ Analyze(r) \/ WriteChunk(r) \/ WriteBreaks(r) \/ Written(r)
  \/ UseFails(r) \/ Panic(r) \/ Reply(r) \/ Release(r) \/ Return(r)

Next ==
  \/ \E r \in Requests : Arrive(r) \/ Disconnect(r) \/ Serve(r)
  \/ Tick

\* The request's goroutine is in a call that returns only when its client acts:
\* reading a request body, a write of the tar, an answer, or net/http's flush at
\* the end. Neither handler sets a deadline, so while the client stays
\* connected, such a call may never return.
WaitsForClient(r) ==
  /\ r \in connected
  /\ \/ at[r] = "acquire" /\ Kind[r] = "memusage"
     \/ /\ at[r] = "opened" /\ Kind[r] = "bundle"
        /\ sent[r] < Chunks /\ (limit = 0 \/ sent[r] < limit)
     \/ at[r] = "unwound" /\ header[r] = "none" /\ result[r] # "panic"
     \/ at[r] = "return"

\* The server's goroutines run, except while they wait for their clients.
\* Clients do as they like.
Spec ==
  Init /\ [][Next]_vars /\ \A r \in Requests : WF_vars(Serve(r) /\ ~ WaitsForClient(r))
-----------------------------------------------------------------------------
(* Properties *)

\* What the gate, the options, the handlers and the responses may hold; no
\* stream goes past the end of its tar.
TypeOK ==
  /\ Flight!Rested \in Nat /\ cooldown \in Cooldowns
  /\ owner \in Requests \cup {NoRequest}
  /\ rest \in 0 .. Flight!Rested
  /\ configured \in [Kinds -> Cooldowns]
  /\ limit \in 0 .. Chunks
  /\ at \in [Requests -> Stages]
  /\ connected \subseteq Requests
  /\ scratch \subseteq Requests
  /\ files \subseteq Requests \X {"writer", "reader"}
  /\ result \in [Requests -> {"none", "ok", "error", "panic"}]
  /\ header \in [Requests -> {"none", "200 json", "200 tar", "error"}]
  /\ sent \in [Requests -> 0 .. Chunks]
  /\ body \in [Requests -> {"none", "open", "complete", "aborted"}]

\* Scratch storage belongs to the request that holds the gate: a refused,
\* failed, cancelled or finished request leaves no directory and no open
\* file behind, and they are gone before the gate lets the next one in.
ScratchGuarded ==
  /\ \A r \in scratch : owner = r /\ at[r] \in HolderStages \ {"begin", "unwound", "release"}
  /\ \A f \in files : f[1] \in scratch

\* A response is never presented as something it is not: a tar that ends
\* normally is whole, an error body is never appended to a tar, and no
\* handler returns normally without having answered.
HonestReply ==
  \A r \in Requests :
    /\ header[r] = "200 tar" /\ body[r] = "complete" => sent[r] = Chunks
    /\ header[r] = "error" => sent[r] = 0
    /\ body[r] = "complete" => header[r] # "none"

\* Neither endpoint captures sooner after any capture, its own or the other
\* endpoint's, than its own options allow, and neither captures at all when
\* either is configured with a negative cooldown.
OwnCooldown ==
  [][\A r \in Requests : owner' = r /\ owner # r
        => rest >= configured[Kind[r]] /\ \A k \in Kinds : configured[k] >= 0]_vars

\* The gate comes back from every request that gets it, whatever fails, panics
\* or leaves, in either handler, unless the client it writes to stays
\* connected for ever without reading (internal/memusage/handler.go:129,
\* internal/bundle/handler.go:104).  A gate that is not given back would
\* refuse every later capture of the process as busy.
GateReturned ==
  \A r \in Requests : owner = r ~> (owner # r \/ []WaitsForClient(r))
-----------------------------------------------------------------------------
(* The inductive invariant of the proofs. *)

\* The gate's owner is the request that is between Admit and Release.
OwnerInv == \A r \in Requests : owner = r <=> at[r] \in HolderStages

\* While the temporary directory of a request exists, and while its dump is
\* open for reading.
Storing == HolderStages \ {"begin", "unwound", "release"}

FilesInv ==
  /\ \A r \in Requests : r \in scratch <=> at[r] \in Storing
  /\ \A r \in Requests : <<r, "writer">> \in files => at[r] \in {"dumped"} \cup UseStages
  /\ \A r \in Requests : <<r, "reader">> \in files => at[r] = "opened"

\* What the client has seen when the handler of r reaches each stage.
Unanswered(r) == header[r] = "none" /\ sent[r] = 0

TarBegun(r) == Kind[r] = "bundle" /\ header[r] = "200 tar"

Answering(r) ==
  \/ result[r] = "panic"
  \/ header[r] \in {"error", "200 json"} /\ sent[r] = 0
  \/ TarBegun(r) /\ sent[r] = Chunks

Replying(r) ==
  /\ at[r] # "ready" => body[r] = "open"
  /\ sent[r] > 0 => TarBegun(r)
  /\ at[r] \in {"acquire"} \cup CaptureStages \cup UseStages => result[r] = "none"
  /\ at[r] \in {"acquire", "captured"} \cup CaptureStages => Unanswered(r)
  /\ at[r] = "opened" => Unanswered(r) \/ TarBegun(r)
  /\ at[r] = "unwound" =>
       \/ result[r] \in {"error", "panic"} /\ (Unanswered(r) \/ TarBegun(r))
       \/ result[r] = "ok" /\ Kind[r] = "memusage" /\ Unanswered(r)
       \/ result[r] = "ok" /\ TarBegun(r) /\ sent[r] = Chunks
  /\ at[r] \in {"release", "return"} => Answering(r)
  /\ header[r] = "error" => sent[r] = 0
  /\ body[r] = "complete" => Answering(r) /\ result[r] # "panic"

ReplyInv == \A r \in Requests : Replying(r)

OptionInv == cooldown = SharedCooldown(configured)

IInv == TypeOK /\ OwnerInv /\ FilesInv /\ ReplyInv /\ OptionInv
=============================================================================
