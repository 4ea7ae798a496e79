--------------------------- MODULE EndpointsProofs ---------------------------
(***************************************************************************)
(* Theorems about Endpoints for every number of requests on either         *)
(* endpoint, every pair of cooldowns, every artifact limit and every       *)
(* length of a tar.                                                        *)
(*                                                                         *)
(* The inductive invariant is IInv of Endpoints. ScratchGuarded is not     *)
(* inductive by itself: that nobody else holds the gate while a directory  *)
(* exists rests on OwnerInv, and that no path forgets a file on FilesInv.  *)
(* HonestReply speaks of the end of a response; ReplyInv says at each      *)
(* stage of the handler what the client has seen by then.                  *)
(***************************************************************************)
EXTENDS Endpoints, TLAPS

\* The cooldown in force covers both options, or is the negative one that
\* shuts the gate.
LEMMA SharedCooldownCovers ==
  ASSUME configured \in [Kinds -> Cooldowns]
  PROVE  /\ SharedCooldown(configured) \in Int
         /\ SharedCooldown(configured) >= 0 =>
              \A k \in Kinds : configured[k] >= 0 /\ configured[k] <= SharedCooldown(configured)
<1> DEFINE C == {configured[k] : k \in Kinds}
<1>1. configured["memusage"] \in Int /\ configured["bundle"] \in Int
  BY CooldownsAssumption DEF Kinds
<1>2. C = {configured["memusage"], configured["bundle"]}
  BY DEF Kinds
<1>3. \E m \in C : \A k \in Kinds : configured[k] <= m
  <2>1. CASE configured["memusage"] <= configured["bundle"]
    BY <1>1, <1>2, <2>1 DEF Kinds
  <2>2. CASE configured["bundle"] <= configured["memusage"]
    BY <1>1, <1>2, <2>2 DEF Kinds
  <2> QED
    BY <1>1, <2>1, <2>2
<1>4. CASE \E k \in Kinds : configured[k] < 0
  BY <1>4 DEF SharedCooldown
<1>5. CASE ~ \E k \in Kinds : configured[k] < 0
  <2>1. SharedCooldown(configured) = CHOOSE m \in C : \A k \in Kinds : configured[k] <= m
    BY <1>5 DEF SharedCooldown
  <2>2. /\ SharedCooldown(configured) \in C
        /\ \A k \in Kinds : configured[k] <= SharedCooldown(configured)
    BY <1>3, <2>1
  <2> QED
    BY <1>1, <1>2, <1>5, <2>2 DEF Kinds
<1> QED
  BY <1>4, <1>5

-----------------------------------------------------------------------------
\* The inductive invariant holds initially.
LEMMA InitIInv == Init => IInv
<1> SUFFICES ASSUME Init PROVE IInv
  OBVIOUS
<1>1. TypeOK
  BY CooldownsAssumption, ChunksAssumption
     DEF Init, TypeOK, Flight!Init, Flight!Rested, Stages
<1>2. OwnerInv
  BY NoRequestAssumption
     DEF Init, Flight!Init, OwnerInv, HolderStages, CaptureStages, UseStages
<1>3. FilesInv
  BY DEF Init, FilesInv, Storing, HolderStages, CaptureStages, UseStages
<1>4. ReplyInv
  <2>1. ASSUME NEW r \in Requests PROVE Replying(r)
    <3>1. at[r] = "ready" /\ sent[r] = 0 /\ header[r] = "none" /\ body[r] = "none"
      BY DEF Init
    <3> QED
      BY <3>1 DEF Replying, CaptureStages, UseStages, TarBegun, Unanswered, Answering
  <2> QED
    BY <2>1 DEF ReplyInv
<1>5. OptionInv
  BY DEF Init, OptionInv
<1> QED
  BY <1>1, <1>2, <1>3, <1>4, <1>5 DEF IInv

\* How a step of request r changes what is kept per request: its own entries
\* only, and the count of chunks by starting over or by one.
Moves(r) ==
  /\ at' = at \/ \E s \in Stages : at' = [at EXCEPT ![r] = s]
  /\ \/ sent' = sent
     \/ sent' = [sent EXCEPT ![r] = 0]
     \/ sent[r] < Chunks /\ sent' = [sent EXCEPT ![r] = sent[r] + 1]
  /\ \/ result' = result
     \/ \E x \in {"none", "ok", "error", "panic"} : result' = [result EXCEPT ![r] = x]
  /\ \/ header' = header
     \/ \E x \in {"none", "200 json", "200 tar", "error"} : header' = [header EXCEPT ![r] = x]
  /\ \/ body' = body
     \/ \E x \in {"open", "complete", "aborted"} : body' = [body EXCEPT ![r] = x]

\* What one request's goroutine or client may do.
RequestStep(r) == Arrive(r) \/ Disconnect(r) \/ Serve(r)

\* A step of a request touches only that request's entries.
LEMMA OwnEntries == ASSUME NEW r \in Requests, RequestStep(r) PROVE Moves(r)
<1> USE DEF RequestStep, Serve, Arrive, Disconnect, Reject, Refuse, Admit, MakeScratch, Prepare,
        Dump, HandOver, CaptureFails, OpenDump, Analyze, WriteChunk, WriteBreaks, Written,
        UseFails, Panic, Unwind, Reply, Release, Return, Goto, Set, replyVars
<1>1. at' = at \/ \E s \in Stages : at' = [at EXCEPT ![r] = s]
  BY DEF Stages, HolderStages, CaptureStages, UseStages
<1>2. \/ sent' = sent
      \/ sent' = [sent EXCEPT ![r] = 0]
      \/ sent[r] < Chunks /\ sent' = [sent EXCEPT ![r] = sent[r] + 1]
  OBVIOUS
<1>3. \/ result' = result
      \/ \E x \in {"none", "ok", "error", "panic"} : result' = [result EXCEPT ![r] = x]
  OBVIOUS
<1>4. \/ header' = header
      \/ \E x \in {"none", "200 json", "200 tar", "error"} : header' = [header EXCEPT ![r] = x]
  OBVIOUS
<1>5. \/ body' = body
      \/ \E x \in {"open", "complete", "aborted"} : body' = [body EXCEPT ![r] = x]
  OBVIOUS
<1> QED
  BY <1>1, <1>2, <1>3, <1>4, <1>5 DEF Moves

\* Every step keeps the types.
LEMMA TypeStep == IInv /\ [Next]_vars => TypeOK'
<1> SUFFICES ASSUME IInv, [Next]_vars PROVE TypeOK'
  OBVIOUS
<1>0. TypeOK /\ Chunks \in Nat /\ cooldown \in Int
  BY ChunksAssumption, CooldownsAssumption DEF IInv, TypeOK
<1>1. ASSUME NEW r \in Requests, RequestStep(r) PROVE TypeOK'
  <2>0. Moves(r)
    BY <1>1, OwnEntries
  <2>1. (at \in [Requests -> Stages])'
    BY ZenonT(60), <1>0, <2>0 DEF TypeOK, Moves
  <2>2. (sent \in [Requests -> 0 .. Chunks])'
    <3>1. sent \in [Requests -> 0 .. Chunks]
      BY <1>0 DEF TypeOK
    <3>2. CASE sent' = sent \/ sent' = [sent EXCEPT ![r] = 0]
      BY <1>0, <3>1, <3>2
    <3>3. CASE sent[r] < Chunks /\ sent' = [sent EXCEPT ![r] = sent[r] + 1]
      <4>1. sent[r] + 1 \in 0 .. Chunks
        BY <1>0, <3>1, <3>3
      <4> QED
        BY <3>1, <3>3, <4>1
    <3> QED
      BY <2>0, <3>2, <3>3 DEF Moves
  <2>3. (result \in [Requests -> {"none", "ok", "error", "panic"}])'
    BY <1>0, <2>0 DEF TypeOK, Moves
  <2>4. (header \in [Requests -> {"none", "200 json", "200 tar", "error"}])'
    BY <1>0, <2>0 DEF TypeOK, Moves
  <2>5. (body \in [Requests -> {"none", "open", "complete", "aborted"}])'
    BY <1>0, <2>0 DEF TypeOK, Moves
  <2>6. UNCHANGED <<cooldown, configured, limit>>
    BY <1>1 DEF RequestStep, Serve, gateVars, optionVars, Arrive, Disconnect, Reject, Refuse,
       Admit, Flight!Start, MakeScratch, Prepare, Dump, HandOver, CaptureFails, OpenDump, Analyze,
       WriteChunk, WriteBreaks, Written, UseFails, Panic, Unwind, Reply, Release, Flight!End, Return
  <2>7. /\ \/ owner' = owner /\ rest' = rest
           \/ owner' = r /\ rest' = rest
           \/ owner' = NoRequest /\ rest' = 0
        /\ connected' \in {connected, connected \cup {r}, connected \ {r}}
        /\ scratch' \in {scratch, scratch \cup {r}, scratch \ {r}}
    BY <1>1 DEF RequestStep, Serve, gateVars, fileVars, Arrive, Disconnect, Reject, Refuse,
       Admit, Flight!Start, MakeScratch, Prepare, Dump, HandOver, CaptureFails, OpenDump, Analyze,
       WriteChunk, WriteBreaks, Written, UseFails, Panic, Unwind, Reply, Release, Flight!End, Return
  <2>8. \/ files' \subseteq files
        \/ files' = files \cup {<<r, "writer">>}
        \/ files' = files \cup {<<r, "reader">>}
    BY <1>1 DEF RequestStep, Serve, fileVars, Arrive, Disconnect, Reject, Refuse, Admit,
       MakeScratch, Prepare, Dump, HandOver, CaptureFails, OpenDump, Analyze, WriteChunk,
       WriteBreaks, Written, UseFails, Panic, Unwind, Reply, Release, Return
  <2>9. (Flight!Rested \in Nat /\ rest \in 0 .. Flight!Rested)'
    <3>1. Flight!Rested' = Flight!Rested
      BY <2>6 DEF Flight!Rested
    <3>2. Flight!Rested \in Nat /\ rest \in 0 .. Flight!Rested
      BY <1>0 DEF TypeOK
    <3> QED
      BY <2>7, <3>1, <3>2
  <2>10. (files \subseteq Requests \X {"writer", "reader"})'
    <3>1. <<r, "writer">> \in Requests \X {"writer", "reader"}
          /\ <<r, "reader">> \in Requests \X {"writer", "reader"}
      OBVIOUS
    <3> QED
      BY <1>0, <2>8, <3>1 DEF TypeOK
  <2>11. (connected \subseteq Requests /\ scratch \subseteq Requests)'
    BY <1>0, <2>7 DEF TypeOK
  <2>12. (/\ cooldown \in Cooldowns /\ owner \in Requests \cup {NoRequest}
          /\ configured \in [Kinds -> Cooldowns] /\ limit \in 0 .. Chunks)'
    BY <1>0, <2>6, <2>7 DEF TypeOK
  <2> QED
    BY <2>1, <2>2, <2>3, <2>4, <2>5, <2>9, <2>10, <2>11, <2>12 DEF TypeOK
<1>2. CASE Tick
  <2>1. (Flight!Rested \in Nat /\ rest \in 0 .. Flight!Rested)'
    <3>1. Flight!Rested' = Flight!Rested
      BY <1>2 DEF Tick, Flight!Tick, Flight!Rested
    <3>2. Flight!Rested \in Nat /\ rest \in 0 .. Flight!Rested
      BY <1>0 DEF TypeOK
    <3> QED
      BY <1>2, <3>1, <3>2 DEF Tick, Flight!Tick
  <2> QED
    BY <1>0, <1>2, <2>1 DEF Tick, Flight!Tick, TypeOK, optionVars, fileVars, replyVars
<1>3. CASE UNCHANGED vars
  BY <1>0, <1>3
     DEF vars, TypeOK, Flight!Rested, gateVars, optionVars, fileVars, replyVars
<1> QED
  BY <1>1, <1>2, <1>3 DEF Next, RequestStep

-----------------------------------------------------------------------------
\* Every step keeps the gate's owner in step with the handlers.
LEMMA OwnerStep == IInv /\ [Next]_vars => OwnerInv'
<1> SUFFICES ASSUME IInv, [Next]_vars PROVE OwnerInv'
  OBVIOUS
<1>0. at \in [Requests -> Stages] /\ OwnerInv
  BY DEF IInv, TypeOK
<1> DEFINE Inside(stage) == stage \in HolderStages
<1>1. ASSUME NEW r \in Requests, RequestStep(r) PROVE OwnerInv'
  <2>1. CASE Admit(r)
    <3>1. at' = [at EXCEPT ![r] = "begin"] /\ owner = NoRequest /\ owner' = r
      BY <2>1 DEF Admit, Flight!Start, Goto, Set
    <3> QED
      BY <1>0, <3>1, NoRequestAssumption DEF OwnerInv, HolderStages, CaptureStages
  <2>2. CASE Release(r)
    <3>1. at' = [at EXCEPT ![r] = "return"] /\ owner = r /\ owner' = NoRequest
      BY <2>2 DEF Release, Flight!End, Goto, Set
    <3> QED
      BY <1>0, <3>1, NoRequestAssumption DEF OwnerInv, HolderStages, CaptureStages, UseStages
  <2>3. CASE ~ Admit(r) /\ ~ Release(r)
    <3>1. owner' = owner
      BY <1>1, <2>3 DEF RequestStep, Serve, gateVars, Arrive, Disconnect, Reject, Refuse,
         MakeScratch, Prepare, Dump, HandOver, CaptureFails, OpenDump, Analyze, WriteChunk,
         WriteBreaks, Written, UseFails, Panic, Unwind, Reply, Return
    <3>2. \/ at' = at
          \/ \E s \in Stages : at' = [at EXCEPT ![r] = s] /\ (Inside(s) <=> Inside(at[r]))
      BY ZenonT(60), <1>1, <2>3
         DEF RequestStep, Serve, Arrive, Disconnect, Reject, Refuse, MakeScratch, Prepare, Dump,
             HandOver, CaptureFails, OpenDump, Analyze, WriteChunk, WriteBreaks, Written,
             UseFails, Panic, Unwind, Reply, Return, Goto, Set, Stages, HolderStages,
             CaptureStages, UseStages
    <3> QED
      BY <1>0, <3>1, <3>2 DEF OwnerInv
  <2> QED
    BY <2>1, <2>2, <2>3
<1>2. CASE Tick \/ UNCHANGED vars
  BY <1>0, <1>2 DEF Tick, Flight!Tick, vars, gateVars, OwnerInv
<1> QED
  BY <1>1, <1>2 DEF Next, RequestStep

-----------------------------------------------------------------------------
\* Every step keeps directories and files with the stages that need them.
LEMMA FilesStep == IInv /\ [Next]_vars => FilesInv'
<1> SUFFICES ASSUME IInv, [Next]_vars PROVE FilesInv'
  OBVIOUS
<1>0. at \in [Requests -> Stages] /\ FilesInv
  BY DEF IInv, TypeOK
<1>1. ASSUME NEW r \in Requests, MakeScratch(r) PROVE FilesInv'
  <2>1. at' = [at EXCEPT ![r] = "made"] /\ scratch' = scratch \cup {r} /\ files' = files
        /\ at[r] = "begin"
    BY <1>1 DEF MakeScratch, Goto, Set
  <2> QED
    BY <1>0, <2>1 DEF FilesInv, Storing, HolderStages, CaptureStages, UseStages
<1>2. ASSUME NEW r \in Requests, Dump(r) PROVE FilesInv'
  <2>1. at' = [at EXCEPT ![r] = "dumped"] /\ scratch' = scratch /\ at[r] = "prepared"
        /\ files' = files \cup {<<r, "writer">>}
    BY <1>2 DEF Dump, Goto, Set
  <2> QED
    BY <1>0, <2>1 DEF FilesInv, Storing, HolderStages, CaptureStages, UseStages
<1>3. ASSUME NEW r \in Requests, OpenDump(r) PROVE FilesInv'
  <2>1. at' = [at EXCEPT ![r] = "opened"] /\ scratch' = scratch /\ at[r] = "captured"
        /\ files' = files \cup {<<r, "reader">>}
    BY <1>3 DEF OpenDump, Goto, Set
  <2> QED
    BY <1>0, <2>1 DEF FilesInv, Storing, HolderStages, CaptureStages, UseStages
<1>4. ASSUME NEW r \in Requests, CaptureFails(r) PROVE FilesInv'
  <2>1. at' = [at EXCEPT ![r] = "unwound"] /\ scratch' = scratch \ {r} /\ at[r] \in CaptureStages
        /\ files' = files \ {<<r, "writer">>}
    BY <1>4 DEF CaptureFails, Set
  <2> QED
    BY <1>0, <2>1 DEF FilesInv, Storing, HolderStages, CaptureStages, UseStages
<1>5. ASSUME NEW r \in Requests, NEW outcome, Unwind(r, outcome) PROVE FilesInv'
  <2>1. at' = [at EXCEPT ![r] = "unwound"] /\ scratch' = scratch \ {r}
        /\ files' = files \ {<<r, "writer">>, <<r, "reader">>}
    BY <1>5 DEF Unwind, Set
  <2> QED
    BY <1>0, <2>1 DEF FilesInv, Storing, HolderStages, CaptureStages, UseStages
<1>6. ASSUME NEW r \in Requests,
             \/ Arrive(r) \/ Disconnect(r) \/ Reject(r) \/ Refuse(r) \/ Admit(r) \/ Prepare(r)
             \/ HandOver(r) \/ WriteChunk(r) \/ Reply(r) \/ Release(r) \/ Return(r)
      PROVE  FilesInv'
  <2>1. UNCHANGED fileVars
    BY <1>6 DEF Arrive, Disconnect, Reject, Refuse, Admit, Prepare, HandOver, WriteChunk, Reply,
       Release, Return
  <2>2. \/ at' = at
        \/ \E s \in Stages : /\ at' = [at EXCEPT ![r] = s]
                             /\ s \in Storing <=> at[r] \in Storing
                             /\ at[r] \in {"dumped"} \cup UseStages => s \in {"dumped"} \cup UseStages
                             /\ at[r] # "opened"
    BY <1>6 DEF Arrive, Disconnect, Reject, Refuse, Admit, Prepare, HandOver, WriteChunk, Reply,
       Release, Return, Goto, Set, Stages, Storing, HolderStages, CaptureStages, UseStages
  <2> QED
    BY <1>0, <2>1, <2>2 DEF fileVars, FilesInv
<1>7. CASE Tick \/ UNCHANGED vars
  BY <1>0, <1>7 DEF Tick, vars, fileVars, FilesInv
<1> QED
  BY <1>1, <1>2, <1>3, <1>4, <1>5, <1>6, <1>7
     DEF Next, Serve, Analyze, WriteBreaks, Written, UseFails, Panic

-----------------------------------------------------------------------------
\* Every step keeps what the client has seen in step with the handler.
LEMMA ReplyStep == IInv /\ [Next]_vars => ReplyInv'
<1> SUFFICES ASSUME IInv, [Next]_vars PROVE ReplyInv'
  OBVIOUS
<1>0. /\ at \in [Requests -> Stages] /\ sent \in [Requests -> 0 .. Chunks]
      /\ result \in [Requests -> {"none", "ok", "error", "panic"}]
      /\ header \in [Requests -> {"none", "200 json", "200 tar", "error"}]
      /\ body \in [Requests -> {"none", "open", "complete", "aborted"}]
      /\ Chunks \in Nat \ {0} /\ ReplyInv
  BY ChunksAssumption DEF IInv, TypeOK
<1>1. ASSUME NEW r \in Requests, RequestStep(r) PROVE ReplyInv'
  <2>1. ASSUME NEW s \in Requests \ {r} PROVE Replying(s)'
    <3>1. /\ at'[s] = at[s] /\ sent'[s] = sent[s] /\ result'[s] = result[s]
          /\ header'[s] = header[s] /\ body'[s] = body[s]
      BY ZenonT(60), <1>0, <1>1, OwnEntries DEF Moves
    <3> QED
      BY <1>0, <3>1 DEF ReplyInv, Replying, TarBegun, Unanswered, Answering
  <2>2. Replying(r)'
    <3>0. Replying(r) /\ Kind[r] \in Kinds
      BY <1>0, KindAssumption DEF ReplyInv
    <3>00. /\ Chunks \in Nat \ {0} /\ sent[r] \in 0 .. Chunks
          /\ header[r] \in {"none", "200 json", "200 tar", "error"}
      BY <1>0
    <3> USE DEF Kinds, Replying, TarBegun, Unanswered, Answering, CaptureStages, UseStages
    <3>1. CASE Arrive(r)
      <4>1. /\ at'[r] = "acquire" /\ result'[r] = "none" /\ header'[r] = "none"
            /\ sent'[r] = 0 /\ body'[r] = "open"
        BY <1>0, <3>1 DEF Arrive, Goto, Set
      <4> QED
        BY <4>1
    <3>2. CASE Reject(r) \/ Refuse(r)
      <4>1. /\ at[r] = "acquire" /\ at'[r] = "return" /\ header'[r] = "error"
            /\ result'[r] = result[r] /\ sent'[r] = sent[r] /\ body'[r] = body[r]
        BY <1>0, <3>2 DEF Reject, Refuse, Goto, Set
      <4> QED
        BY <3>0, <3>00, <4>1
    <3>3. CASE Disconnect(r) \/ Admit(r) \/ MakeScratch(r) \/ Prepare(r) \/ Dump(r)
               \/ HandOver(r) \/ OpenDump(r)
      <4>1. /\ \/ at'[r] = at[r]
               \/ /\ at[r] \in {"acquire", "captured"} \cup CaptureStages
                  /\ at'[r] \in {"captured", "opened"} \cup CaptureStages
            /\ result'[r] = result[r] /\ header'[r] = header[r]
            /\ sent'[r] = sent[r] /\ body'[r] = body[r]
        BY <1>0, <3>3 DEF Disconnect, Admit, MakeScratch, Prepare, Dump, HandOver, OpenDump, Goto,
           Set, replyVars
      <4> QED
        BY <3>0, <3>00, <4>1
    <3>4. CASE CaptureFails(r)
      <4>1. /\ at[r] \in CaptureStages /\ at'[r] = "unwound" /\ result'[r] = "error"
            /\ header'[r] = header[r] /\ sent'[r] = sent[r] /\ body'[r] = body[r]
        BY <1>0, <3>4 DEF CaptureFails, Set, replyVars
      <4> QED
        BY <3>0, <3>00, <4>1
    <3>5. CASE Analyze(r)
      <4>1. /\ at[r] = "opened" /\ Kind[r] = "memusage" /\ at'[r] = "unwound"
            /\ result'[r] = "ok"
            /\ header'[r] = header[r] /\ sent'[r] = sent[r] /\ body'[r] = body[r]
        BY <1>0, <3>5 DEF Analyze, Unwind, Set
      <4> QED
        BY <3>0, <3>00, <4>1
    <3>6. CASE WriteChunk(r)
      <4>1. /\ at[r] = "opened" /\ Kind[r] = "bundle" /\ at'[r] = at[r]
            /\ header'[r] = "200 tar" /\ sent'[r] = sent[r] + 1
            /\ result'[r] = result[r] /\ body'[r] = body[r]
        BY <1>0, <3>6 DEF WriteChunk, Set
      <4> QED
        BY <3>0, <3>00, <4>1
    <3>7. CASE WriteBreaks(r)
      <4>1. /\ at[r] = "opened" /\ Kind[r] = "bundle" /\ at'[r] = "unwound"
            /\ header'[r] = "200 tar" /\ result'[r] = "error"
            /\ sent'[r] = sent[r] /\ body'[r] = body[r]
        BY <1>0, <3>7 DEF WriteBreaks, Unwind, Set
      <4> QED
        BY <3>0, <3>00, <4>1
    <3>8. CASE Written(r)
      <4>1. /\ at[r] = "opened" /\ sent[r] = Chunks /\ at'[r] = "unwound" /\ result'[r] = "ok"
            /\ header'[r] = header[r] /\ sent'[r] = sent[r] /\ body'[r] = body[r]
        BY <1>0, <3>8 DEF Written, Unwind, Set
      <4> QED
        BY <3>0, <3>00, <4>1
    <3>9. CASE UseFails(r) \/ Panic(r)
      <4>1. /\ at[r] \in CaptureStages \cup UseStages /\ at'[r] = "unwound"
            /\ result'[r] \in {"error", "panic"}
            /\ header'[r] = header[r] /\ sent'[r] = sent[r] /\ body'[r] = body[r]
        BY <1>0, <3>9 DEF UseFails, Panic, Unwind, Set
      <4> QED
        BY <3>0, <3>00, <4>1
    <3>10. CASE Reply(r)
      <4>1. /\ at[r] = "unwound" /\ at'[r] = "release"
            /\ sent'[r] = sent[r] /\ body'[r] = body[r]
        BY <1>0, <3>10 DEF Reply, Goto, Set
      <4>2. \/ /\ result[r] = "ok" /\ Kind[r] = "memusage"
               /\ header' = [header EXCEPT ![r] = "200 json"] /\ result' = result
            \/ /\ result[r] = "error" /\ header[r] = "none"
               /\ header' = [header EXCEPT ![r] = "error"] /\ result' = result
            \/ /\ result[r] = "error" /\ header[r] = "200 tar"
               /\ header' = header /\ result' = [result EXCEPT ![r] = "panic"]
            \/ /\ result[r] = "panic" \/ (result[r] = "ok" /\ Kind[r] = "bundle")
               /\ header' = header /\ result' = result
        BY <3>10 DEF Reply, Goto, Set
      <4>3. CASE result[r] = "panic"
        BY <1>0, <3>0, <4>1, <4>2, <4>3
      <4>4. CASE result[r] = "ok"
        BY <1>0, <3>0, <4>1, <4>2, <4>4
      <4>5. CASE result[r] = "error"
        BY <1>0, <3>0, <4>1, <4>2, <4>5
      <4> QED
        BY <4>2, <4>3, <4>4, <4>5
    <3>11. CASE Release(r) \/ Return(r)
      <4>1. /\ at[r] \in {"release", "return"} /\ at'[r] \in {"return", "ready"}
            /\ header'[r] = header[r] /\ sent'[r] = sent[r] /\ result'[r] = result[r]
            /\ \/ at'[r] = "return" /\ body'[r] = body[r]
               \/ /\ at'[r] = "ready"
                  /\ body'[r] = IF result[r] = "panic" THEN "aborted" ELSE "complete"
        BY <1>0, <3>11 DEF Release, Return, Goto, Set, replyVars
      <4> QED
        BY <3>0, <3>00, <4>1
    <3> QED
      BY <1>1, <3>1, <3>2, <3>3, <3>4, <3>5, <3>6, <3>7, <3>8, <3>9, <3>10, <3>11
         DEF RequestStep, Serve
  <2> QED
    BY <2>1, <2>2 DEF ReplyInv
<1>2. CASE Tick \/ UNCHANGED vars
  <2>1. UNCHANGED <<at, result, header, sent, body>>
    BY <1>2 DEF Tick, vars, replyVars
  <2> QED
    BY ZenonT(60), <1>0, <2>1 DEF ReplyInv, Replying, TarBegun, Unanswered, Answering
<1> QED
  BY <1>1, <1>2 DEF Next, RequestStep

-----------------------------------------------------------------------------
\* Neither the options nor the cooldown made of them ever changes.
LEMMA OptionStep == IInv /\ [Next]_vars => OptionInv'
<1> SUFFICES ASSUME IInv, [Next]_vars PROVE OptionInv'
  OBVIOUS
<1>1. UNCHANGED <<cooldown, configured>>
  BY DEF Next, Serve, vars, gateVars, optionVars, Arrive, Disconnect, Reject, Refuse, Admit,
         Flight!Start, MakeScratch, Prepare, Dump, HandOver, CaptureFails, OpenDump, Analyze,
         WriteChunk, WriteBreaks, Written, UseFails, Panic, Unwind, Reply, Release, Flight!End,
         Return, Tick, Flight!Tick
<1> QED
  BY <1>1 DEF IInv, OptionInv, SharedCooldown

\* The inductive invariant holds in every reachable state.
LEMMA Inductive == Spec => []IInv
<1>1. IInv /\ [Next]_vars => IInv'
  BY TypeStep, OwnerStep, FilesStep, ReplyStep, OptionStep DEF IInv
<1> QED
  BY InitIInv, <1>1, PTL DEF Spec

-----------------------------------------------------------------------------
\* The handlers, the gate and the responses stay well typed; no stream goes
\* past the end of its tar.
THEOREM TypeCorrect == Spec => []TypeOK
<1>1. IInv => TypeOK
  BY DEF IInv
<1> QED
  BY Inductive, <1>1, PTL

\* Directories and open dump files exist only while their request holds the
\* gate, on every path through Capture and its callers.
THEOREM ScratchStaysGuarded == Spec => []ScratchGuarded
<1>1. IInv => ScratchGuarded
  <2> SUFFICES ASSUME IInv PROVE ScratchGuarded
    OBVIOUS
  <2>1. \A r \in scratch : owner = r /\ at[r] \in Storing
    BY DEF IInv, TypeOK, OwnerInv, FilesInv, Storing
  <2>2. ASSUME NEW f \in files PROVE f[1] \in scratch
    <3>1. PICK r \in Requests : f = <<r, "writer">> \/ f = <<r, "reader">>
      <4>1. files \subseteq Requests \X {"writer", "reader"}
        BY DEF IInv, TypeOK
      <4> QED
        BY <4>1
    <3> QED
      <4>1. at[r] \in {"dumped"} \cup UseStages
        BY <3>1 DEF IInv, FilesInv, UseStages
      <4>2. r \in scratch
        BY <4>1 DEF IInv, FilesInv, Storing, HolderStages, CaptureStages, UseStages
      <4> QED
        BY <3>1, <4>2
  <2> QED
    BY <2>1, <2>2 DEF ScratchGuarded, Storing
<1> QED
  BY Inductive, <1>1, PTL

\* No response is presented as something it is not.
THEOREM RepliesAreHonest == Spec => []HonestReply
<1>1. IInv => HonestReply
  <2> SUFFICES ASSUME IInv PROVE HonestReply
    OBVIOUS
  <2> QED
    BY ChunksAssumption DEF IInv, TypeOK, ReplyInv, Replying, HonestReply, Answering, TarBegun
<1> QED
  BY Inductive, <1>1, PTL

\* Each endpoint's own cooldown holds across the captures of both.
THEOREM CooldownsHold == Spec => OwnCooldown
<1> DEFINE Guarded ==
      \A r \in Requests : owner' = r /\ owner # r
        => rest >= configured[Kind[r]] /\ \A k \in Kinds : configured[k] >= 0
<1>1. IInv /\ [Next]_vars => [Guarded]_vars
  <2> SUFFICES ASSUME IInv, Next, NEW r \in Requests, owner' = r, owner # r
               PROVE  rest >= configured[Kind[r]] /\ \A k \in Kinds : configured[k] >= 0
    BY DEF vars
  <2>1. Flight!Start(r)
    BY NoRequestAssumption
       DEF Next, Serve, gateVars, Arrive, Disconnect, Reject, Refuse, Admit, Flight!Start,
           MakeScratch, Prepare, Dump, HandOver, CaptureFails, OpenDump, Analyze, WriteChunk,
           WriteBreaks, Written, UseFails, Panic, Unwind, Reply, Release, Flight!End, Return,
           Tick, Flight!Tick
  <2>2. rest = cooldown /\ cooldown >= 0
    <3>1. cooldown \in Int
      BY CooldownsAssumption DEF IInv, TypeOK
    <3> QED
      BY <2>1, <3>1 DEF Flight!Start, Flight!Rested
  <2>3. \A k \in Kinds : configured[k] >= 0 /\ configured[k] <= cooldown
    BY <2>2, SharedCooldownCovers DEF IInv, TypeOK, OptionInv
  <2> QED
    BY <2>2, <2>3, KindAssumption, CooldownsAssumption DEF IInv, TypeOK
<1> QED
  BY Inductive, <1>1, PTL DEF Spec, OwnCooldown
=============================================================================
