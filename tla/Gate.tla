-------------------------------- MODULE Gate --------------------------------
(***************************************************************************)
(* internal/capture/gate.go: the gate the HTTP handlers of one process     *)
(* take before they write a heap dump. A request goes through Acquire      *)
(*                                                                         *)
(*    select on sem -> read next under mu -> keep sem, or give it back     *)
(*                                                                         *)
(* and, once admitted, through the closure Acquire returned, which writes  *)
(* next under mu and then receives from sem. Each region under mu is one   *)
(* step; between any two steps of a request the others may run.            *)
(*                                                                         *)
(* Time is relative: `left` is next.Sub(now()) where that is positive and  *)
(* 0 afterwards, so the clock needs no bound and the model is finite.      *)
(***************************************************************************)
EXTENDS Integers

CONSTANTS
  Requests,    \* goroutines serving a request; each may ask again and again
  NoRequest,   \* a value that is no request
  Cooldowns,   \* the cooldowns NewGate may be given, in clock ticks
  Second       \* clock ticks in a second

ASSUME NoRequestAssumption == NoRequest \notin Requests
ASSUME CooldownsAssumption == Cooldowns \subseteq Int
ASSUME SecondAssumption == Second \in Nat \ {0}

VARIABLES
  \* The gate.
  cooldown,    \* Gate.cooldown
  sem,         \* len(Gate.sem), a channel of capacity 1
  left,        \* time until Gate.next
  \* The requests.
  pc,          \* where the goroutine stands in Acquire and release
  answer,      \* what Acquire last told the request
  \* History, for the properties only.
  rest,        \* ticks since the last capture ended, counted up to cooldown
  hint,        \* ticks a refused client was told to wait and has not waited
  renewed      \* clients since whose last refusal a capture has ended

gateVars == <<cooldown, sem, left>>
historyVars == <<rest, hint, renewed>>
vars == <<cooldown, sem, left, pc, answer, rest, hint, renewed>>

Steps ==
  {"idle",        \* outside the gate
   "checking",    \* sent on sem, not yet at the cooldown check
   "refusing",    \* saw remaining > 0, about to receive from sem
   "capturing",   \* holds the gate: Acquire returned the release closure
   "recording",   \* the handler returned, release is about to write next
   "freeing"}     \* next is written, release is about to receive from sem

Answers == {"none", "invalid", "busy", "cooldown", "admitted"}

\* No duration is left once next has passed, and a negative cooldown never
\* opens a window: Rested is the length of the window a capture leaves.
Rested == IF cooldown > 0 THEN cooldown ELSE 0

(* Slips: variants of the definitions below, each with one plausible        *)
(* mistake. No specification uses them; they show what the properties see.  *)

RetryAfterTruncated(d) == d \div Second

\* GateError.RetryAfterSeconds: whole seconds, rounded up.
RetryAfterSeconds(d) ==
  d \div Second + (IF d % Second # 0 THEN 1 ELSE 0)

Goto(r, from, to) ==
  /\ pc[r] = from
  /\ pc' = [pc EXCEPT ![r] = to]

Told(r, a) == answer' = [answer EXCEPT ![r] = a]

Init ==
  /\ cooldown \in Cooldowns
  /\ sem = 0
  /\ left = 0                       \* the zero time.Time has long passed
  /\ pc = [r \in Requests |-> "idle"]
  /\ answer = [r \in Requests |-> "none"]
  /\ rest = Rested
  /\ hint = [r \in Requests |-> 0]
  /\ renewed = Requests
-----------------------------------------------------------------------------
(* Slips (see above) *)

\* The refusal gives the token back at once, and again in Refuse.
FindCooldownFreeing(r) ==
  /\ left > 0
  /\ Goto(r, "checking", "refusing")
  /\ sem' = 0
  /\ hint' = [hint EXCEPT ![r] = RetryAfterSeconds(left) * Second]
  /\ renewed' = renewed \ {r}
  /\ UNCHANGED <<cooldown, left, answer, rest>>

\* A refused request starts the cooldown anew.
FindCooldownRestarting(r) ==
  /\ left > 0
  /\ Goto(r, "checking", "refusing")
  /\ left' = Rested
  /\ hint' = [hint EXCEPT ![r] = RetryAfterSeconds(left) * Second]
  /\ renewed' = renewed \ {r}
  /\ UNCHANGED <<cooldown, sem, answer, rest>>

\* The request is admitted without a look at next.
AdmitRegardless(r) ==
  /\ Goto(r, "checking", "capturing")
  /\ Told(r, "admitted")
  /\ UNCHANGED <<gateVars, historyVars>>

\* The refusal path returns without the receive.
RefuseKeepingToken(r) ==
  /\ Goto(r, "refusing", "idle")
  /\ Told(r, "cooldown")
  /\ UNCHANGED <<gateVars, historyVars>>

\* release receives from sem before it writes next.
FinishFreeingFirst(r) ==
  /\ Goto(r, "capturing", "recording")
  /\ sem' = 0
  /\ rest' = 0
  /\ renewed' = Requests
  /\ UNCHANGED <<cooldown, left, answer, hint>>

-----------------------------------------------------------------------------
(* Acquire *)

\* A negative cooldown is refused before sem is touched.
RejectConfiguration(r) ==
  /\ pc[r] = "idle"
  /\ cooldown < 0
  /\ Told(r, "invalid")
  /\ UNCHANGED <<gateVars, pc, historyVars>>

\* The select takes its default branch: the channel is full.
RejectBusy(r) ==
  /\ pc[r] = "idle"
  /\ cooldown >= 0
  /\ sem = 1
  /\ Told(r, "busy")
  /\ UNCHANGED <<gateVars, pc, historyVars>>

\* The select sends.
Enter(r) ==
  /\ cooldown >= 0
  /\ sem = 0
  /\ Goto(r, "idle", "checking")
  /\ sem' = 1
  /\ UNCHANGED <<cooldown, left, answer, historyVars>>

\* remaining > 0: the error carries what is left of the cooldown.
FindCooldown(r) ==
  /\ left > 0
  /\ Goto(r, "checking", "refusing")
  /\ hint' = [hint EXCEPT ![r] = RetryAfterSeconds(left) * Second]
  /\ renewed' = renewed \ {r}
  /\ UNCHANGED <<gateVars, answer, rest>>

\* remaining <= 0: Acquire returns the release closure.
Admit(r) ==
  /\ left = 0
  /\ Goto(r, "checking", "capturing")
  /\ Told(r, "admitted")
  /\ UNCHANGED <<gateVars, historyVars>>

\* <-g.sem on the refusal path. A receive on an empty channel would block.
Refuse(r) ==
  /\ sem = 1
  /\ Goto(r, "refusing", "idle")
  /\ sem' = 0
  /\ Told(r, "cooldown")
  /\ UNCHANGED <<cooldown, left, historyVars>>
-----------------------------------------------------------------------------
(* The release closure, called once by the handler's defer *)

\* The capture ends, in success or in failure, and release is called.
Finish(r) ==
  /\ Goto(r, "capturing", "recording")
  /\ rest' = 0
  /\ renewed' = Requests
  /\ UNCHANGED <<gateVars, answer, hint>>

\* g.next = g.now().Add(g.cooldown), under mu.
Record(r) ==
  /\ Goto(r, "recording", "freeing")
  /\ left' = Rested
  /\ UNCHANGED <<cooldown, sem, answer, historyVars>>

\* <-g.sem at the end of release.
Free(r) ==
  /\ sem = 1
  /\ Goto(r, "freeing", "idle")
  /\ sem' = 0
  /\ UNCHANGED <<cooldown, left, answer, historyVars>>
-----------------------------------------------------------------------------
Down(n) == IF n > 0 THEN n - 1 ELSE 0

\* The clock advances; it never goes back (Go compares monotonic readings).
Tick ==
  /\ left' = Down(left)
  /\ rest' = IF rest < Rested THEN rest + 1 ELSE rest
  /\ hint' = [r \in Requests |-> Down(hint[r])]
  /\ UNCHANGED <<cooldown, sem, pc, answer, renewed>>

Ask(r) == RejectConfiguration(r) \/ RejectBusy(r) \/ Enter(r)
Check(r) == FindCooldown(r) \/ Admit(r)
Step(r) == Check(r) \/ Refuse(r) \/ Finish(r) \/ Record(r) \/ Free(r)

Next ==
  \/ \E r \in Requests : Ask(r) \/ Step(r)
  \/ Tick

\* A goroutine that entered the gate keeps running, its capture ends, and
\* time passes.
Fairness ==
  /\ \A r \in Requests : WF_vars(Step(r))
  /\ WF_vars(Tick)

Spec == Init /\ [][Next]_vars /\ Fairness

\* Clients that keep asking: whenever the gate stays free someone enters.
PersistentSpec == Spec /\ WF_vars(\E r \in Requests : Enter(r))
-----------------------------------------------------------------------------
(* Properties *)

\* What each variable of the gate, the requests and the history may hold.
TypeOK ==
  /\ cooldown \in Cooldowns
  /\ sem \in {0, 1}
  /\ left \in Nat
  /\ pc \in [Requests -> Steps]
  /\ answer \in [Requests -> Answers]
  /\ rest \in Nat
  /\ hint \in [Requests -> Nat]
  /\ renewed \subseteq Requests

Holds(r) == pc[r] # "idle"

\* At most one request is past the select, and sem is full exactly then: no
\* token is lost on a refusal path, none is returned twice, and the receives
\* of Refuse and Free find one, so they never block.
TokenInv ==
  /\ \A r, s \in Requests : Holds(r) /\ Holds(s) => r = s
  /\ sem = 1 <=> \E r \in Requests : Holds(r)

\* What relates the clocks and the steps. Neither clock runs past the
\* cooldown; a request is past the select only under a valid configuration;
\* what the gate remembers (left) covers what has not passed of the cooldown
\* (Rested - rest) unless release is still about to write next, and then
\* every client may be told anew; a client's remaining wait covers left.
ClockInv ==
  /\ left <= Rested
  /\ rest <= Rested
  /\ \A r \in Requests : Holds(r) => cooldown >= 0
  /\ left + rest >= Rested \/ \E r \in Requests : pc[r] = "recording"
  /\ \A r \in Requests : pc[r] = "recording" => renewed = Requests
  /\ \A r \in Requests \ renewed : hint[r] >= left

\* Inductive: what CooldownRespected, RetryHintSuffices and PromiseKept rest on.
IInv == TypeOK /\ TokenInv /\ ClockInv

\* Between the end of one capture and the start of the next at least
\* `cooldown` ticks pass, whichever requests they belong to: next is written
\* before sem is given back, so nobody can pass the check on a stale next.
CooldownRespected ==
  [][\A r \in Requests : pc'[r] = "capturing" /\ pc[r] # "capturing"
        => rest = Rested]_vars

\* A client told to wait that waits as long as it was told is not refused
\* for cooldown again, unless another capture ended in between.
RetryHintSuffices ==
  [][\A r \in Requests : pc'[r] = "refusing" /\ pc[r] # "refusing" /\ hint[r] = 0
        => r \in renewed]_vars

\* The gate becomes free again and again: no path keeps the token.
GateRecovers == []<>(sem = 0)

\* Polling through a cooldown does not prolong it, and clients that only see
\* each other's checks do not keep each other out for ever: as long as
\* someone asks, captures happen.
CapturesHappen ==
  cooldown >= 0 => []<>(\E r \in Requests : pc[r] = "capturing")

\* The request that captures owns the flight. A capture is over, for the
\* specification, when the handler calls release.
Capturing == {r \in Requests : pc[r] = "capturing"}
Promise == INSTANCE SingleFlight WITH
             owner <- IF Capturing = {} THEN NoRequest
                      ELSE CHOOSE r \in Capturing : TRUE

\* Acquire and release are a single flight with a cooldown, whatever happens
\* between their channel operations.
PromiseKept == Promise!Spec

\* docs/capture-reliability.md: during cooldown requests are told `cooldown`
\* (with the time to wait). `busy` is for requests concurrent with another
\* that has passed the cooldown check.
CooldownIsTold ==
  [][\A r \in Requests :
        (answer'[r] = "busy" /\ answer[r] # "busy" /\ left > 0)
        => \E s \in Requests : pc[s] \in {"capturing", "recording", "freeing"}]_vars
=============================================================================
