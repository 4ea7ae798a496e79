---------------------------- MODULE SingleFlight ----------------------------
(***************************************************************************)
(* What the shared capture gate promises the process it lives in, with     *)
(* none of its mechanism: at most one capture runs at a time, and between  *)
(* the end of one capture and the start of the next at least `cooldown`    *)
(* ticks of the clock pass.                                                *)
(***************************************************************************)
EXTENDS Integers

CONSTANTS
  Requests,   \* goroutines serving a request
  NoRequest,  \* the owner when no capture runs
  Cooldowns   \* the cooldowns an application may configure

VARIABLES
  cooldown,   \* the configured cooldown; negative is a configuration error
  owner,      \* the request whose capture runs
  rest        \* ticks since the last capture ended, counted up to cooldown

vars == <<cooldown, owner, rest>>

\* The rest after which a capture may start.
Rested == IF cooldown > 0 THEN cooldown ELSE 0

Init ==
  /\ cooldown \in Cooldowns
  /\ owner = NoRequest
  /\ rest = Rested          \* nothing ran before: the first capture may start

Start(r) ==
  /\ cooldown >= 0
  /\ owner = NoRequest
  /\ rest = Rested
  /\ owner' = r
  /\ UNCHANGED <<cooldown, rest>>

End(r) ==
  /\ owner = r
  /\ owner' = NoRequest
  /\ rest' = 0
  /\ UNCHANGED cooldown

Tick ==
  /\ rest < Rested
  /\ rest' = rest + 1
  /\ UNCHANGED <<cooldown, owner>>

Next ==
  \/ \E r \in Requests : Start(r) \/ End(r)
  \/ Tick

Spec == Init /\ [][Next]_vars
=============================================================================
