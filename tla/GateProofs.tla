----------------------------- MODULE GateProofs -----------------------------
(***************************************************************************)
(* Theorems about Gate for every set of requests, every configured         *)
(* cooldown and every length of a second.                                  *)
(*                                                                         *)
(* The inductive invariant is IInv of Gate: types, the token, and what     *)
(* relates the two clocks. `left` counts down what the gate remembers,     *)
(* `rest` counts up what really passed; together they never fall short of  *)
(* the cooldown, except between the end of a capture and the moment        *)
(* release writes next, when the token keeps everybody else out.           *)
(***************************************************************************)
EXTENDS Gate, TLAPS

\* The length of the window a capture leaves is a number of ticks.
LEMMA RestedNat ==
  ASSUME TypeOK PROVE Rested \in Nat /\ (cooldown < 0 => Rested = 0)
BY CooldownsAssumption DEF TypeOK, Rested

\* Rounding the wait up to whole seconds never tells a client to come early.
LEMMA RoundedUp ==
  ASSUME NEW d \in Nat
  PROVE  /\ RetryAfterSeconds(d) * Second \in Nat
         /\ RetryAfterSeconds(d) * Second >= d
<1> DEFINE q == d \div Second
           m == d % Second
<1>1. /\ q \in Nat
      /\ m \in 0 .. Second - 1
      /\ d = Second * q + m
  BY SecondAssumption
<1>2. RetryAfterSeconds(d) = q + (IF m # 0 THEN 1 ELSE 0)
  BY DEF RetryAfterSeconds
<1> HIDE DEF q, m
<1>3. CASE m = 0
  BY <1>1, <1>2, <1>3, SecondAssumption
<1>4. CASE m # 0
  <2>1. RetryAfterSeconds(d) * Second = q * Second + Second
    BY <1>1, <1>2, <1>4, SecondAssumption
  <2> QED
    BY <1>1, <2>1, SecondAssumption
<1> QED
  BY <1>3, <1>4

-----------------------------------------------------------------------------
\* Every reachable state of the gate is well typed.
THEOREM TypeCorrect == Spec => []TypeOK
<1>1. Init => TypeOK
  BY CooldownsAssumption DEF Init, TypeOK, Rested, Steps, Answers
<1>2. TypeOK /\ [Next]_vars => TypeOK'
  <2> SUFFICES ASSUME TypeOK, [Next]_vars PROVE TypeOK'
    OBVIOUS
  <2>1. Rested \in Nat
    BY RestedNat
  <2>2. ASSUME NEW r \in Requests, Ask(r) PROVE TypeOK'
    BY <2>2 DEF TypeOK, Ask, RejectConfiguration, RejectBusy, Enter, Goto, Told,
       gateVars, historyVars, Steps, Answers
  <2>3. ASSUME NEW r \in Requests, FindCooldown(r) PROVE TypeOK'
    <3>1. RetryAfterSeconds(left) * Second \in Nat
      BY RoundedUp DEF TypeOK
    <3> QED
      BY <2>3, <3>1 DEF TypeOK, FindCooldown, Goto, gateVars, Steps
  <2>4. ASSUME NEW r \in Requests, Admit(r) \/ Refuse(r) \/ Finish(r) \/ Free(r)
        PROVE TypeOK'
    BY <2>4 DEF TypeOK, Admit, Refuse, Finish, Free, Goto, Told, gateVars,
       historyVars, Steps, Answers
  <2>5. ASSUME NEW r \in Requests, Record(r) PROVE TypeOK'
    BY <2>5, <2>1 DEF TypeOK, Record, Goto, historyVars, Steps
  <2>6. CASE Tick
    BY <2>6, <2>1 DEF TypeOK, Tick, Down
  <2>7. CASE UNCHANGED vars
    BY <2>7 DEF vars, TypeOK
  <2> QED
    BY <2>2, <2>3, <2>4, <2>5, <2>6, <2>7 DEF Next, Step, Check
<1> QED
  BY <1>1, <1>2, PTL DEF Spec

-----------------------------------------------------------------------------
\* The inductive invariant holds initially.
LEMMA InitIInv == Init => IInv
<1> SUFFICES ASSUME Init PROVE IInv
  OBVIOUS
<1>1. TypeOK
  BY CooldownsAssumption DEF Init, TypeOK, Rested, Steps, Answers
<1>2. TokenInv
  BY DEF Init, TokenInv, Holds
<1>3. ClockInv
  BY <1>1, RestedNat DEF Init, ClockInv, Holds
<1> QED
  BY <1>1, <1>2, <1>3 DEF IInv

\* Every step keeps exactly the holder's token.
LEMMA TokenStep == IInv /\ [Next]_vars => TokenInv'
<1> SUFFICES ASSUME IInv, [Next]_vars PROVE TokenInv'
  OBVIOUS
<1> USE DEF IInv, TypeOK, TokenInv, Holds, Goto, Steps
<1>1. ASSUME NEW r \in Requests, RejectConfiguration(r) \/ RejectBusy(r)
      PROVE  TokenInv'
  BY <1>1 DEF RejectConfiguration, RejectBusy, gateVars
<1>2. ASSUME NEW r \in Requests, Enter(r) PROVE TokenInv'
  BY <1>2 DEF Enter
<1>3. ASSUME NEW r \in Requests, FindCooldown(r) \/ Admit(r) PROVE TokenInv'
  BY <1>3 DEF FindCooldown, Admit, gateVars
<1>4. ASSUME NEW r \in Requests, Refuse(r) \/ Free(r) PROVE TokenInv'
  BY <1>4 DEF Refuse, Free
<1>5. ASSUME NEW r \in Requests, Finish(r) \/ Record(r) PROVE TokenInv'
  BY <1>5 DEF Finish, Record, gateVars
<1>6. CASE Tick
  BY <1>6 DEF Tick
<1>7. CASE UNCHANGED vars
  BY <1>7 DEF vars
<1> QED
  BY <1>1, <1>2, <1>3, <1>4, <1>5, <1>6, <1>7 DEF Next, Ask, Step, Check

\* Every step keeps the two clocks together.
LEMMA ClockStep == IInv /\ [Next]_vars => ClockInv'
<1> SUFFICES ASSUME IInv, [Next]_vars PROVE ClockInv'
  OBVIOUS
<1>0. /\ Rested \in Nat
      /\ cooldown' = cooldown => Rested' = Rested
  BY RestedNat DEF IInv, Rested
<1> USE <1>0 DEF IInv, TypeOK, ClockInv, Holds, Goto, Steps
<1>1. ASSUME NEW r \in Requests, RejectConfiguration(r) \/ RejectBusy(r)
      PROVE  ClockInv'
  BY <1>1 DEF RejectConfiguration, RejectBusy, gateVars, historyVars
<1>2. ASSUME NEW r \in Requests, Enter(r) PROVE ClockInv'
  BY <1>2, CooldownsAssumption DEF Enter, historyVars
<1>3. ASSUME NEW r \in Requests, FindCooldown(r) PROVE ClockInv'
  <2>1. /\ RetryAfterSeconds(left) * Second \in Nat
        /\ RetryAfterSeconds(left) * Second >= left
    BY RoundedUp
  <2>2. \A s \in Requests : pc'[s] = "recording" => FALSE
    BY <1>3 DEF FindCooldown, TokenInv
  <2> DEFINE w == RetryAfterSeconds(left) * Second
  <2>3. hint' = [hint EXCEPT ![r] = w]
    BY <1>3 DEF FindCooldown
  <2> HIDE DEF w
  <2>4. \A s \in Requests \ renewed' : hint'[s] >= left'
    BY <1>3, <2>1, <2>3 DEF FindCooldown, gateVars, w
  <2> QED
    BY <1>3, <2>2, <2>4 DEF FindCooldown, gateVars, TokenInv
<1>4. ASSUME NEW r \in Requests, Admit(r) PROVE ClockInv'
  BY <1>4 DEF Admit, gateVars, historyVars
<1>5. ASSUME NEW r \in Requests, Refuse(r) \/ Free(r) PROVE ClockInv'
  BY <1>5 DEF Refuse, Free, historyVars
<1>6. ASSUME NEW r \in Requests, Finish(r) PROVE ClockInv'
  BY <1>6 DEF Finish, gateVars
<1>7. ASSUME NEW r \in Requests, Record(r) PROVE ClockInv'
  BY <1>7 DEF Record, historyVars, TokenInv
<1>8. CASE Tick
  BY <1>8 DEF Tick, Down
<1>9. CASE UNCHANGED vars
  BY <1>9 DEF vars
<1> QED
  BY <1>1, <1>2, <1>3, <1>4, <1>5, <1>6, <1>7, <1>8, <1>9
  DEF Next, Ask, Step, Check

LEMMA Inductive == Spec => []IInv
<1>1. IInv /\ TypeOK' /\ [Next]_vars => IInv'
  BY TokenStep, ClockStep DEF IInv
<1> QED
  BY InitIInv, TypeCorrect, <1>1, PTL DEF Spec

\* One request at most is past the select, the token is in the channel
\* exactly then, and neither receive of the gate can block.
THEOREM TokenKept == Spec => []TokenInv
<1>1. IInv => TokenInv
  BY DEF IInv
<1> QED
  BY Inductive, <1>1, PTL

\* The gate's remembered window covers the part of the cooldown that has not
\* passed, and each client's hint covers the remembered window.
THEOREM ClocksAgree == Spec => []ClockInv
<1>1. IInv => ClockInv
  BY DEF IInv
<1> QED
  BY Inductive, <1>1, PTL

\* A capture never starts before the cooldown after the last one has passed.
THEOREM CooldownHolds == Spec => CooldownRespected
<1> DEFINE A == \A r \in Requests : pc'[r] = "capturing" /\ pc[r] # "capturing"
                   => rest = Rested
<1>1. IInv /\ [Next]_vars => [A]_vars
  <2> SUFFICES ASSUME IInv, Next,
                      NEW r \in Requests, pc'[r] = "capturing", pc[r] # "capturing"
               PROVE  rest = Rested
    OBVIOUS
  <2>1. Admit(r)
    BY DEF IInv, TypeOK, Next, Ask, Step, Check, RejectConfiguration, RejectBusy,
       Enter, FindCooldown, Admit, Refuse, Finish, Record, Free, Tick, Goto, Steps
  <2>2. left = 0 /\ \A s \in Requests : pc[s] # "recording"
    BY <2>1 DEF IInv, TokenInv, Holds, Admit, Goto
  <2> QED
    BY <2>2, RestedNat DEF IInv, ClockInv, TypeOK
<1> QED
  BY Inductive, <1>1, PTL DEF Spec, CooldownRespected

\* A client that waits as told is not refused for cooldown again unless
\* another capture ended meanwhile.
THEOREM HintSuffices == Spec => RetryHintSuffices
<1> DEFINE A == \A r \in Requests : pc'[r] = "refusing" /\ pc[r] # "refusing"
                     /\ hint[r] = 0 => r \in renewed
<1>1. IInv /\ [Next]_vars => [A]_vars
  <2> SUFFICES ASSUME IInv, Next,
                      NEW r \in Requests, pc'[r] = "refusing", pc[r] # "refusing",
                      hint[r] = 0
               PROVE  r \in renewed
    OBVIOUS
  <2>1. FindCooldown(r)
    BY DEF IInv, TypeOK, Next, Ask, Step, Check, RejectConfiguration, RejectBusy,
       Enter, FindCooldown, Admit, Refuse, Finish, Record, Free, Tick, Goto, Steps
  <2> QED
    BY <2>1 DEF IInv, ClockInv, TypeOK, FindCooldown
<1> QED
  BY Inductive, <1>1, PTL DEF Spec, RetryHintSuffices

-----------------------------------------------------------------------------
\* The refinement mapping's owner is the one capturing request, if any.
CurrentOwner == IF Capturing = {} THEN NoRequest
                ELSE CHOOSE r \in Capturing : TRUE

LEMMA OwnerIsCapturer ==
  ASSUME IInv
  PROVE  /\ \A r \in Requests : pc[r] = "capturing" => CurrentOwner = r
         /\ (\A r \in Requests : pc[r] # "capturing") => CurrentOwner = NoRequest
BY DEF IInv, TokenInv, Holds, CurrentOwner, Capturing

\* The gate implements the single flight with cooldown: every behaviour of
\* the gate is one of SingleFlight, steps inside Acquire and release being
\* stutters of it.
THEOREM GateImplementsSingleFlight == Spec => PromiseKept
<1>1. Init => Promise!Init
  BY DEF Init, Promise!Init, Capturing, Rested, Promise!Rested
<1>2. IInv /\ IInv' /\ [Next]_vars => [Promise!Next]_(Promise!vars)
  <2> SUFFICES ASSUME IInv, IInv', [Next]_vars
               PROVE  Promise!Next \/ UNCHANGED Promise!vars
    OBVIOUS
  <2> DEFINE o == CurrentOwner
  <2>0. /\ \A r \in Requests : pc[r] = "capturing" => o = r
        /\ (\A r \in Requests : pc[r] # "capturing") => o = NoRequest
        /\ \A r \in Requests : pc'[r] = "capturing" => o' = r
        /\ (\A r \in Requests : pc'[r] # "capturing") => o' = NoRequest
    BY OwnerIsCapturer DEF IInv, TokenInv, Holds, CurrentOwner, Capturing
  <2>s. ASSUME UNCHANGED <<cooldown, rest>>,
               \A r \in Requests : pc'[r] = "capturing" <=> pc[r] = "capturing"
        PROVE  UNCHANGED Promise!vars
    <3>1. o' = o
      BY <2>0, <2>s
    <3> QED
      BY <2>s, <3>1 DEF Promise!vars, CurrentOwner
  <2>1. ASSUME NEW r \in Requests, Ask(r) \/ FindCooldown(r) \/ Refuse(r) \/ Record(r) \/ Free(r)
        PROVE  UNCHANGED Promise!vars
    BY <2>1, <2>s DEF IInv, TypeOK, Ask, RejectConfiguration, RejectBusy, Enter,
       FindCooldown, Refuse, Record, Free, Goto, gateVars, historyVars
  <2>2. ASSUME NEW r \in Requests, Admit(r) PROVE Promise!Start(r)
    <3>1. pc[r] = "checking" /\ pc'[r] = "capturing" /\ left = 0
      BY <2>2 DEF IInv, TypeOK, Admit, Goto
    <3>2. o = NoRequest /\ o' = r
      BY <3>1, <2>0 DEF IInv, TokenInv, Holds
    <3>3. cooldown >= 0 /\ rest = Rested
      BY <3>1, RestedNat DEF IInv, TokenInv, ClockInv, Holds, TypeOK
    <3>4. UNCHANGED <<cooldown, rest>>
      BY <2>2 DEF Admit, gateVars, historyVars
    <3> QED
      BY <3>2, <3>3, <3>4 DEF Promise!Start, CurrentOwner, Rested, Promise!Rested
  <2>3. ASSUME NEW r \in Requests, Finish(r) PROVE Promise!End(r)
    <3>1. /\ pc[r] = "capturing"
          /\ pc' = [pc EXCEPT ![r] = "recording"]
          /\ rest' = 0
          /\ UNCHANGED cooldown
      BY <2>3 DEF Finish, Goto, gateVars
    <3>2. \A s \in Requests : pc'[s] # "capturing"
      BY <3>1 DEF IInv, TokenInv, Holds, TypeOK
    <3>3. o = r /\ o' = NoRequest
      BY <3>1, <3>2, <2>0
    <3> QED
      BY <3>1, <3>3 DEF Promise!End, CurrentOwner
  <2>4. CASE Tick
    <3>1. UNCHANGED <<cooldown, pc>> /\ rest' = IF rest < Rested THEN rest + 1 ELSE rest
      BY <2>4 DEF Tick
    <3>2. o' = o
      BY <3>1 DEF CurrentOwner, Capturing
    <3>3. CASE rest < Rested
      BY <3>1, <3>2, <3>3 DEF Promise!Next, Promise!Tick, CurrentOwner, Rested, Promise!Rested
    <3>4. CASE ~(rest < Rested)
      BY <3>1, <3>2, <3>4 DEF Promise!vars, CurrentOwner
    <3> QED
      BY <3>3, <3>4
  <2>5. CASE UNCHANGED vars
    BY <2>5, <2>s DEF vars
  <2> QED
    BY <2>1, <2>2, <2>3, <2>4, <2>5 DEF Next, Step, Check, Promise!Next
<1> QED
  BY <1>1, <1>2, Inductive, PTL DEF Spec, PromiseKept, Promise!Spec
=============================================================================
