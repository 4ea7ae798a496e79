---------------------------- MODULE SessionPromise ----------------------------
(* What a snapshot session promises its clients, whatever it caches and       *)
(* however they interleave: every call takes effect at one instant between    *)
(* its start and its return, with an answer that is true of the loaded        *)
(* analysis, or a refusal whose reason holds; once a Close has taken effect   *)
(* nothing is answered from the analysis.                                     *)

CONSTANTS Clients,  \* goroutines that hold the session
          Calls,    \* the calls they make, records with a field op
          Truth,    \* the answers of <<analysis, includeSystem, call>>
          NoCall,   \* no call under way
          NoData    \* the data of a refusal, and of Close

VARIABLES
  source,         \* the loaded analysis
  includeSystem,  \* Options.IncludeSystemGoroutines
  open,           \* no Close has taken effect
  call,           \* what each client asked
  reply           \* what it was told

vars == <<source, includeSystem, open, call, reply>>

Pending == [kind |-> "pending", data |-> NoData]
Refusal(kind) == [kind |-> kind, data |-> NoData]
Reply(data) == [kind |-> "answer", data |-> data]

True(k) == Truth[<<source, includeSystem, k>>]

\* The goroutines whose labels cannot matter.
Ignored == IF includeSystem THEN {} ELSE source.system

\* A client may give up at any time; labels that could not be decoded excuse
\* a refusal when they might have mattered.
Excuses(k) ==
  {"cancelled"} \cup (IF open THEN {} ELSE {"closed"})
  \cup (IF True(k) = {} THEN {"invalid"} ELSE {})
  \cup (IF open /\ ~(source.missing \subseteq Ignored) THEN {"string_missing"} ELSE {})
  \cup (IF open /\ ~(source.failed \subseteq Ignored) THEN {"label_recovery_failed"}
        ELSE {})

Outcomes(k) ==
  CASE k.op = "close" -> {Reply(NoData)}
    [] k.op = "labels" -> {Reply(d) : d \in IF open THEN True(k) ELSE {{}}}
    [] OTHER -> {Refusal(e) : e \in Excuses(k)}
                \cup {Reply(d) : d \in IF open THEN True(k) ELSE {}}

Init == /\ open = TRUE
        /\ call = [c \in Clients |-> NoCall]
        /\ reply = [c \in Clients |-> Pending]

Ask(c) == /\ call[c] = NoCall
          /\ \E k \in Calls : call' = [call EXCEPT ![c] = k]
          /\ UNCHANGED <<open, reply>>

\* The instant a call takes effect.
Decide(c) == /\ call[c] # NoCall /\ reply[c] = Pending
             /\ \E r \in Outcomes(call[c]) : reply' = [reply EXCEPT ![c] = r]
             /\ open' = (open /\ call[c].op # "close")
             /\ UNCHANGED call

Return(c) == /\ reply[c] # Pending
             /\ call' = [call EXCEPT ![c] = NoCall]
             /\ reply' = [reply EXCEPT ![c] = Pending]
             /\ UNCHANGED open

Next == /\ \E c \in Clients : Ask(c) \/ Decide(c) \/ Return(c)
        /\ UNCHANGED <<source, includeSystem>>

Spec == Init /\ [][Next]_vars

==============================================================================
