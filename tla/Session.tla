------------------------------- MODULE Session -------------------------------
(* The reusable snapshot session (internal/memusage/snapshot.go): one loaded  *)
(* graph, many concurrent queries, and Close.  Each method holds the mutex    *)
(* from its first statement to its return; Query fills the two invariant      *)
(* caches on its way, and may give up between them.  Export takes the mutex   *)
(* twice, once in Summary and once in Metadata.                               *)
EXTENDS Answers

CONSTANTS Clients, Calls, NoCall, NoData,
          Sources,   \* the loaded analyses to consider
          NoClient,  \* the mutex is free
          NotCached  \* invariantReach.global or .system is nil

VARIABLES
  source,         \* analysis, labels and diag of the session
  includeSystem,  \* opts.IncludeSystemGoroutines
  open,           \* analysis is not nil
  index,          \* the label index: <<label, goroutine>> pairs
  cache,          \* invariantReach
  lock,           \* the holder of mu
  at,             \* where each client is
  call,           \* what it asked
  found,          \* what its Query computed so far
  reply           \* what it will be told

sourceVars == <<source, includeSystem>>
vars == <<source, includeSystem, open, index, cache, lock, at, call, found, reply>>

Pending == [kind |-> "pending", data |-> NoData]
Refusal(kind) == [kind |-> kind, data |-> NoData]
Reply(data) == [kind |-> "answer", data |-> data]

Nothing == [matched |-> {}, reachable |-> {}, global |-> {}, system |-> {}]
EmptyCache == [global |-> NotCached, system |-> NotCached]

\* The points at which a client does not hold mu, and does.
Outside == {"idle", "called", "summarized", "done"}
Inside == {"entered", "matched", "weighed", "compared", "leaving", "described"}

ASSUME SessionAssumption == NoClient \notin Clients /\ NoCall \notin Calls

-----------------------------------------------------------------------------
(* newSnapshot indexes the labels of the goroutines that may match            *)

BuildIndex(a, inc) == UNION {a.labels[g] \X {g} : g \in Eligible(a, inc)}

Init ==
  /\ source \in Sources
  /\ includeSystem \in BOOLEAN
  /\ open = TRUE
  /\ index = BuildIndex(source, includeSystem)
  /\ cache = EmptyCache
  /\ lock = NoClient
  /\ at = [c \in Clients |-> "idle"]
  /\ call = [c \in Clients |-> NoCall]
  /\ found = [c \in Clients |-> Nothing]
  /\ reply = [c \in Clients |-> Pending]

Move(c, from, to) == at[c] = from /\ at' = [at EXCEPT ![c] = to]

Say(c, r) == reply' = [reply EXCEPT ![c] = r]

-----------------------------------------------------------------------------
(* Slips: one plausible mistake each; no specification uses them.             *)

\* The cache keeps this query's overlap instead of the whole walk.
QueryGlobalKeepingOverlap(c) ==
  /\ found[c].reachable # {}
  /\ Move(c, "matched", "weighed")
  /\ LET global == IF cache.global # NotCached THEN cache.global
                   ELSE Walk(source.globals) \cap found[c].reachable
     IN /\ cache' = [cache EXCEPT !.global = global]
        /\ found' = [found EXCEPT ![c].global = found[c].reachable \cap global]
  /\ UNCHANGED <<sourceVars, open, index, lock, call, reply>>

\* The analysis stays: later queries find an empty index, hence no match.
CloseKeepingAnalysis(c) ==
  /\ Move(c, "entered", "leaving")
  /\ call[c].op = "close"
  /\ index' = {}
  /\ cache' = EmptyCache
  /\ Say(c, Reply(NoData))
  /\ UNCHANGED <<sourceVars, open, lock, call, found>>

CloseKeepingCache(c) ==
  /\ Move(c, "entered", "leaving")
  /\ call[c].op = "close"
  /\ open' = FALSE
  /\ index' = {}
  /\ Say(c, Reply(NoData))
  /\ UNCHANGED <<sourceVars, cache, lock, call, found>>

-----------------------------------------------------------------------------
(* Calls and the mutex                                                        *)

Ask(c) ==
  /\ Move(c, "idle", "called")
  /\ \E k \in Calls : call' = [call EXCEPT ![c] = k]
  /\ UNCHANGED <<sourceVars, open, index, cache, lock, found, reply>>

Enter(c) ==
  /\ lock = NoClient
  /\ lock' = c
  /\ Move(c, "called", "entered")
  /\ UNCHANGED <<sourceVars, open, index, cache, call, found, reply>>

\* The deferred Unlock.  Export goes on to Metadata when Summary succeeded.
Leave(c) ==
  /\ lock' = NoClient
  /\ Move(c, "leaving", IF call[c].op = "export" /\ reply[c].kind = "answer"
                        THEN "summarized" ELSE "done")
  /\ found' = [found EXCEPT ![c] = Nothing]
  /\ UNCHANGED <<sourceVars, open, index, cache, call, reply>>

\* Metadata copies fields that Close does not clear.
Describe(c) ==
  /\ lock = NoClient
  /\ lock' = c
  /\ Move(c, "summarized", "described")
  /\ UNCHANGED <<sourceVars, open, index, cache, call, found, reply>>

Described(c) ==
  /\ lock' = NoClient
  /\ Move(c, "described", "done")
  /\ UNCHANGED <<sourceVars, open, index, cache, call, found, reply>>

Return(c) ==
  /\ Move(c, "done", "idle")
  /\ call' = [call EXCEPT ![c] = NoCall]
  /\ Say(c, Pending)
  /\ UNCHANGED <<sourceVars, open, index, cache, lock, found>>

-----------------------------------------------------------------------------
(* Refusals: each returns with mu held to the deferred Unlock                 *)

ReadsGraph(k) == k.op \notin {"labels", "close"}

\* Top and Shared check their options before anything else; the others look
\* at the context and at Close first.
BadOptions(k) ==
  \/ k.op = "top" /\ (k.by = "none" \/ k.sort \notin Sorts \/ k.limit < 0)
  \/ k.op = "shared" /\ k.limit < 0

\* ValidateRequest, of each selector the call has.
BadSelector(k) ==
  CASE k.op \in {"query", "inspect", "export", "objects", "explaintop"} -> k.want = {}
    [] k.op = "shared" -> {} \in {k.want, k.with}
    [] k.op = "explain" ->
         k.selectors = <<>> \/ {} \in Range(k.selectors) \/ k.object \notin Objects
    [] OTHER -> FALSE

\* Query validates before it looks at the failures; ready() comes first in the
\* others.
RefusalOf(k) ==
  LET failure == FailureError(source, includeSystem)
  IN IF BadOptions(k) THEN "invalid"
     ELSE IF ~open THEN "closed"
     ELSE IF k.op = "query" /\ BadSelector(k) THEN "invalid"
     ELSE IF failure # "none" THEN failure
     ELSE IF BadSelector(k) THEN "invalid"
     ELSE "none"

\* A slip: waiting, with mu held, for a closed session to open again.
RefuseWaiting(c) ==
  /\ at[c] = "entered"
  /\ ReadsGraph(call[c])
  /\ RefusalOf(call[c]) # "none"
  /\ IF RefusalOf(call[c]) = "closed" THEN UNCHANGED <<at, reply>>
     ELSE Move(c, "entered", "leaving") /\ Say(c, Refusal(RefusalOf(call[c])))
  /\ UNCHANGED <<sourceVars, open, index, cache, lock, call, found>>

Refuse(c) ==
  /\ Move(c, "entered", "leaving")
  /\ ReadsGraph(call[c])
  /\ RefusalOf(call[c]) # "none"
  /\ Say(c, Refusal(RefusalOf(call[c])))
  /\ UNCHANGED <<sourceVars, open, index, cache, lock, call, found>>

\* ctx.Err(): on entry and, in a walk, before each object; Query looks again
\* only when its sets are complete.
Cancel(c) ==
  /\ \E p \in {"entered", "compared"} : Move(c, p, "leaving")
  /\ ReadsGraph(call[c]) /\ ~BadOptions(call[c])
  /\ Say(c, Refusal("cancelled"))
  /\ UNCHANGED <<sourceVars, open, index, cache, lock, call, found>>

-----------------------------------------------------------------------------
(* Query                                                                      *)

Candidates(want) == {g \in source.goroutines : \A p \in want : <<p, g>> \in index}

QueryMatch(c) ==
  /\ Move(c, "entered", "matched")
  /\ call[c].op = "query" /\ RefusalOf(call[c]) = "none"
  /\ LET matched == Selected(source, includeSystem, call[c].want)
                    \cap Candidates(call[c].want)
     IN found' = [found EXCEPT ![c] = [Nothing EXCEPT
          !.matched = matched, !.reachable = Walk(RootsOf(source, matched))]]
  /\ UNCHANGED <<sourceVars, open, index, cache, lock, call, reply>>

\* Nothing reachable: neither overlap is computed, nor cached.
QueryNothing(c) ==
  /\ found[c].reachable = {}
  /\ Move(c, "matched", "compared")
  /\ UNCHANGED <<sourceVars, open, index, cache, lock, call, found, reply>>

QueryGlobal(c) ==
  /\ found[c].reachable # {}
  /\ Move(c, "matched", "weighed")
  /\ LET global == IF cache.global # NotCached THEN cache.global
                   ELSE Walk(source.globals)
     IN /\ cache' = [cache EXCEPT !.global = global]
        /\ found' = [found EXCEPT ![c].global = found[c].reachable \cap global]
  /\ UNCHANGED <<sourceVars, open, index, lock, call, reply>>

QuerySystem(c) ==
  /\ Move(c, "weighed", "compared")
  /\ LET system == IF cache.system # NotCached THEN cache.system
                   ELSE Walk(RootsOf(source, source.system))
     IN IF ~includeSystem /\ source.system # {}
        THEN /\ cache' = [cache EXCEPT !.system = system]
             /\ found' = [found EXCEPT ![c].system = found[c].reachable \cap system]
        ELSE UNCHANGED <<cache, found>>
  /\ UNCHANGED <<sourceVars, open, index, lock, call, reply>>

QueryAnswer(c) ==
  /\ Move(c, "compared", "leaving")
  /\ Say(c, Reply(found[c]))
  /\ UNCHANGED <<sourceVars, open, index, cache, lock, call, found>>

-----------------------------------------------------------------------------
(* The other methods read the session and change none of it                   *)

Report(a, inc, k) ==
  CASE k.op \in {"inspect", "export"} -> Inspect(a, inc, k.want)
    [] k.op = "objects" -> ObjectList(a, inc, Surroundings(a, inc, k.want), k.sort, k)
    [] k.op = "shared" -> SharedObjects(a, inc, k)
    [] k.op = "explain" -> Explain(a, inc, k)
    [] k.op = "explaintop" -> ExplainTop(a, inc, k)
    [] k.op = "top" -> TopGroups(a, inc, k.by, k.sort, k.limit)

\* Tabulated, since neither the source nor the options ever change.
Asked == Sources \X BOOLEAN \X {k \in Calls : ReadsGraph(k) /\ k.op # "query"}
Reports ==
  FoldSet(LAMBDA x, table : [table EXCEPT ![x] = Report(x[1], x[2], x[3])],
          [x \in Asked |-> NoData], Asked)

ReportAnswer(c) ==
  /\ Move(c, "entered", "leaving")
  /\ ReadsGraph(call[c]) /\ call[c].op # "query"
  /\ RefusalOf(call[c]) = "none"
  /\ Say(c, Reply(Reports[<<source, includeSystem, call[c]>>]))
  /\ UNCHANGED <<sourceVars, open, index, cache, lock, call, found>>

\* LabelKeys, LabelValues and GoroutineIDs: projections of the index, which
\* is nil, hence empty, after Close.
ListLabels(c) ==
  /\ Move(c, "entered", "leaving")
  /\ call[c].op = "labels"
  /\ Say(c, Reply(index))
  /\ UNCHANGED <<sourceVars, open, index, cache, lock, call, found>>

Close(c) ==
  /\ Move(c, "entered", "leaving")
  /\ call[c].op = "close"
  /\ open' = FALSE
  /\ index' = {}
  /\ cache' = EmptyCache
  /\ Say(c, Reply(NoData))
  /\ UNCHANGED <<sourceVars, lock, call, found>>

-----------------------------------------------------------------------------
Step(c) == Leave(c) \/ Described(c) \/ Return(c) \/ Refuse(c)
           \/ QueryMatch(c) \/ QueryNothing(c) \/ QueryGlobal(c) \/ QuerySystem(c)
           \/ QueryAnswer(c) \/ ReportAnswer(c) \/ ListLabels(c) \/ Close(c)

Next == \E c \in Clients :
          Ask(c) \/ Enter(c) \/ Describe(c) \/ Cancel(c) \/ Step(c)

\* A goroutine that runs goes on, and sync.Mutex hands over in turn to a
\* goroutine that waited for a millisecond, so no waiter is passed over for ever.
Fairness == \A c \in Clients : /\ WF_vars(Step(c))
                               /\ SF_vars(Enter(c))
                               /\ SF_vars(Describe(c))

Spec == Init /\ [][Next]_vars /\ Fairness

-----------------------------------------------------------------------------
(* Properties                                                                 *)

\* Types; the client inside a method is the one that holds mu, so nobody
\* computes on a graph that another client is closing.
TypeOK ==
  /\ source \in Sources /\ includeSystem \in BOOLEAN /\ open \in BOOLEAN
  /\ index \subseteq BuildIndex(source, includeSystem)
  /\ cache \in [global : (SUBSET Objects) \cup {NotCached},
                system : (SUBSET Objects) \cup {NotCached}]
  /\ lock \in Clients \cup {NoClient}
  /\ at \in [Clients -> Outside \cup Inside]
  /\ call \in [Clients -> Calls \cup {NoCall}]
  /\ DOMAIN reply = Clients
  /\ \A c \in Clients :
       /\ at[c] \in Inside => lock = c
       /\ call[c] = NoCall <=> at[c] = "idle"
       /\ reply[c].kind # "pending" <=>
            at[c] \in {"leaving", "summarized", "described", "done"}

\* Close releases what the session held: the label index, and the object sets
\* the caches retain (Close, snapshot.go:174).
ClosedHoldsNothing == ~open => index = {} /\ cache = EmptyCache

\* A cached set is the whole walk of its roots, whichever query filled it and
\* whatever that query selected: the next query intersects it with another set.
CacheIsWhole ==
  /\ cache.global # NotCached => cache.global = Walk(source.globals)
  /\ cache.system # NotCached =>
       /\ ~includeSystem
       /\ cache.system = Walk(RootsOf(source, source.system))

\* A query fills the caches of an open session only: Close waits for mu.
OpenWhileQuerying == \A c \in Clients : at[c] \in {"matched", "weighed"} => open

\* A query past the check of the failures, and every answer, found none that
\* counts.
FailuresChecked ==
  \A c \in Clients :
    \/ at[c] \in {"matched", "weighed", "compared"}
    \/ reply[c].kind = "answer" /\ ReadsGraph(call[c])
    => FailureError(source, includeSystem) = "none"

\* The inductive invariant of SessionProofs.
IInv == /\ TypeOK /\ OpenWhileQuerying /\ CacheIsWhole /\ ClosedHoldsNothing
        /\ FailuresChecked

\* The same goroutines, had those that failed to decode carried L.
Relabelled(L) ==
  [goroutines |-> source.goroutines, system |-> source.system,
   labels |-> [g \in source.goroutines |->
                 IF g \in source.failed THEN L[g] ELSE source.labels[g]]]

AllLabels == UNION {source.labels[g] : g \in source.goroutines}
\* One value at most for each key.
LabelSets == {S \in SUBSET AllLabels : \A p, q \in S : p[1] = q[1] => p = q}

\* An answer computed from the selection does not depend on labels nobody
\* could read: whatever the undecoded goroutines carried, the same goroutines
\* would have been selected (compute.go:313, ready in multibubble.go:95).
Authoritative ==
  \A c \in Clients :
    (reply[c].kind = "answer" /\ ReadsGraph(call[c])) =>
      /\ source.failed \subseteq source.goroutines
      /\ \A L \in [source.failed -> LabelSets] : \A p \in AllLabels :
           Selected(Relabelled(L), includeSystem, {p}) = Selected(source, includeSystem, {p})

\* What there is to be answered, tabulated for TLC.
Answerable == Sources \X BOOLEAN \X Calls
Truths ==
  FoldSet(LAMBDA x, table : [table EXCEPT ![x] = TrueAnswers(x[1], x[2], x[3])],
          [x \in Answerable |-> NoData], Answerable)
Promise == INSTANCE SessionPromise WITH Truth <- Truths

\* Every call takes effect at one instant, gives the true answer, and none
\* after the Close (Query and Close may be called concurrently, snapshot.go:17).
KeepsPromise == Promise!Spec

SourcesAreSound == \A a \in Sources : SoundSource(a)

\* The methods a session has, and their limits after the checks and defaults
\* of objects, memberships, normalized and ExplainTop.  Of these only the limit
\* of a list of objects can be 0, for no limit.
Operations == {"query", "inspect", "export", "objects", "shared", "explain", "explaintop",
               "top", "labels", "close"}
PathLimits(k) == {k.groupLimit, k.maxPaths, k.maxSteps} \subseteq Nat \ {0}
CallIsSound(k) ==
  /\ k.op \in Operations
  /\ k.op \in {"top", "shared"} => k.limit \in Int
  /\ k.op = "objects" => k.limit \in Nat /\ k.groupLimit \in Nat \ {0}
  /\ k.op = "explain" => /\ PathLimits(k) /\ Len(k.selectors) \in Nat
                         /\ DOMAIN k.selectors = 1 .. Len(k.selectors)
  /\ k.op = "explaintop" => /\ PathLimits(k) /\ k.limit \in Nat \ {0}
                            /\ k.representatives \in Nat \ {0}

\* The instances that can be tabulated.
Hypotheses ==
  /\ IsFiniteSet(Sources) /\ IsFiniteSet(Calls)
  /\ GraphIsSound /\ SourcesAreSound /\ \A k \in Calls : CallIsSound(k)

\* What a query under way has found is what it would find alone: the true
\* match, except for the overlaps it has not come to yet.
FoundBy(c) ==
  at[c] \in {"matched", "weighed", "compared"} =>
    LET match == TrueMatch(source, includeSystem, call[c].want)
    IN /\ open /\ call[c].op = "query" /\ call[c].want # {}
       /\ found[c] = [matched |-> match.matched, reachable |-> match.reachable,
            global |-> IF at[c] = "matched" THEN {} ELSE match.global,
            system |-> IF at[c] \in {"matched", "weighed"} THEN {} ELSE match.system]

\* What SessionProofs adds to IInv to show KeepsPromise.
PromiseInv ==
  /\ index = IF open THEN BuildIndex(source, includeSystem) ELSE {}
  /\ DOMAIN found = Clients
  /\ \A c \in Clients : at[c] \notin {"leaving", "summarized", "described", "done"}
                        => reply[c] = Pending
  /\ \A c \in Clients : FoundBy(c)

\* Every call returns, to whatever the others do with the mutex.
Answered == \A c \in Clients : at[c] = "called" ~> at[c] = "idle"

==============================================================================
