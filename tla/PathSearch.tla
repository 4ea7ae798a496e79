----------------------------- MODULE PathSearch -----------------------------
(***************************************************************************)
(* internal/snapshotgraph/path.go: FindPath, the bounded breadth-first     *)
(* search behind every explanation, and the status that memusage/          *)
(* explain.go reports for it. Objects and lists are those of Reach: ids    *)
(* that index nothing, cycles and duplicates included.                     *)
(*                                                                         *)
(* One step handles one root, one child or one object of the witness. The  *)
(* slots of the references along the witness are left out. The stacks of   *)
(* an export (ExportForest) are those of the same graph and goroutines,    *)
(* whose roots an export takes in another order.                           *)
(***************************************************************************)
EXTENDS Integers, Sequences, FiniteSets, Functions, ExportForest

CONSTANTS
  N, ChildLists, RootLists,
  OwnerLists, \* goroutine ids, one per root
  Targets,    \* object ids asked for
  Limits,     \* values of maxVisited; 0 is no limit
  PathDepths, \* values of MaxPathDepth of an export; 0 is no limit, 1 is refused
  NoObject    \* an entry of seen that is a root's

ASSUME SizeAssumption == N \in Nat
ASSUME ListsAssumption == ChildLists \subseteq Seq(Int) /\ RootLists \subseteq Seq(Int)
ASSUME OwnersAssumption == OwnerLists \subseteq Seq(Nat)
ASSUME LimitsAssumption == Limits \subseteq Nat
ASSUME DepthsAssumption == PathDepths \subseteq Nat \ {1}
ASSUME NoObjectAssumption == NoObject \notin 0 .. N - 1

VARIABLES
  children, roots, owner, target, maxVisited,
  at,         \* the loop the search is in
  seen,       \* the predecessor of each visited object, and its root index
  queue, root, head, child,
  limited,    \* an object was left out
  id,         \* the object the witness loop is at
  path,       \* Witness.Objects, built from its end
  status      \* what path() in explain.go reports

input == <<children, roots, owner, target, maxVisited>>
vars == <<children, roots, owner, target, maxVisited, at, seen, queue, root, head, child,
          limited, id, path, status>>

Objects == 0 .. N - 1
validID(o) == o \in Objects

Init ==
  /\ children \in [Objects -> ChildLists]
  /\ roots \in RootLists /\ target \in Targets /\ maxVisited \in Limits
  /\ owner \in OwnerLists /\ Len(owner) = Len(roots)
  /\ at = "roots"
  /\ seen = <<>> /\ queue = <<>>
  /\ root = 1 /\ head = 1 /\ child = 1
  /\ limited = FALSE
  /\ id = NoObject /\ path = <<>>
  /\ status = "searching"

Visited == DOMAIN seen

Visit(o, p) == /\ seen' = [x \in Visited \cup {o} |-> IF x = o THEN p ELSE seen[x]]
               /\ queue' = Append(queue, o)

(* Slips: one plausible mistake each; no specification uses them.           *)

AddLimitedFirst(o, p) ==
  IF ~validID(o) THEN UNCHANGED <<seen, queue, limited>>
  ELSE IF maxVisited > 0 /\ Cardinality(Visited) >= maxVisited
  THEN limited' = TRUE /\ UNCHANGED <<seen, queue>>
  ELSE IF o \in Visited THEN UNCHANGED <<seen, queue, limited>>
  ELSE Visit(o, p) /\ UNCHANGED limited

\* Invalid and seen ids are skipped before the limit is looked at.
Add(o, p) ==
  IF ~validID(o) \/ o \in Visited THEN UNCHANGED <<seen, queue, limited>>
  ELSE IF maxVisited > 0 /\ Cardinality(Visited) >= maxVisited
  THEN limited' = TRUE /\ UNCHANGED <<seen, queue>>
  ELSE Visit(o, p) /\ UNCHANGED limited

Report(s) == at' = "done" /\ status' = s

\* A target that indexes nothing is not searched for.
NoTarget ==
  /\ at = "roots" /\ root = 1 /\ ~validID(target)
  /\ Report("not_reachable")
  /\ UNCHANGED <<input, seen, queue, root, head, child, limited, id, path>>

AddRoot ==
  /\ at = "roots" /\ validID(target)
  /\ root <= Len(roots)
  /\ Add(roots[root], [parent |-> NoObject, root |-> root])
  /\ root' = root + 1
  /\ UNCHANGED <<input, at, head, child, id, path, status>>

RootsAdded ==
  /\ at = "roots" /\ validID(target)
  /\ root > Len(roots)
  /\ at' = "heads"
  /\ UNCHANGED <<input, seen, queue, root, head, child, limited, id, path, status>>

\* The target at the head of the queue ends the search.
Find ==
  /\ at = "heads" /\ head <= Len(queue) /\ queue[head] = target
  /\ at' = "trace" /\ id' = target
  /\ UNCHANGED <<input, seen, queue, root, head, child, limited, path, status>>

Expand ==
  /\ at = "heads" /\ head <= Len(queue) /\ queue[head] # target
  /\ at' = "children" /\ child' = 1
  /\ UNCHANGED <<input, seen, queue, root, head, limited, id, path, status>>

AddChild ==
  /\ at = "children" /\ child <= Len(children[queue[head]])
  /\ Add(children[queue[head]][child],
         [parent |-> queue[head], root |-> seen[queue[head]].root])
  /\ child' = child + 1
  /\ UNCHANGED <<input, at, root, head, id, path, status>>

NextHead ==
  /\ at = "children" /\ child > Len(children[queue[head]])
  /\ at' = "heads" /\ head' = head + 1
  /\ UNCHANGED <<input, seen, queue, root, child, limited, id, path, status>>

\* A slip: the reversal is forgotten.
TraceUnreversed ==
  /\ at = "trace"
  /\ path' = Append(path, id)
  /\ IF seen[id].parent = NoObject
     THEN Report("found") /\ UNCHANGED id
     ELSE id' = seen[id].parent /\ UNCHANGED <<at, status>>
  /\ UNCHANGED <<input, seen, queue, root, head, child, limited>>

\* The loop from the target back to a root, and the reversal after it.
Trace ==
  /\ at = "trace"
  /\ path' = <<id>> \o path
  /\ IF seen[id].parent = NoObject
     THEN Report("found") /\ UNCHANGED id
     ELSE id' = seen[id].parent /\ UNCHANGED <<at, status>>
  /\ UNCHANGED <<input, seen, queue, root, head, child, limited>>

\* path() looks at SearchLimited before Found, which excludes it.
GiveUp ==
  /\ at = "heads" /\ head > Len(queue)
  /\ Report(IF limited THEN "search_limit" ELSE "not_reachable")
  /\ UNCHANGED <<input, seen, queue, root, head, child, limited, id, path>>

\* ctx.Err() before each root, each head and each head's first child.
Cancel ==
  /\ \/ at \in {"roots", "heads"}
     \/ at = "children" /\ child = 1 /\ children[queue[head]] # <<>>
  /\ Report("error")
  /\ UNCHANGED <<input, seen, queue, root, head, child, limited, id, path>>

Step == NoTarget \/ AddRoot \/ RootsAdded \/ Find \/ Expand \/ AddChild \/ NextHead
        \/ Trace \/ GiveUp

Next == Step \/ Cancel

\* The function runs to its end.
Spec == Init /\ [][Next]_vars /\ WF_vars(Step)
-----------------------------------------------------------------------------
(* Properties *)

\* Types; every visited object is queued once and knows a visited
\* predecessor, and never more are visited than maxVisited allows.
TypeOK ==
  /\ children \in [Objects -> ChildLists] /\ roots \in RootLists
  /\ owner \in OwnerLists /\ Len(owner) = Len(roots)
  /\ target \in Targets /\ maxVisited \in Limits
  /\ at \in {"roots", "heads", "children", "trace", "done"}
  /\ Visited \subseteq Objects
  /\ \A o \in Visited : /\ seen[o].parent \in Visited \cup {NoObject}
                        /\ seen[o].root \in 1 .. Len(roots)
  /\ queue \in Seq(Objects) /\ IsInjective(queue) /\ Range(queue) = Visited
  /\ root \in 1 .. Len(roots) + 1 /\ head \in 1 .. Len(queue) + 1
  /\ child \in Nat \ {0}
  /\ path \in Seq(Objects) /\ id \in Objects \cup {NoObject}
  /\ limited \in BOOLEAN
  /\ status \in {"searching", "found", "not_reachable", "search_limit", "error"}
  /\ maxVisited > 0 => Cardinality(Visited) <= maxVisited

ValidRoots == {o \in Objects : \E i \in 1 .. Len(roots) : roots[i] = o}
Edge(o, p) == \E i \in 1 .. Len(children[o]) : children[o][i] = p

Closed(S) == \A o \in S, p \in Objects : Edge(o, p) => p \in S

\* The least set with the roots that references do not lead out of.
Reachable ==
  {o \in Objects : \A S \in SUBSET Objects : ValidRoots \subseteq S /\ Closed(S) => o \in S}

Linked(p) == \A i \in 1 .. Len(p) - 1 : Edge(p[i], p[i + 1])

\* The ends of the paths of at most k objects from the roots.
Within(k) ==
  {o \in Objects : \E j \in 1 .. k : \E p \in [1 .. j -> Objects] :
                    p[1] \in ValidRoots /\ Linked(p) /\ p[j] = o}

\* The witness leads from the root it names to the target.
WitnessIsAPath ==
  status = "found" =>
    /\ target \in Visited /\ Len(path) > 0
    /\ path[1] = roots[seen[target].root] /\ path[Len(path)] = target
    /\ Linked(path)

\* The witness is a path from the root it names to the target, and no path is
\* shorter: "a shortest object-edge path from the supplied roots" (path.go:5),
\* with or without a limit, which cuts the search but does not reorder it.
ShortestWitness ==
  status = "found" =>
    /\ WitnessIsAPath
    /\ target \notin Within(Len(path) - 1)

\* "SearchLimited is never evidence of absence" (path.go:6): absence is only
\* reported of an unreachable target, a limit only when more objects than it
\* allows are reachable.
StatusIsHonest ==
  /\ status = "not_reachable" => target \notin Reachable
  /\ status = "search_limit" => maxVisited > 0 /\ Cardinality(Reachable) > maxVisited

\* A path of k objects leads from root i to the target.
Begins(i, k) ==
  \E p \in [1 .. k -> Objects] : p[1] = roots[i] /\ Linked(p) /\ p[k] = target

\* A stack shows the two ends of a path to the target that is as short as the
\* witness, d objects of it if it has as many, and tells how many it leaves
\* out.  The path is the one of the root it names, and no root of a goroutine with
\* a lower id, or earlier in the same goroutine, begins one that is as short.
ShowsTheEnds(s, d) ==
  /\ s.shown /\ s.root \in 1 .. Len(roots)
  /\ \E middle \in [1 .. s.path.omitted -> Objects] :
       LET p == s.path.prefix \o middle \o s.path.suffix
       IN /\ Len(p) = Len(path) /\ Linked(p)
          /\ p[1] = roots[s.root] /\ p[Len(p)] = target
  /\ s.path.omitted = IF d = 0 \/ Len(path) <= d THEN 0 ELSE Len(path) - d
  /\ \A i \in 1 .. Len(roots) : Before(owner, i, s.root) => ~Begins(i, Len(path))

\* An export has a search of its own and takes the roots in another order than
\* an explanation, so its path need not be the witness.  But it is as short,
\* whatever the depth it is cut to; of those as short its root comes first:
\* "Goroutines are ordered by ID, then roots" (pprof-interop.md:122); and exactly
\* the reachable objects have a stack (export_paths.go:17-20 and :25).
StacksAreHonest ==
  \A d \in PathDepths :
    LET s == Stack(children, roots, owner, target, d)
    IN /\ status = "found" => ShowsTheEnds(s, d)
       /\ status = "not_reachable" => ~s.shown
-----------------------------------------------------------------------------
(* The inductive invariant of the proofs. *)

\* Predecessors lead back to a root, always the same.
SeenInv ==
  /\ Visited \subseteq Reachable
  /\ \A o \in Visited :
       \/ seen[o].parent = NoObject /\ roots[seen[o].root] = o
       \/ /\ seen[o].parent \in Visited /\ Edge(seen[o].parent, o)
          /\ seen[seen[o].parent].root = seen[o].root

\* An object was left out because the search was full, and is still out.
LimitInv ==
  limited => maxVisited > 0 /\ Cardinality(Visited) >= maxVisited /\ Visited # Reachable

\* What has been looked at, unless the limit kept it out, is in.
DoneInv ==
  ~limited =>
    /\ \A i \in 1 .. root - 1 : validID(roots[i]) => roots[i] \in Visited
    /\ \A h \in 1 .. head - 1 : \A p \in Objects : Edge(queue[h], p) => p \in Visited
    /\ at = "children" =>
         \A c \in 1 .. child - 1 :
           validID(children[queue[head]][c]) => children[queue[head]][c] \in Visited

LoopInv ==
  /\ at = "roots" => head = 1
  /\ at \in {"heads", "children"} => root = Len(roots) + 1
  /\ at = "children" => head <= Len(queue)
  /\ at = "children" => queue[head] # target /\ child <= Len(children[queue[head]]) + 1
  /\ \A h \in 1 .. head - 1 : queue[h] # target

\* The queue is in the order of the distance from the roots, and holds those of
\* at most two distances from its head on; an object is one reference further
\* away than its predecessor. The limit changes none of this: once an object
\* was left out, none is added any more.
NearInv ==
  /\ at = "roots" => Visited \subseteq ValidRoots
  /\ \A k \in Nat : \A b \in 1 .. Len(queue) : queue[b] \in Within(k) =>
       \A a \in 1 .. b : queue[a] \in Within(k)
  /\ at \in {"heads", "children"} /\ head <= Len(queue) =>
       \A k \in Nat : queue[head] \in Within(k) =>
         \A b \in 1 .. Len(queue) : queue[b] \in Within(k + 1)
  /\ \A o \in Visited : seen[o].parent # NoObject =>
       \A k \in Nat : o \in Within(k + 1) => seen[o].parent \in Within(k)

\* The witness so far leads from the object after id to the target, and the
\* target is further away than id by its length.
TraceInv ==
  /\ at \notin {"trace", "done"} => path = <<>>
  /\ at = "trace" =>
       /\ id \in Visited /\ target \in Visited /\ seen[id].root = seen[target].root
       /\ \/ path = <<>> /\ id = target
          \/ Len(path) > 0 /\ path[Len(path)] = target /\ Edge(id, path[1]) /\ Linked(path)
       /\ \A k \in Nat : target \in Within(k) =>
            Len(path) <= k /\ id \in Within(k - Len(path))

ReportInv ==
  /\ at # "done" => status = "searching"
  /\ StatusIsHonest
  /\ ShortestWitness

IInv == TypeOK /\ SeenInv /\ LimitInv /\ DoneInv /\ LoopInv /\ NearInv /\ TraceInv /\ ReportInv
=============================================================================
