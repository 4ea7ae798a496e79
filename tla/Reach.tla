-------------------------------- MODULE Reach --------------------------------
(***************************************************************************)
(* internal/snapshotgraph/reachability.go: ReachableFrom, the iterative    *)
(* walk every answer of the analyser rests on. Objects are the indexes of  *)
(* Graph.Objects; roots and children may hold ids that index nothing, and  *)
(* the graph may have cycles, self edges and shared objects.               *)
(*                                                                         *)
(* One step handles one root or one child, in the order of the loops. The  *)
(* names leave those of ObjectGraph free: both are of snapshotgraph, and   *)
(* ObjectGraphProofs proves about both.                                    *)
(***************************************************************************)
EXTENDS Integers, Sequences

CONSTANTS
  N,           \* len(g.Objects)
  ChildLists,  \* values of Object.Children under consideration
  RootLists    \* the object ids of the roots slices under consideration

ASSUME NAssumption == N \in Nat
ASSUME ListsAssumption == ChildLists \subseteq Seq(Nat) /\ RootLists \subseteq Seq(Nat)

VARIABLES
  childrenOf,  \* Children of each object
  rootIDs,     \* ObjectID of each root
  reachable,   \* the map the function returns
  queue,
  root,        \* index of the next root in the first loop
  head,        \* index into queue in the second loop
  child        \* index of the next child of queue[head]

graph == <<childrenOf, rootIDs>>
walkVars == <<childrenOf, rootIDs, reachable, queue, root, head, child>>

Objects == 0 .. N - 1

\* Graph.validID
validID(id) == id \in Objects

WalkInit ==
  /\ childrenOf \in [Objects -> ChildLists]
  /\ rootIDs \in RootLists
  /\ reachable = {}
  /\ queue = <<>>
  /\ root = 1
  /\ head = 1
  /\ child = 1

(* Slips: one plausible mistake each; no specification uses them.           *)

AddUnchecked(id) ==
  IF validID(id)
    THEN reachable' = reachable \cup {id} /\ queue' = Append(queue, id)
    ELSE UNCHANGED <<reachable, queue>>

AddUnqueued(id) ==
  IF validID(id) /\ id \notin reachable
    THEN reachable' = reachable \cup {id} /\ UNCHANGED queue
    ELSE UNCHANGED <<reachable, queue>>

\* An invalid id or one seen before is skipped.
Add(id) ==
  IF validID(id) /\ id \notin reachable
    THEN reachable' = reachable \cup {id} /\ queue' = Append(queue, id)
    ELSE UNCHANGED <<reachable, queue>>

AddRoot ==
  /\ root <= Len(rootIDs)
  /\ Add(rootIDs[root])
  /\ root' = root + 1
  /\ UNCHANGED <<graph, head, child>>

RootsAdded == root > Len(rootIDs)

AddChild ==
  /\ RootsAdded
  /\ head <= Len(queue)
  /\ child <= Len(childrenOf[queue[head]])
  /\ Add(childrenOf[queue[head]][child])
  /\ child' = child + 1
  /\ UNCHANGED <<graph, root, head>>

NextHeadStaying ==
  /\ RootsAdded
  /\ head <= Len(queue)
  /\ child > Len(childrenOf[queue[head]])
  /\ child' = 1
  /\ UNCHANGED <<graph, reachable, queue, root, head>>

NextHead ==
  /\ RootsAdded
  /\ head <= Len(queue)
  /\ child > Len(childrenOf[queue[head]])
  /\ head' = head + 1
  /\ child' = 1
  /\ UNCHANGED <<graph, reachable, queue, root>>

WalkNext == AddRoot \/ AddChild \/ NextHead

WalkSpec == WalkInit /\ [][WalkNext]_walkVars /\ WF_walkVars(WalkNext)
-----------------------------------------------------------------------------
(* Properties *)

WalkDone == RootsAdded /\ head > Len(queue)

\* Only valid ids are collected and queued, and the indices stay in range.
WalkTypeOK ==
  /\ childrenOf \in [Objects -> Seq(Nat)]
  /\ rootIDs \in Seq(Nat)
  /\ reachable \subseteq Objects
  /\ queue \in Seq(Objects)
  /\ root \in 1 .. Len(rootIDs) + 1
  /\ head \in 1 .. Len(queue) + 1
  /\ child \in Nat \ {0}

\* S holds every valid root and every valid child of its members.
ContainsRoots(S) ==
  \A i \in 1 .. Len(rootIDs) : validID(rootIDs[i]) => rootIDs[i] \in S
Closed(S) ==
  \A o \in S : \A i \in 1 .. Len(childrenOf[o]) :
    validID(childrenOf[o][i]) => childrenOf[o][i] \in S

\* When the walk ends, reachable is the least closed set with the roots: no
\* object reachable from a root is missed and none is counted that is not
\* reachable, whatever the order and the cycles.
Exact ==
  WalkDone =>
    /\ ContainsRoots(reachable)
    /\ Closed(reachable)
    /\ \A S \in SUBSET Objects :
          ContainsRoots(S) /\ Closed(S) => reachable \subseteq S

\* Each object is queued once, so the walk is linear in objects and edges and
\* a cycle does not keep it going.
VisitedOnce ==
  \A i, j \in 1 .. Len(queue) : queue[i] = queue[j] => i = j

\* The walk ends on every graph, cyclic or not.
Terminates == <>WalkDone

\* The parts of the inductive invariant.
QueueInv ==
  /\ \A i \in 1 .. Len(queue) : queue[i] \in reachable
  /\ \A o \in reachable : \E i \in 1 .. Len(queue) : queue[i] = o
  /\ (head > 1 \/ child > 1) => RootsAdded

RootsInv ==
  \A i \in 1 .. Len(rootIDs) : i < root /\ validID(rootIDs[i]) => rootIDs[i] \in reachable

\* Every child of an object before head is in, and those of the head's
\* children the inner loop has passed.
ClosureInv ==
  \A i \in 1 .. Len(queue) : \A c \in 1 .. Len(childrenOf[queue[i]]) :
    (i < head \/ (i = head /\ c < child)) /\ validID(childrenOf[queue[i]][c])
      => childrenOf[queue[i]][c] \in reachable

LeastInv ==
  \A S \in SUBSET Objects : ContainsRoots(S) /\ Closed(S) => reachable \subseteq S

WalkInv == WalkTypeOK /\ VisitedOnce /\ QueueInv /\ RootsInv /\ ClosureInv /\ LeastInv
=============================================================================
