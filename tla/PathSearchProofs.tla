-------------------------- MODULE PathSearchProofs --------------------------
(***************************************************************************)
(* Theorems about PathSearch for graphs of any size, any root list, target *)
(* and limit: a witness is a path and none is shorter, "not reachable" is  *)
(* said only of objects outside the least closed set around the roots, and *)
(* "search limit" only when that set has more members than the limit.      *)
(*                                                                         *)
(* The invariant IInv of PathSearch says what holds half way: predecessors *)
(* lead back to a root (SeenInv), what was looked at is in unless the      *)
(* search was full (DoneInv, LimitInv), the queue is in the order of the   *)
(* distance from the roots (NearInv), and the witness so far leads to the  *)
(* target and is as long as the target is further away (TraceInv).         *)
(*                                                                         *)
(* The last part is about the forest of an export, for any order of the    *)
(* roots. While it grows, its queue stays in the order of depth and, where *)
(* depths are equal, of the roots (Tree, Ahead); when it is whole, no path *)
(* gets to an object before its node does (Closest), and the predecessors  *)
(* of a node are a path of its depth (Descent). So the target is in over   *)
(* as many objects as the witness has, from the first root that is as near *)
(* (FoundNode), and its stack is made of that path.                        *)
(***************************************************************************)
EXTENDS PathSearch, FiniteSetTheorems, TLAPS

\* A sequence with one more element in front.
LEMMA InFront ==
  ASSUME NEW S, NEW s \in Seq(S), NEW e \in S
  PROVE  /\ <<e>> \o s \in Seq(S)
         /\ Len(<<e>> \o s) = Len(s) + 1
         /\ (<<e>> \o s)[1] = e
         /\ \A i \in 1 .. Len(s) : (<<e>> \o s)[i + 1] = s[i]
OBVIOUS

\* Reachable is closed, has the roots, and is part of every such set.
LEMMA ReachableIsLeast ==
  /\ ValidRoots \subseteq Reachable
  /\ Closed(Reachable)
  /\ \A S \in SUBSET Objects : ValidRoots \subseteq S /\ Closed(S) => Reachable \subseteq S
BY DEF Reachable, Closed, ValidRoots

\* Every set of objects has a number of members.
LEMMA FiniteObjects ==
  ASSUME NEW S \in SUBSET Objects
  PROVE  IsFiniteSet(S) /\ Cardinality(S) \in Nat
<1>1. IsFiniteSet(Objects)
  BY SizeAssumption, FS_Interval DEF Objects
<1> QED
  BY <1>1, FS_Subset, FS_CardinalityType

\* A part of a set that is not the whole has fewer members.
LEMMA ProperPart ==
  ASSUME NEW S \in SUBSET Objects, NEW T \in SUBSET S, T # S
  PROVE  Cardinality(T) < Cardinality(S)
<1>1. /\ IsFiniteSet(S) /\ Cardinality(S) \in Nat
      /\ IsFiniteSet(T) /\ Cardinality(T) \in Nat
  BY FiniteObjects
<1> QED
  BY <1>1, FS_Subset

\* What Add does: nothing for an id that is invalid or in; nothing but note it
\* when the search is full; otherwise one more object, with its predecessor,
\* at the end of the queue.
Skips(o) == UNCHANGED <<seen, queue, limited>> /\ (validID(o) => o \in Visited)

LeavesOut(o) ==
  /\ UNCHANGED <<seen, queue>> /\ limited' = TRUE
  /\ validID(o) /\ o \notin Visited
  /\ maxVisited > 0 /\ Cardinality(Visited) >= maxVisited

Adds(o, p) ==
  /\ validID(o) /\ o \notin Visited
  /\ ~(maxVisited > 0 /\ Cardinality(Visited) >= maxVisited)
  /\ Visited' = Visited \cup {o}
  /\ seen'[o] = p /\ \A x \in Visited : seen'[x] = seen[x]
  /\ queue' = Append(queue, o)
  /\ UNCHANGED limited

LEMMA AddEffect ==
  ASSUME NEW o, NEW p, Add(o, p)
  PROVE  Skips(o) \/ LeavesOut(o) \/ Adds(o, p)
BY DEF Add, Skips, LeavesOut, Adds, Visit, Visited

-----------------------------------------------------------------------------
(* Distances *)

\* A function on 1 .. j is a sequence of length j.
LEMMA FunctionIsSequence ==
  ASSUME NEW S, NEW j \in Nat, NEW p \in [1 .. j -> S]
  PROVE  p \in Seq(S) /\ Len(p) = j
OBVIOUS

\* There is no path of no objects; the roots are within one object, and so on.
LEMMA WithinStart == Within(0) = {} /\ \A k \in Nat \ {0} : ValidRoots \subseteq Within(k)
<1>1. Within(0) = {}
  BY DEF Within
<1>2. ASSUME NEW k \in Nat \ {0}, NEW o \in ValidRoots PROVE o \in Within(k)
  <2> DEFINE p == [i \in 1 .. 1 |-> o]
  <2>1. o \in Objects /\ p \in [1 .. 1 -> Objects] /\ p[1] = o
    BY DEF ValidRoots
  <2>2. Linked(p)
    <3>1. Len(p) = 1
      BY <2>1, FunctionIsSequence
    <3> HIDE DEF p
    <3> QED
      BY <3>1 DEF Linked
  <2> HIDE DEF p
  <2>3. 1 \in 1 .. k
    OBVIOUS
  <2> QED
    BY <2>1, <2>2, <2>3 DEF Within
<1> QED
  BY <1>1, <1>2

\* A longer bound admits no fewer objects.
LEMMA WithinGrows ==
  ASSUME NEW k \in Nat, NEW m \in Nat, k <= m PROVE Within(k) \subseteq Within(m)
<1>1. \A j \in 1 .. k : j \in 1 .. m
  OBVIOUS
<1> QED
  BY <1>1 DEF Within

\* A reference leads one object further.
LEMMA WithinEdge ==
  ASSUME NEW k \in Nat, NEW o \in Within(k), NEW x \in Objects, Edge(o, x)
  PROVE  x \in Within(k + 1)
<1>1. PICK j \in 1 .. k : \E p \in [1 .. j -> Objects] :
                             p[1] \in ValidRoots /\ Linked(p) /\ p[j] = o
  BY DEF Within
<1>2. PICK p \in [1 .. j -> Objects] : p[1] \in ValidRoots /\ Linked(p) /\ p[j] = o
  BY <1>1
<1> DEFINE q == [i \in 1 .. j + 1 |-> IF i = j + 1 THEN x ELSE p[i]]
<1>3. q \in [1 .. j + 1 -> Objects] /\ q[1] = p[1] /\ q[j + 1] = x
  OBVIOUS
<1>4. \A i \in 1 .. j : q[i] = p[i]
  OBVIOUS
<1>5. Len(p) = j /\ Len(q) = j + 1
  BY <1>3, FunctionIsSequence
<1>6. Linked(q)
  <2> HIDE DEF q
  <2> SUFFICES ASSUME NEW i \in 1 .. j PROVE Edge(q[i], q[i + 1])
    BY <1>5 DEF Linked
  <2>1. CASE i = j
    BY <1>2, <1>3, <1>4, <2>1
  <2>2. CASE i # j
    <3>1. i \in 1 .. j - 1 /\ i + 1 \in 1 .. j
      BY <2>2
    <3>2. Edge(p[i], p[i + 1])
      BY <1>2, <1>5, <3>1 DEF Linked
    <3> QED
      BY <1>4, <3>1, <3>2
  <2> QED
    BY <2>1, <2>2
<1>7. j + 1 \in 1 .. k + 1
  OBVIOUS
<1> HIDE DEF q
<1> QED
  BY <1>2, <1>3, <1>6, <1>7 DEF Within

\* An object is a root or one reference further than another.
LEMMA WithinBack ==
  ASSUME NEW k \in Nat, NEW x \in Within(k + 1)
  PROVE  x \in ValidRoots \/ \E o \in Within(k) : Edge(o, x)
<1>1. PICK j \in 1 .. k + 1 : \E p \in [1 .. j -> Objects] :
                                 p[1] \in ValidRoots /\ Linked(p) /\ p[j] = x
  BY DEF Within
<1>2. PICK p \in [1 .. j -> Objects] : p[1] \in ValidRoots /\ Linked(p) /\ p[j] = x
  BY <1>1
<1>3. CASE j = 1
  BY <1>2, <1>3
<1>4. CASE j # 1
  <2> DEFINE q == [i \in 1 .. j - 1 |-> p[i]]
  <2>1. j - 1 \in 1 .. k /\ q \in [1 .. j - 1 -> Objects] /\ p[j - 1] \in Objects
    BY <1>4
  <2>2. \A i \in 1 .. j - 1 : q[i] = p[i]
    OBVIOUS
  <2>3. Len(p) = j /\ Len(q) = j - 1
    BY <2>1, FunctionIsSequence
  <2> HIDE DEF q
  <2>4. Linked(q)
    <3> SUFFICES ASSUME NEW i \in 1 .. j - 2 PROVE Edge(q[i], q[i + 1])
      BY <2>3 DEF Linked
    <3>1. i \in 1 .. j - 1 /\ i + 1 \in 1 .. j - 1
      OBVIOUS
    <3>2. Edge(p[i], p[i + 1])
      BY <1>2, <2>3, <3>1 DEF Linked
    <3> QED
      BY <2>2, <3>1, <3>2
  <2>5. q[1] = p[1] /\ q[j - 1] = p[j - 1]
    BY <2>1, <2>2
  <2>6. p[j - 1] \in Within(k)
    BY <1>2, <2>1, <2>4, <2>5 DEF Within
  <2>7. Edge(p[j - 1], p[(j - 1) + 1])
    BY <1>2, <2>1, <2>3 DEF Linked
  <2> QED
    BY <1>2, <2>6, <2>7
<1> QED
  BY <1>3, <1>4

-----------------------------------------------------------------------------
\* Induction over the naturals, for the set of those that have a property.
LEMMA SetInduction ==
  ASSUME NEW S, 0 \in S, \A n \in Nat : n \in S => n + 1 \in S
  PROVE  Nat \subseteq S
<1>1. SUFFICES ASSUME NEW m \in Nat, m \notin S PROVE FALSE
  OBVIOUS
<1> DEFINE F == {T \in SUBSET (0 .. m) : \E i \in 0 .. m : T = 0 .. i /\ i \notin S}
<1>2. 0 .. m \in F
  BY <1>1
<1>3. F \subseteq FiniteSubsetsOf(0 .. m)
  BY FS_Interval, FS_FiniteSubsetsOfFinite
<1>4. PICK T \in F : \A U \in F : ~ (<<U, T>> \in StrictSubsetOrdering(0 .. m))
  <2> HIDE DEF F
  <2> QED BY <1>2, <1>3, FS_StrictSubsetOrderingWellFounded, WFMin
<1>5. PICK i \in 0 .. m : T = 0 .. i /\ i \notin S
  BY <1>4
<1>6. i # 0 /\ i - 1 \in Nat /\ i - 1 \notin S
  BY <1>5
<1>7. 0 .. (i - 1) \in F
  BY <1>5, <1>6
<1>8. <<0 .. (i - 1), T>> \in StrictSubsetOrdering(0 .. m)
  BY <1>5, <1>6 DEF StrictSubsetOrdering
<1> QED BY <1>4, <1>7, <1>8

\* Nothing unseen is nearer than the head of the queue is, by a reference: on
\* the way to it lies an object of the queue whose references are not all in.
LEMMA Frontier ==
  ASSUME IInv, ~limited, at \in {"heads", "children"},
         NEW k \in Nat, NEW x \in Within(k + 1), x \notin Visited
  PROVE  head <= Len(queue) /\ queue[head] \in Within(k)
<1> DEFINE Near(j) == head <= Len(queue) /\ queue[head] \in Within(j)
           S == {j \in Nat : \A y \in Within(j + 1) : y \in Visited \/ Near(j)}
<1>1. /\ queue \in Seq(Objects) /\ Range(queue) = Visited /\ head \in 1 .. Len(queue) + 1
      /\ root = Len(roots) + 1 /\ roots \in Seq(Int)
  BY ListsAssumption DEF IInv, TypeOK, LoopInv
<1>2. ValidRoots \subseteq Visited
  BY <1>1 DEF IInv, DoneInv, ValidRoots, validID
<1>3. ASSUME NEW j \in Nat, NEW y \in Within(j + 1), y \notin Visited,
             NEW o \in Within(j), Edge(o, y), o \in Visited
      PROVE  Near(j)
  <2>1. PICK i \in 1 .. Len(queue) : queue[i] = o
    BY <1>1, <1>3 DEF Range
  <2>2. y \in Objects
    BY DEF Within
  <2>3. ~ (i \in 1 .. head - 1)
    BY <1>3, <2>1, <2>2 DEF IInv, DoneInv
  <2>4. head \in 1 .. i /\ head <= Len(queue)
    BY <1>1, <2>3
  <2> QED
    BY <1>3, <2>1, <2>4 DEF IInv, NearInv
<1>4. 0 \in S
  <2> SUFFICES ASSUME NEW y \in Within(1), y \notin Visited PROVE FALSE
    OBVIOUS
  <2>1. y \in ValidRoots \/ \E o \in Within(0) : Edge(o, y)
    BY WithinBack
  <2> QED
    BY <1>2, <2>1, WithinStart
<1>5. ASSUME NEW j \in Nat, j \in S PROVE j + 1 \in S
  <2> SUFFICES ASSUME NEW y \in Within((j + 1) + 1), y \notin Visited PROVE Near(j + 1)
    OBVIOUS
  <2>1. PICK o \in Within(j + 1) : Edge(o, y)
    BY <1>2, WithinBack
  <2>2. CASE o \in Visited
    <3> HIDE DEF Near
    <3> QED
      BY <1>3, <2>1, <2>2
  <2>3. CASE o \notin Visited
    <3>1. Near(j)
      BY <1>5, <2>3
    <3>2. Within(j) \subseteq Within(j + 1)
      BY WithinGrows
    <3> QED
      BY <3>1, <3>2
  <2> QED
    BY <2>2, <2>3
<1>6. k \in S
  <2> HIDE DEF S
  <2> QED BY <1>4, <1>5, SetInduction
<1> QED
  BY <1>6

-----------------------------------------------------------------------------
\* The parts of the invariant Add keeps, for an object that is reachable if
\* it is valid and a predecessor that leads back to a root.
LEMMA AddKeeps ==
  ASSUME IInv, NEW o, NEW p, Add(o, p), UNCHANGED <<input, head>>,
         validID(o) => o \in Reachable,
         p.root \in 1 .. Len(roots),
         \/ p.parent = NoObject /\ roots[p.root] = o
         \/ /\ p.parent \in Visited /\ Edge(p.parent, o)
            /\ seen[p.parent].root = p.root
  PROVE  /\ Visited \subseteq Visited' /\ Visited' \subseteq Objects
         /\ \A x \in Visited' : /\ seen'[x].parent \in Visited' \cup {NoObject}
                                /\ seen'[x].root \in 1 .. Len(roots)
         /\ queue' \in Seq(Objects) /\ IsInjective(queue') /\ Range(queue') = Visited'
         /\ Len(queue) <= Len(queue') /\ \A i \in 1 .. Len(queue) : queue'[i] = queue[i]
         /\ limited' \in BOOLEAN /\ (limited => limited')
         /\ maxVisited > 0 => Cardinality(Visited') <= maxVisited
         /\ SeenInv' /\ LimitInv'
         /\ validID(o) => o \in Visited' \/ limited'
<1>0. /\ UNCHANGED <<children, roots, owner, target, maxVisited>>
      /\ Reachable' = Reachable
  BY DEF input, Reachable, ValidRoots, Closed, Edge
<1>1. /\ Visited \subseteq Objects /\ queue \in Seq(Objects) /\ IsInjective(queue)
      /\ Range(queue) = Visited /\ limited \in BOOLEAN /\ maxVisited \in Nat
      /\ maxVisited > 0 => Cardinality(Visited) <= maxVisited
      /\ \A x \in Visited : /\ seen[x].parent \in Visited \cup {NoObject}
                            /\ seen[x].root \in 1 .. Len(roots)
      /\ SeenInv /\ LimitInv
  BY LimitsAssumption DEF IInv, TypeOK
<1>2. CASE Skips(o)
  <2>1. UNCHANGED Visited
    BY <1>2 DEF Skips, Visited
  <2> QED
    BY <1>0, <1>1, <1>2, <2>1 DEF Skips, SeenInv, LimitInv, Edge
<1>3. CASE LeavesOut(o)
  <2>1. UNCHANGED Visited
    BY <1>3 DEF LeavesOut, Visited
  <2> QED
    BY <1>0, <1>1, <1>3, <2>1 DEF LeavesOut, SeenInv, LimitInv, Edge
<1>4. CASE Adds(o, p)
  <2>1. /\ o \in Objects /\ o \notin Visited /\ o \in Reachable
        /\ Visited' = Visited \cup {o} /\ seen'[o] = p
        /\ \A x \in Visited : seen'[x] = seen[x]
        /\ queue' = Append(queue, o) /\ limited' = limited
    BY <1>4 DEF Adds, validID
  <2>2. /\ queue' \in Seq(Objects) /\ Len(queue') = Len(queue) + 1
        /\ queue'[Len(queue) + 1] = o /\ \A i \in 1 .. Len(queue) : queue'[i] = queue[i]
    BY <1>1, <2>1
  <2>3. \A i \in 1 .. Len(queue) : queue[i] # o
    BY <1>1, <2>1 DEF Range
  <2>4. IsInjective(queue')
    BY <1>1, <2>2, <2>3 DEF IsInjective
  <2>5. Range(queue') = Visited'
    <3>1. DOMAIN queue' = 1 .. Len(queue) + 1 /\ DOMAIN queue = 1 .. Len(queue)
      BY <1>1, <2>2
    <3> QED
      BY <1>1, <2>1, <2>2, <3>1 DEF Range
  <2>6. Cardinality(Visited') = Cardinality(Visited) + 1 /\ Cardinality(Visited) \in Nat
    BY <1>1, <2>1, FiniteObjects, FS_AddElement
  <2>7. /\ maxVisited > 0 => Cardinality(Visited) < maxVisited
        /\ ~limited
    BY <1>1, <1>4, <2>6 DEF Adds, LimitInv
  <2>8. SeenInv'
    <3>1. Visited' \subseteq Reachable'
      BY <1>0, <1>1, <2>1 DEF SeenInv
    <3> SUFFICES ASSUME NEW x \in Visited'
                 PROVE  \/ seen'[x].parent = NoObject /\ roots[seen'[x].root] = x
                        \/ /\ seen'[x].parent \in Visited' /\ Edge(seen'[x].parent, x)
                           /\ seen'[seen'[x].parent].root = seen'[x].root
      BY <1>0, <3>1 DEF SeenInv, Edge
    <3>2. CASE x = o
      BY <2>1, <3>2
    <3>3. CASE x # o
      <4>1. x \in Visited /\ seen'[x] = seen[x]
        BY <2>1, <3>3
      <4> QED
        BY <1>1, <2>1, <4>1 DEF SeenInv
    <3> QED
      BY <3>2, <3>3
  <2>9. LimitInv'
    BY <2>1, <2>7 DEF LimitInv
  <2>10. \A x \in Visited' : /\ seen'[x].parent \in Visited' \cup {NoObject}
                             /\ seen'[x].root \in 1 .. Len(roots)
    BY <1>1, <2>1
  <2>11. /\ Visited' \subseteq Objects
         /\ maxVisited > 0 => Cardinality(Visited') <= maxVisited
    BY <1>1, <2>1, <2>6, <2>7
  <2> QED
    BY <1>1, <2>1, <2>2, <2>4, <2>5, <2>8, <2>9, <2>10, <2>11
<1> QED
  BY <1>2, <1>3, <1>4, AddEffect

\* Adding an object keeps the order of the queue: in the first loop all are
\* roots; afterwards a new object is one reference further away than the head,
\* by Frontier no nearer, and so no nearer than the others.
LEMMA NearKeeps ==
  ASSUME IInv, NEW o, NEW p, Add(o, p), UNCHANGED <<input, at, head>>,
         \/ at = "roots" /\ p.parent = NoObject /\ (validID(o) => o \in ValidRoots)
         \/ /\ at = "children" /\ head \in 1 .. Len(queue)
            /\ p.parent = queue[head] /\ Edge(queue[head], o)
  PROVE  NearInv'
<1>1. /\ UNCHANGED <<children, roots, owner, target, maxVisited>>
      /\ ValidRoots' = ValidRoots /\ \A k : Within(k)' = Within(k)
  BY DEF input, Within, ValidRoots, Linked, Edge
<1>2. /\ queue \in Seq(Objects) /\ Range(queue) = Visited /\ NearInv
      /\ maxVisited \in Nat
  BY LimitsAssumption DEF IInv, TypeOK
<1>3. CASE UNCHANGED <<seen, queue>>
  <2>1. UNCHANGED Visited
    BY <1>3 DEF Visited
  <2> QED
    BY <1>1, <1>2, <1>3, <2>1 DEF NearInv
<1>4. CASE Adds(o, p)
  <2>1. /\ o \in Objects /\ o \notin Visited /\ ~limited
        /\ Visited' = Visited \cup {o} /\ seen'[o] = p
        /\ \A x \in Visited : seen'[x] = seen[x]
        /\ queue' = Append(queue, o)
    BY <1>4 DEF Adds, validID, IInv, TypeOK, LimitInv
  <2> DEFINE n == Len(queue)
  <2>2. /\ n \in Nat /\ queue' \in Seq(Objects) /\ Len(queue') = n + 1
        /\ queue'[n + 1] = o /\ \A i \in 1 .. n : queue'[i] = queue[i] /\ queue[i] \in Visited
    <3>1. \A i \in 1 .. n : queue[i] \in Visited
      BY <1>2 DEF Range
    <3> QED
      BY <1>2, <2>1, <3>1
  <2> HIDE DEF n
  <2>3. Within(0) = {}
    BY WithinStart
  <2>4. CASE at = "roots"
    <3>1. o \in ValidRoots /\ p.parent = NoObject /\ Visited' \subseteq ValidRoots
      BY <1>2, <2>1, <2>4 DEF validID, NearInv
    <3>2. \A k \in Nat : \A b \in 1 .. n + 1 : queue'[b] \in Within(k) =>
            \A a \in 1 .. b : queue'[a] \in Within(k)
      <4> SUFFICES ASSUME NEW k \in Nat, NEW b \in 1 .. n + 1, queue'[b] \in Within(k),
                          NEW a \in 1 .. b
                   PROVE  queue'[a] \in Within(k)
        OBVIOUS
      <4>1. k \in Nat \ {0}
        BY <2>3
      <4>2. a \in 1 .. n \/ a = n + 1
        BY <2>2
      <4>3. queue'[a] \in ValidRoots
        BY <2>1, <2>2, <3>1, <4>2
      <4> QED
        BY <4>1, <4>3, WithinStart
    <3>3. \A x \in Visited' : seen'[x].parent # NoObject =>
            \A k \in Nat : x \in Within(k + 1) => seen'[x].parent \in Within(k)
      BY <1>2, <2>1, <3>1 DEF NearInv
    <3> QED
      BY <1>1, <2>2, <2>4, <3>1, <3>2, <3>3 DEF NearInv
  <2>5. CASE at = "children"
    <3>1. /\ head \in 1 .. n /\ p.parent = queue[head] /\ Edge(queue[head], o)
          /\ queue'[head] = queue[head]
      BY <2>2, <2>5 DEF n
    <3>2. \A k \in Nat : o \in Within(k + 1) => queue[head] \in Within(k)
      BY <2>1, <2>5, Frontier
    <3>3. \A k \in Nat : queue[head] \in Within(k) =>
            \A b \in 1 .. n : queue[b] \in Within(k + 1)
      BY <1>2, <2>5, <3>1 DEF NearInv, n
    <3>4. \A k \in Nat : \A b \in 1 .. n + 1 : queue'[b] \in Within(k) =>
            \A a \in 1 .. b : queue'[a] \in Within(k)
      <4> SUFFICES ASSUME NEW k \in Nat, NEW b \in 1 .. n + 1, queue'[b] \in Within(k),
                          NEW a \in 1 .. b
                   PROVE  queue'[a] \in Within(k)
        OBVIOUS
      <4>1. CASE b \in 1 .. n
        <5>1. queue[b] \in Within(k) /\ a \in 1 .. n
          BY <2>2, <4>1
        <5>2. queue[a] \in Within(k)
          BY <1>2, <4>1, <5>1 DEF NearInv, n
        <5> QED
          BY <2>2, <5>1, <5>2
      <4>2. CASE b = n + 1
        <5>1. k # 0 /\ k - 1 \in Nat /\ o \in Within((k - 1) + 1)
          BY <2>2, <2>3, <4>2
        <5>2. queue[head] \in Within(k - 1)
          BY <3>2, <5>1
        <5>3. \A i \in 1 .. n : queue[i] \in Within((k - 1) + 1)
          BY <3>3, <5>1, <5>2
        <5>4. a \in 1 .. n \/ a = n + 1
          BY <2>2, <4>2
        <5> QED
          BY <2>2, <4>2, <5>1, <5>3, <5>4
      <4> QED
        BY <2>2, <4>1, <4>2
    <3>5. \A k \in Nat : queue'[head] \in Within(k) =>
            \A b \in 1 .. n + 1 : queue'[b] \in Within(k + 1)
      <4> SUFFICES ASSUME NEW k \in Nat, queue[head] \in Within(k), NEW b \in 1 .. n + 1
                   PROVE  queue'[b] \in Within(k + 1)
        BY <3>1
      <4>1. CASE b \in 1 .. n
        BY <2>2, <3>3, <4>1
      <4>2. CASE b = n + 1
        BY <2>1, <2>2, <3>1, <4>2, WithinEdge
      <4> QED
        BY <2>2, <4>1, <4>2
    <3>6. \A x \in Visited' : seen'[x].parent # NoObject =>
            \A k \in Nat : x \in Within(k + 1) => seen'[x].parent \in Within(k)
      BY <1>2, <2>1, <3>1, <3>2 DEF NearInv
    <3> QED
      BY <1>1, <2>2, <2>5, <3>1, <3>4, <3>5, <3>6 DEF NearInv
  <2> QED
    BY <2>4, <2>5
<1> QED
  BY <1>3, <1>4, AddEffect DEF Skips, LeavesOut

-----------------------------------------------------------------------------
\* The inductive invariant holds initially.
LEMMA InitIInv == Init => IInv
<1> SUFFICES ASSUME Init PROVE IInv
  OBVIOUS
<1>1. Visited = {} /\ Range(queue) = {} /\ IsInjective(queue) /\ queue \in Seq(Objects)
  BY DEF Init, Visited, Range, IsInjective
<1>2. Cardinality(Visited) = 0
  BY <1>1, FS_EmptySet
<1>3. roots \in Seq(Int) /\ maxVisited \in Nat
  BY ListsAssumption, LimitsAssumption DEF Init
<1>4. TypeOK
  <2>1. Len(roots) \in Nat /\ Len(queue) = 0 /\ path \in Seq(Objects)
    BY <1>3 DEF Init
  <2>2. root \in 1 .. Len(roots) + 1 /\ head \in 1 .. Len(queue) + 1 /\ child \in Nat \ {0}
    BY <2>1 DEF Init
  <2>3. maxVisited > 0 => Cardinality(Visited) <= maxVisited
    BY <1>2, <1>3
  <2> QED
    BY <1>1, <2>1, <2>2, <2>3 DEF Init, TypeOK
<1>5. SeenInv /\ LimitInv /\ LoopInv /\ NearInv /\ TraceInv
  BY <1>1 DEF Init, SeenInv, LimitInv, LoopInv, NearInv, TraceInv
<1>6. DoneInv
  BY <1>3 DEF Init, DoneInv
<1>7. ReportInv
  BY DEF Init, ReportInv, StatusIsHonest, ShortestWitness
<1> QED
  BY <1>4, <1>5, <1>6, <1>7 DEF IInv

\* Adding the next root keeps the invariant.
LEMMA RootStep == ASSUME IInv, AddRoot PROVE IInv'
<1> DEFINE o == roots[root]
           p == [parent |-> NoObject, root |-> root]
<1>1. /\ at = "roots" /\ at' = at /\ head = 1 /\ status = "searching" /\ status' = status
      /\ root \in 1 .. Len(roots) /\ root' = root + 1 /\ roots \in Seq(Int)
      /\ Add(o, p) /\ UNCHANGED <<input, head, child, id, path>>
  BY ListsAssumption DEF IInv, TypeOK, LoopInv, ReportInv, AddRoot
<1>2. UNCHANGED <<children, roots, owner, target, maxVisited>>
  BY <1>1 DEF input
<1>3. validID(o) => o \in Reachable
  BY <1>1, ReachableIsLeast DEF ValidRoots, validID
<1>4. p.root = root /\ p.parent = NoObject
  OBVIOUS
<1> HIDE DEF o, p
<1>5. /\ Visited \subseteq Visited' /\ Visited' \subseteq Objects
      /\ \A x \in Visited' : /\ seen'[x].parent \in Visited' \cup {NoObject}
                             /\ seen'[x].root \in 1 .. Len(roots)
      /\ queue' \in Seq(Objects) /\ IsInjective(queue') /\ Range(queue') = Visited'
      /\ Len(queue) <= Len(queue') /\ \A i \in 1 .. Len(queue) : queue'[i] = queue[i]
      /\ limited' \in BOOLEAN /\ (limited => limited')
      /\ maxVisited > 0 => Cardinality(Visited') <= maxVisited
      /\ SeenInv' /\ LimitInv'
      /\ validID(o) => o \in Visited' \/ limited'
  <2>1. roots[p.root] = o
    BY <1>4 DEF o
  <2> QED
    BY <1>1, <1>3, <1>4, <2>1, AddKeeps
<1>6. TypeOK'
  BY <1>1, <1>2, <1>5 DEF IInv, TypeOK
<1>7. DoneInv'
  <2> SUFFICES ASSUME ~limited' PROVE \A i \in 1 .. root : validID(roots[i]) => roots[i] \in Visited'
    BY <1>1, <1>2 DEF DoneInv, validID
  <2>1. \A i \in 1 .. root - 1 : validID(roots[i]) => roots[i] \in Visited'
    BY <1>5 DEF IInv, TypeOK, DoneInv
  <2>2. validID(roots[root]) => roots[root] \in Visited'
    BY <1>5 DEF o
  <2>3. \A i \in 1 .. root : i = root \/ i \in 1 .. root - 1
    BY <1>1
  <2> QED
    BY <2>1, <2>2, <2>3
<1>8. LoopInv' /\ TraceInv'
  BY <1>1 DEF IInv, LoopInv, TraceInv
<1>9. ReportInv'
  BY <1>1 DEF ReportInv, StatusIsHonest, ShortestWitness
<1>10. NearInv'
  BY <1>1, <1>4, NearKeeps DEF o, ValidRoots, validID
<1> QED
  BY <1>5, <1>6, <1>7, <1>8, <1>9, <1>10 DEF IInv

\* Adding the next child keeps the invariant.
LEMMA ChildStep == ASSUME IInv, AddChild PROVE IInv'
<1> DEFINE h == queue[head]
           o == children[h][child]
           p == [parent |-> h, root |-> seen[h].root]
<1>1. /\ at = "children" /\ at' = at /\ status = "searching" /\ status' = status
      /\ head \in 1 .. Len(queue) /\ queue \in Seq(Objects) /\ Range(queue) = Visited
      /\ child \in 1 .. Len(children[h]) /\ child' = child + 1
      /\ Add(o, p) /\ UNCHANGED <<input, root, head, id, path>>
  BY DEF IInv, TypeOK, LoopInv, ReportInv, AddChild
<1>2. UNCHANGED <<children, roots, owner, target, maxVisited>>
  BY <1>1 DEF input
<1>3. h \in Visited /\ h \in Objects /\ h \in Reachable
  BY <1>1 DEF Range, IInv, SeenInv
<1>4. children[h] \in Seq(Int) /\ Edge(h, o)
  BY <1>1, <1>3, ListsAssumption DEF IInv, TypeOK, Edge
<1>5. validID(o) => o \in Reachable
  BY <1>3, <1>4, ReachableIsLeast DEF Closed, validID
<1>6. p.root = seen[h].root /\ p.parent = h /\ p.root \in 1 .. Len(roots)
  BY <1>3 DEF IInv, TypeOK
<1> HIDE DEF o, p, h
<1>7. /\ Visited \subseteq Visited' /\ Visited' \subseteq Objects
      /\ \A x \in Visited' : /\ seen'[x].parent \in Visited' \cup {NoObject}
                             /\ seen'[x].root \in 1 .. Len(roots)
      /\ queue' \in Seq(Objects) /\ IsInjective(queue') /\ Range(queue') = Visited'
      /\ Len(queue) <= Len(queue') /\ \A i \in 1 .. Len(queue) : queue'[i] = queue[i]
      /\ limited' \in BOOLEAN /\ (limited => limited')
      /\ maxVisited > 0 => Cardinality(Visited') <= maxVisited
      /\ SeenInv' /\ LimitInv'
      /\ validID(o) => o \in Visited' \/ limited'
  BY <1>1, <1>3, <1>4, <1>5, <1>6, AddKeeps
<1>8. TypeOK'
  BY <1>1, <1>2, <1>7 DEF IInv, TypeOK
<1>9. DoneInv'
  <2> SUFFICES ASSUME ~limited' PROVE DoneInv'
    BY DEF DoneInv
  <2>1. ~limited /\ \A i \in 1 .. Len(queue) : queue'[i] = queue[i]
    BY <1>7 DEF IInv, TypeOK
  <2>2. \A i \in 1 .. root - 1 : validID(roots[i]) => roots[i] \in Visited'
    BY <1>7, <2>1 DEF IInv, DoneInv
  <2>3. \A k \in 1 .. head - 1 : \A x \in Objects : Edge(queue'[k], x) => x \in Visited'
    <3> SUFFICES ASSUME NEW k \in 1 .. head - 1, NEW x \in Objects, Edge(queue'[k], x)
                 PROVE  x \in Visited'
      OBVIOUS
    <3>1. k \in 1 .. Len(queue) /\ queue'[k] = queue[k]
      BY <1>1, <2>1
    <3> QED
      BY <1>7, <2>1, <3>1 DEF IInv, DoneInv
  <2>4. \A c \in 1 .. child : validID(children[h][c]) => children[h][c] \in Visited'
    <3>1. \A c \in 1 .. child - 1 : validID(children[h][c]) => children[h][c] \in Visited'
      BY <1>1, <1>7, <2>1 DEF IInv, DoneInv, h
    <3> QED
      BY <1>1, <1>7, <3>1 DEF o
  <2>5. queue'[head] = h
    BY <1>1, <2>1 DEF h
  <2> QED
    BY <1>1, <1>2, <2>2, <2>3, <2>4, <2>5 DEF DoneInv, validID, Edge
<1>10. LoopInv' /\ TraceInv'
  <2>1. queue'[head] = h /\ \A k \in 1 .. head - 1 : queue'[k] = queue[k]
    BY <1>1, <1>7 DEF h
  <2>2. head <= Len(queue')
    BY <1>1, <1>7
  <2> QED
    BY <1>1, <1>2, <1>4, <2>1, <2>2 DEF IInv, LoopInv, TraceInv, h
<1>11. ReportInv'
  BY <1>1 DEF ReportInv, StatusIsHonest, ShortestWitness
<1>12. NearInv'
  BY <1>1, <1>4, <1>6, NearKeeps DEF h
<1> QED
  BY <1>7, <1>8, <1>9, <1>10, <1>11, <1>12 DEF IInv

\* What a step that leaves graph and search alone leaves true.
Still == UNCHANGED <<input, seen, queue, limited>>

LEMMA StillKeeps ==
  ASSUME IInv, Still
  PROVE  /\ UNCHANGED <<children, roots, owner, target, maxVisited, Reachable, Visited>>
         /\ SeenInv' /\ LimitInv'
         /\ ValidRoots' = ValidRoots /\ \A k : Within(k)' = Within(k)
         /\ at' \in {"trace", "done"} => NearInv'
<1>1. UNCHANGED <<children, roots, owner, target, maxVisited, Reachable, Visited>>
  BY DEF Still, input, Reachable, ValidRoots, Closed, Edge, Visited
<1>2. ValidRoots' = ValidRoots /\ \A k : Within(k)' = Within(k)
  BY <1>1 DEF Within, ValidRoots, Linked, Edge
<1>3. at' \in {"trace", "done"} => NearInv'
  BY <1>1, <1>2 DEF IInv, Still, NearInv
<1> QED
  BY <1>1, <1>2, <1>3 DEF IInv, Still, SeenInv, LimitInv, Edge

\* The steps that move from loop to loop keep the invariant.
LEMMA LoopStep ==
  ASSUME IInv, RootsAdded \/ Expand \/ NextHead PROVE IInv'
<1>1. Still /\ UNCHANGED <<root, limited, id, path, status>>
  BY DEF RootsAdded, Expand, NextHead, Still
<1>2. /\ UNCHANGED <<children, roots, owner, target, maxVisited, seen, queue, Reachable, Visited>>
      /\ SeenInv' /\ LimitInv'
      /\ ValidRoots' = ValidRoots /\ \A k : Within(k)' = Within(k)
      /\ at' \in {"trace", "done"} => NearInv'
  BY <1>1, StillKeeps DEF Still
<1>3. at \in {"roots", "heads", "children"} /\ at' \in {"heads", "children"}
  BY DEF RootsAdded, Expand, NextHead
<1>4. ReportInv'
  BY <1>1, <1>3 DEF IInv, ReportInv, StatusIsHonest, ShortestWitness
<1>5. TraceInv'
  BY <1>1, <1>3 DEF IInv, TraceInv
<1>6. queue \in Seq(Objects) /\ Range(queue) = Visited /\ roots \in Seq(Int)
      /\ root \in 1 .. Len(roots) + 1 /\ head \in 1 .. Len(queue) + 1
  BY ListsAssumption DEF IInv, TypeOK
<1>7. CASE RootsAdded
  <2>1. at' = "heads" /\ UNCHANGED <<head, child>> /\ root = Len(roots) + 1 /\ head = 1
    BY <1>6, <1>7 DEF RootsAdded, IInv, LoopInv
  <2>2. TypeOK'
    BY <1>1, <1>2, <2>1 DEF IInv, TypeOK
  <2>3. DoneInv'
    BY <1>1, <1>2, <2>1 DEF IInv, DoneInv, validID, Edge
  <2>4. LoopInv'
    BY <1>1, <1>2, <2>1 DEF LoopInv
  <2>5. NearInv'
    <3>1. \A b \in 1 .. Len(queue) : queue[b] \in ValidRoots
      BY <1>6, <1>7 DEF RootsAdded, IInv, NearInv, Range
    <3>2. \A k \in Nat : ValidRoots \subseteq Within(k + 1)
      BY WithinStart
    <3> QED
      BY <1>2, <2>1, <3>1, <3>2 DEF IInv, NearInv
  <2> QED
    BY <1>2, <1>4, <1>5, <2>2, <2>3, <2>4, <2>5 DEF IInv
<1>8. CASE Expand
  <2>1. /\ at = "heads" /\ at' = "children" /\ child' = 1 /\ head' = head
        /\ head <= Len(queue) /\ queue[head] # target
    BY <1>8 DEF Expand
  <2>2. TypeOK'
    BY <1>1, <1>2, <2>1 DEF IInv, TypeOK
  <2>3. DoneInv'
    BY <1>1, <1>2, <2>1 DEF IInv, DoneInv, validID, Edge
  <2>4. LoopInv'
    <3>1. queue[head] \in Objects /\ children[queue[head]] \in Seq(Int)
      BY <1>6, <2>1, ListsAssumption DEF IInv, TypeOK
    <3> QED
      BY <1>1, <1>2, <2>1, <3>1 DEF IInv, LoopInv
  <2>5. NearInv'
    BY <1>2, <2>1 DEF IInv, NearInv
  <2> QED
    BY <1>2, <1>4, <1>5, <2>2, <2>3, <2>4, <2>5 DEF IInv
<1>9. CASE NextHead
  <2>1. /\ at = "children" /\ at' = "heads" /\ head' = head + 1 /\ child' = child
        /\ head <= Len(queue) /\ queue[head] # target /\ child > Len(children[queue[head]])
    BY <1>9 DEF NextHead, IInv, LoopInv
  <2>2. TypeOK'
    BY <1>1, <1>2, <1>6, <2>1 DEF IInv, TypeOK
  <2>3. DoneInv'
    <3> SUFFICES ASSUME ~limited PROVE DoneInv'
      BY <1>1 DEF DoneInv
    <3>1. queue[head] \in Objects /\ children[queue[head]] \in Seq(Int) /\ child \in Nat
      BY <1>6, <2>1, ListsAssumption DEF IInv, TypeOK
    <3>2. \A c \in 1 .. child - 1 :
            validID(children[queue[head]][c]) => children[queue[head]][c] \in Visited
      BY <2>1 DEF IInv, DoneInv
    <3>3. \A p \in Objects : Edge(queue[head], p) => p \in Visited
      BY <2>1, <3>1, <3>2 DEF Edge, validID
    <3>4. \A k \in 1 .. head : \A p \in Objects : Edge(queue[k], p) => p \in Visited
      BY <1>6, <3>3 DEF IInv, DoneInv
    <3> QED
      <4>1. \A i \in 1 .. root - 1 : validID(roots[i]) => roots[i] \in Visited
        BY DEF IInv, DoneInv
      <4>2. head' - 1 = head /\ at' # "children"
        BY <1>6, <2>1
      <4> QED
        BY <1>1, <1>2, <3>4, <4>1, <4>2 DEF DoneInv, validID, Edge
  <2>4. LoopInv'
    BY <1>1, <1>2, <1>6, <2>1 DEF IInv, LoopInv
  <2>5. NearInv'
    <3>1. ASSUME NEW k \in Nat, head + 1 <= Len(queue), queue[head + 1] \in Within(k)
          PROVE  \A b \in 1 .. Len(queue) : queue[b] \in Within(k + 1)
      <4>1. head + 1 \in 1 .. Len(queue) /\ head \in 1 .. head + 1
        BY <1>6, <3>1
      <4>2. queue[head] \in Within(k)
        BY <3>1, <4>1 DEF IInv, NearInv
      <4> QED
        BY <2>1, <4>2 DEF IInv, NearInv
    <3> QED
      BY <1>2, <2>1, <3>1 DEF IInv, NearInv
  <2> QED
    BY <1>2, <1>4, <1>5, <2>2, <2>3, <2>4, <2>5 DEF IInv
<1> QED
  BY <1>7, <1>8, <1>9

\* The target at the head of the queue starts the witness.
LEMMA FindStep == ASSUME IInv, Find PROVE IInv'
<1>1. /\ Still /\ UNCHANGED <<root, head, child, path, status>>
      /\ at = "heads" /\ at' = "trace" /\ id' = target
      /\ head \in 1 .. Len(queue) /\ queue[head] = target
  BY DEF Find, Still, IInv, TypeOK
<1>2. /\ UNCHANGED <<children, roots, owner, target, maxVisited, seen, queue, limited, Reachable, Visited>>
      /\ SeenInv' /\ LimitInv'
      /\ ValidRoots' = ValidRoots /\ \A k : Within(k)' = Within(k)
      /\ at' \in {"trace", "done"} => NearInv'
  BY <1>1, StillKeeps DEF Still
<1>3. target \in Visited /\ target \in Objects
  BY <1>1 DEF IInv, TypeOK, Range
<1>4. TypeOK'
  BY <1>1, <1>2, <1>3 DEF IInv, TypeOK
<1>5. DoneInv' /\ LoopInv'
  BY <1>1, <1>2 DEF IInv, DoneInv, LoopInv, validID, Edge
<1>6. TraceInv'
  <2>1. \A k \in Nat : 0 <= k /\ k - 0 = k
    OBVIOUS
  <2>2. path = <<>> /\ Len(path) = 0
    BY <1>1 DEF IInv, TraceInv
  <2> QED
    BY <1>1, <1>2, <1>3, <2>1, <2>2 DEF TraceInv
<1>7. ReportInv'
  BY <1>1 DEF IInv, ReportInv, StatusIsHonest, ShortestWitness
<1>8. NearInv'
  BY <1>1, <1>2
<1> QED
  BY <1>2, <1>4, <1>5, <1>6, <1>7, <1>8 DEF IInv

\* One more object at the front of the witness; the root's ends it.
LEMMA TraceStep == ASSUME IInv, Trace PROVE IInv'
<1>1. /\ Still /\ UNCHANGED <<root, head, child>>
      /\ at = "trace" /\ path' = <<id>> \o path /\ status = "searching"
  BY DEF Trace, Still, IInv, ReportInv
<1>2. /\ UNCHANGED <<children, roots, owner, target, maxVisited, seen, queue, limited, Reachable, Visited>>
      /\ SeenInv' /\ LimitInv'
      /\ ValidRoots' = ValidRoots /\ \A k : Within(k)' = Within(k)
      /\ at' \in {"trace", "done"} => NearInv'
  BY <1>1, StillKeeps DEF Still
<1>3. /\ id \in Visited /\ target \in Visited /\ seen[id].root = seen[target].root
      /\ \/ path = <<>> /\ id = target
         \/ Len(path) > 0 /\ path[Len(path)] = target /\ Edge(id, path[1]) /\ Linked(path)
      /\ \A k \in Nat : target \in Within(k) =>
           Len(path) <= k /\ id \in Within(k - Len(path))
      /\ path \in Seq(Objects) /\ id \in Objects
  BY <1>1 DEF IInv, TypeOK, TraceInv
<1>4. /\ path' \in Seq(Objects) /\ Len(path') = Len(path) + 1 /\ path'[1] = id
      /\ \A i \in 1 .. Len(path) : path'[i + 1] = path[i]
  BY <1>1, <1>3, InFront
<1>5. path'[Len(path')] = target
  BY <1>3, <1>4
<1>6. Linked(path)'
  <2>0. children' = children /\ Len(path') - 1 = Len(path)
    BY <1>2, <1>3, <1>4
  <2> SUFFICES ASSUME NEW i \in 1 .. Len(path) PROVE Edge(path'[i], path'[i + 1])
    BY <2>0 DEF Linked, Edge
  <2>1. path'[i + 1] = path[i]
    BY <1>4
  <2>2. CASE i = 1
    BY <1>3, <1>4, <2>1, <2>2
  <2>3. CASE i # 1
    <3>1. i - 1 \in 1 .. Len(path) - 1 /\ path'[(i - 1) + 1] = path[i - 1]
      BY <1>4, <2>3
    <3>2. Edge(path[i - 1], path[(i - 1) + 1])
      BY <1>3, <3>1 DEF Linked
    <3> QED
      BY <1>3, <2>1, <3>1, <3>2
  <2> QED
    BY <2>2, <2>3
<1>7. DoneInv' /\ LoopInv'
  BY <1>1, <1>2 DEF IInv, DoneInv, LoopInv, validID, Edge, Trace, Report
<1>8. CASE seen[id].parent = NoObject
  <2>1. at' = "done" /\ status' = "found" /\ id' = id
    BY <1>8 DEF Trace, Report
  <2>2. roots[seen[id].root] = id
    BY <1>3, <1>8, NoObjectAssumption DEF IInv, TypeOK, SeenInv, Objects
  <2>3. WitnessIsAPath'
    BY <1>2, <1>3, <1>4, <1>5, <1>6, <2>1, <2>2 DEF WitnessIsAPath
  <2>4. TypeOK'
    BY <1>1, <1>2, <1>4, <2>1 DEF IInv, TypeOK
  <2>5. target \notin Within(Len(path))
    <3>1. Len(path) \in Nat /\ Len(path) - Len(path) = 0
      BY <1>3
    <3> QED
      BY <1>3, <3>1, WithinStart
  <2>6. ShortestWitness'
    <3>1. Len(path') - 1 = Len(path)
      BY <1>3, <1>4
    <3> QED
      BY <1>2, <2>3, <2>5, <3>1 DEF ShortestWitness
  <2>7. TraceInv' /\ ReportInv'
    BY <2>1, <2>6 DEF TraceInv, ReportInv, StatusIsHonest
  <2> QED
    BY <1>2, <1>7, <2>1, <2>4, <2>7 DEF IInv
<1>9. CASE seen[id].parent # NoObject
  <2>1. at' = at /\ status' = status /\ id' = seen[id].parent
    BY <1>9 DEF Trace
  <2>2. /\ id' \in Visited /\ Edge(id', id) /\ seen[id'].root = seen[id].root
    BY <1>3, <1>9, <2>1 DEF IInv, SeenInv
  <2>3. TypeOK'
    BY <1>1, <1>2, <1>4, <2>1, <2>2 DEF IInv, TypeOK
  <2>4. TraceInv'
    <3>1. Edge(id, path[1])'
      BY <1>2, <1>4, <2>2 DEF Edge
    <3>2. ASSUME NEW k \in Nat, target \in Within(k)
          PROVE  Len(path') <= k /\ id' \in Within(k - Len(path'))
      <4>1. Len(path) \in Nat /\ Len(path) <= k /\ id \in Within(k - Len(path))
        BY <1>3, <3>2
      <4>2. k - Len(path) # 0
        BY <4>1, WithinStart
      <4>3. /\ k - Len(path') \in Nat /\ Len(path') <= k
            /\ k - Len(path) = (k - Len(path')) + 1
        BY <1>4, <4>1, <4>2
      <4> QED
        BY <1>3, <1>9, <2>1, <4>1, <4>3 DEF IInv, NearInv
    <3> QED
      BY <1>1, <1>2, <1>3, <1>4, <1>5, <1>6, <2>1, <2>2, <3>1, <3>2 DEF TraceInv
  <2>5. ReportInv'
    BY <1>1, <2>1 DEF ReportInv, StatusIsHonest, ShortestWitness
  <2>6. NearInv'
    BY <1>1, <1>2, <2>1 DEF IInv, NearInv
  <2> QED
    BY <1>2, <1>7, <2>3, <2>4, <2>5, <2>6 DEF IInv
<1> QED
  BY <1>8, <1>9

\* The reports that find nothing keep the invariant: an exhausted queue that
\* nothing was left out of is closed and holds every valid root.
LEMMA ReportStep == ASSUME IInv, NoTarget \/ GiveUp \/ Cancel PROVE IInv'
<1>1. /\ Still /\ UNCHANGED <<root, head, child, id, path>> /\ at' = "done"
      /\ at \in {"roots", "heads", "children"}
  BY DEF NoTarget, GiveUp, Cancel, Report, Still
<1>2. /\ UNCHANGED <<children, roots, owner, target, maxVisited, seen, queue, limited, Reachable, Visited>>
      /\ SeenInv' /\ LimitInv'
      /\ at' \in {"trace", "done"} => NearInv'
  BY <1>1, StillKeeps DEF Still
<1>3. TypeOK'
  BY <1>1, <1>2 DEF IInv, TypeOK, NoTarget, GiveUp, Cancel, Report
<1>4. DoneInv' /\ LoopInv' /\ TraceInv'
  BY <1>1, <1>2 DEF IInv, DoneInv, LoopInv, TraceInv, validID, Edge
<1>5. ShortestWitness'
  BY DEF NoTarget, GiveUp, Cancel, Report, ShortestWitness
<1>6. StatusIsHonest'
  <2>1. CASE NoTarget
    BY <1>2, <2>1 DEF NoTarget, Report, StatusIsHonest, Reachable, validID
  <2>2. CASE GiveUp /\ limited
    <3>1. maxVisited > 0 /\ maxVisited \in Nat /\ Visited \subseteq Reachable
          /\ Cardinality(Visited) >= maxVisited /\ Visited # Reachable
      BY <2>2, LimitsAssumption DEF IInv, TypeOK, SeenInv, LimitInv
    <3>2. Reachable \in SUBSET Objects /\ Visited \in SUBSET Objects
      BY DEF Reachable, IInv, TypeOK
    <3>3. Cardinality(Reachable) > maxVisited
      BY <3>1, <3>2, ProperPart, FiniteObjects
    <3> QED
      BY <1>2, <2>2, <3>1, <3>3 DEF GiveUp, Report, StatusIsHonest
  <2>3. CASE GiveUp /\ ~limited
    <3>1. /\ head = Len(queue) + 1 /\ root = Len(roots) + 1 /\ roots \in Seq(Int)
          /\ queue \in Seq(Objects) /\ Range(queue) = Visited
      <4>1. TypeOK /\ LoopInv
        BY DEF IInv
      <4>2. roots \in Seq(Int) /\ queue \in Seq(Objects) /\ Range(queue) = Visited
        BY <4>1, ListsAssumption DEF TypeOK
      <4>3. head = Len(queue) + 1 /\ at = "heads"
        BY <2>3, <4>1 DEF GiveUp, TypeOK
      <4> QED BY <4>1, <4>2, <4>3 DEF LoopInv
    <3>2. ValidRoots \subseteq Visited
      BY <2>3, <3>1 DEF IInv, DoneInv, ValidRoots, validID
    <3>3. \A o \in Visited : \E i \in 1 .. head - 1 : queue[i] = o
      BY <3>1 DEF Range
    <3>4. Closed(Visited)
      BY <2>3, <3>3 DEF IInv, DoneInv, Closed
    <3>5. target \notin Visited
      BY <3>3 DEF IInv, LoopInv
    <3>6. Reachable \subseteq Visited
      BY <3>2, <3>4, ReachableIsLeast DEF IInv, TypeOK
    <3> QED
      BY <1>2, <2>3, <3>5, <3>6 DEF GiveUp, Report, StatusIsHonest
  <2>4. CASE Cancel
    BY <2>4 DEF Cancel, Report, StatusIsHonest
  <2>5. limited \in BOOLEAN
    BY DEF IInv, TypeOK
  <2> QED
    BY <2>1, <2>2, <2>3, <2>4, <2>5
<1>7. ReportInv'
  BY <1>1, <1>5, <1>6 DEF ReportInv
<1>8. NearInv'
  BY <1>1, <1>2
<1> QED
  BY <1>2, <1>3, <1>4, <1>7, <1>8 DEF IInv

\* The inductive invariant holds in every reachable state.
LEMMA Inductive == Spec => []IInv
<1>1. IInv /\ [Next]_vars => IInv'
  <2>1. ASSUME IInv, UNCHANGED vars PROVE IInv'
    <3>1. Still /\ UNCHANGED <<root, head, child, id, path, at, status>>
      BY <2>1 DEF vars, Still, input
    <3>2. /\ UNCHANGED <<children, roots, owner, target, maxVisited, seen, queue, limited, Reachable, Visited>>
          /\ SeenInv' /\ LimitInv'
          /\ ValidRoots' = ValidRoots /\ \A k : Within(k)' = Within(k)
          /\ at' \in {"trace", "done"} => NearInv'
      BY <2>1, <3>1, StillKeeps DEF Still
    <3>3. TypeOK' /\ DoneInv' /\ LoopInv'
      BY <2>1, <3>1, <3>2 DEF IInv, TypeOK, DoneInv, LoopInv, validID, Edge
    <3>4. TraceInv'
      BY <2>1, <3>1, <3>2 DEF IInv, TraceInv, Linked, Edge
    <3>5. ReportInv'
      BY <2>1, <3>1, <3>2
      DEF IInv, ReportInv, StatusIsHonest, ShortestWitness, WitnessIsAPath, Linked, Edge
    <3>6. NearInv'
      BY <2>1, <3>1, <3>2 DEF IInv, Still, NearInv
    <3> QED
      BY <3>2, <3>3, <3>4, <3>5, <3>6 DEF IInv
  <2> QED
    BY <2>1, RootStep, ChildStep, LoopStep, FindStep, TraceStep, ReportStep DEF Next, Step
<1> QED
  BY InitIInv, <1>1, PTL DEF Spec

-----------------------------------------------------------------------------
\* The search stays well typed; every visited object is queued once, and never
\* more are visited than the limit allows.
THEOREM TypeCorrect == Spec => []TypeOK
<1>1. IInv => TypeOK
  BY DEF IInv
<1> QED
  BY Inductive, <1>1, PTL

\* Absence is only reported of an object outside the least closed set around
\* the roots, a limit only when that set is larger than the limit.
THEOREM AbsenceIsReal == Spec => []StatusIsHonest
<1>1. IInv => StatusIsHonest
  BY DEF IInv, ReportInv
<1> QED
  BY Inductive, <1>1, PTL

\* A witness leads along references from the root it names to the target, and
\* no path from a root to the target has fewer objects, limit or not.
THEOREM WitnessIsShortest == Spec => []ShortestWitness
<1>1. IInv => ShortestWitness
  BY DEF IInv, ReportInv
<1> QED
  BY Inductive, <1>1, PTL

-----------------------------------------------------------------------------
(* The forest of an export *)

\* The function PlantAll is defined by, and its equation.
IsPlanted(g, f, objs, list) ==
  g = [i \in 0 .. Len(list) |->
         IF i = 0 THEN f ELSE Plant(g[i - 1], objs, list[i].id, list[i].node)]
Planted(f, objs, list) == CHOOSE g : IsPlanted(g, f, objs, list)

\* A recursive function over 0 .. n exists, whatever its values are.
LEMMA PlantedExists ==
  ASSUME NEW f, NEW objs, NEW list, Len(list) \in Nat
  PROVE  IsPlanted(Planted(f, objs, list), f, objs, list)
<1> DEFINE Onward(x, i) == Plant(x, objs, list[i].id, list[i].node)
           Fits(g, k) == g = [i \in 0 .. k |-> IF i = 0 THEN f ELSE Onward(g[i - 1], i)]
           S == {k \in Nat : \E g : Fits(g, k)}
<1> HIDE DEF Onward
<1>1. 0 \in S
  <2>1. Fits([i \in 0 .. 0 |-> f], 0)
    OBVIOUS
  <2> QED BY <2>1
<1>2. ASSUME NEW k \in Nat, k \in S PROVE k + 1 \in S
  <2>1. PICK g : Fits(g, k)
    BY <1>2
  <2> DEFINE h == [i \in 0 .. k + 1 |-> IF i <= k THEN g[i] ELSE Onward(g[k], k + 1)]
  <2>2. \A i \in 0 .. k : h[i] = g[i]
    OBVIOUS
  <2>3. \A i \in 0 .. k + 1 : h[i] = IF i = 0 THEN f ELSE Onward(h[i - 1], i)
    <3> SUFFICES ASSUME NEW i \in 0 .. k + 1
                 PROVE  h[i] = IF i = 0 THEN f ELSE Onward(h[i - 1], i)
      OBVIOUS
    <3>1. CASE i = k + 1
      <4>1. h[i] = Onward(g[k], k + 1) /\ h[i - 1] = g[k] /\ i # 0
        BY <3>1
      <4> HIDE DEF h
      <4> QED BY <4>1, <3>1
    <3>2. CASE i \in 0 .. k
      <4>1. h[i] = g[i] /\ (i # 0 => h[i - 1] = g[i - 1])
        BY <2>2, <3>2
      <4>2. g[i] = IF i = 0 THEN f ELSE Onward(g[i - 1], i)
        BY <2>1, <3>2
      <4> HIDE DEF h
      <4> QED BY <4>1, <4>2
    <3> QED BY <3>1, <3>2
  <2>4. Fits(h, k + 1)
    <3>1. h = [i \in 0 .. k + 1 |-> h[i]]
      OBVIOUS
    <3> HIDE DEF h
    <3> QED BY <2>3, <3>1
  <2> HIDE DEF h, Fits
  <2> QED BY <2>4
<1>3. Len(list) \in S
  <2> HIDE DEF S
  <2> QED BY <1>1, <1>2, SetInduction
<1>4. PICK g : IsPlanted(g, f, objs, list)
  BY <1>3 DEF IsPlanted, Onward
<1> QED
  BY <1>4 DEF Planted

LEMMA PlantedStep ==
  ASSUME NEW f, NEW objs, NEW list, Len(list) \in Nat
  PROVE  /\ Planted(f, objs, list)[0] = f
         /\ \A i \in 1 .. Len(list) : Planted(f, objs, list)[i] =
              Plant(Planted(f, objs, list)[i - 1], objs, list[i].id, list[i].node)
         /\ PlantAll(f, objs, list) = Planted(f, objs, list)[Len(list)]
<1> DEFINE g == Planted(f, objs, list)
<1>1. IsPlanted(g, f, objs, list)
  BY PlantedExists
<1>2. PlantAll(f, objs, list) = g[Len(list)]
  BY DEF PlantAll, Planted, IsPlanted
<1> HIDE DEF g
<1>3. \A i \in 0 .. Len(list) :
        g[i] = IF i = 0 THEN f ELSE Plant(g[i - 1], objs, list[i].id, list[i].node)
  BY <1>1 DEF IsPlanted
<1> QED BY <1>2, <1>3 DEF g

\* The function Forest is defined by.
IsScanned(g, R, p) ==
  g = [h \in 0 .. Cardinality(DOMAIN children) |->
         IF h = 0 THEN PlantRoots(DOMAIN children, R)
         ELSE LET f == g[h - 1]
              IN IF h > Len(f.queue) THEN f ELSE PlantChildren(f, children, f.queue[h], p)]
Scanned(R, p) == CHOOSE g : IsScanned(g, R, p)
ScanOne(f, h, p) ==
  IF h > Len(f.queue) THEN f ELSE PlantChildren(f, children, f.queue[h], p)

LEMMA ScannedExists ==
  ASSUME NEW R, NEW p, Cardinality(DOMAIN children) \in Nat
  PROVE  IsScanned(Scanned(R, p), R, p)
<1> DEFINE start == PlantRoots(DOMAIN children, R)
           Fits(g, k) == g = [i \in 0 .. k |-> IF i = 0 THEN start ELSE ScanOne(g[i - 1], i, p)]
           S == {k \in Nat : \E g : Fits(g, k)}
<1> HIDE DEF start
<1>1. 0 \in S
  <2>1. Fits([i \in 0 .. 0 |-> start], 0)
    OBVIOUS
  <2> QED BY <2>1
<1>2. ASSUME NEW k \in Nat, k \in S PROVE k + 1 \in S
  <2>1. PICK g : Fits(g, k)
    BY <1>2
  <2> DEFINE h == [i \in 0 .. k + 1 |-> IF i <= k THEN g[i] ELSE ScanOne(g[k], k + 1, p)]
  <2>2. \A i \in 0 .. k : h[i] = g[i]
    OBVIOUS
  <2>3. \A i \in 0 .. k + 1 : h[i] = IF i = 0 THEN start ELSE ScanOne(h[i - 1], i, p)
    <3> SUFFICES ASSUME NEW i \in 0 .. k + 1
                 PROVE  h[i] = IF i = 0 THEN start ELSE ScanOne(h[i - 1], i, p)
      OBVIOUS
    <3>1. CASE i = k + 1
      <4>1. h[i] = ScanOne(g[k], k + 1, p) /\ h[i - 1] = g[k] /\ i # 0
        BY <3>1
      <4> HIDE DEF h
      <4> QED BY <4>1, <3>1
    <3>2. CASE i \in 0 .. k
      <4>1. h[i] = g[i] /\ (i # 0 => h[i - 1] = g[i - 1])
        BY <2>2, <3>2
      <4>2. g[i] = IF i = 0 THEN start ELSE ScanOne(g[i - 1], i, p)
        BY <2>1, <3>2
      <4> HIDE DEF h
      <4> QED BY <4>1, <4>2
    <3> QED BY <3>1, <3>2
  <2>4. Fits(h, k + 1)
    <3>1. h = [i \in 0 .. k + 1 |-> h[i]]
      OBVIOUS
    <3> HIDE DEF h
    <3> QED BY <2>3, <3>1
  <2> HIDE DEF h, Fits
  <2> QED BY <2>4
<1>3. Cardinality(DOMAIN children) \in S
  <2> HIDE DEF S
  <2> QED BY <1>1, <1>2, SetInduction
<1>4. PICK g : IsScanned(g, R, p)
  BY <1>3 DEF IsScanned, ScanOne, start
<1> QED
  BY <1>4 DEF Scanned

LEMMA ScannedStep ==
  ASSUME NEW R, NEW p, children \in [Objects -> ChildLists]
  PROVE  /\ DOMAIN children = Objects /\ Cardinality(DOMAIN children) = N
         /\ Scanned(R, p)[0] = PlantRoots(Objects, R)
         /\ \A h \in 1 .. N : Scanned(R, p)[h] = ScanOne(Scanned(R, p)[h - 1], h, p)
         /\ Forest(children, R, p) = Scanned(R, p)[N]
<1>1. DOMAIN children = Objects /\ Cardinality(DOMAIN children) = N
  BY SizeAssumption, FS_Interval DEF Objects
<1>2. Forest(children, R, p) = Scanned(R, p)[N]
  BY <1>1 DEF Forest, Scanned, IsScanned
<1> DEFINE g == Scanned(R, p)
<1>3. IsScanned(g, R, p)
  BY <1>1, SizeAssumption, ScannedExists
<1> HIDE DEF g
<1>4. \A h \in 0 .. N : g[h] = IF h = 0 THEN PlantRoots(Objects, R) ELSE ScanOne(g[h - 1], h, p)
  BY <1>1, <1>3 DEF IsScanned, ScanOne
<1> QED BY <1>1, <1>2, <1>4, SizeAssumption DEF g

-----------------------------------------------------------------------------
(* What holds of a forest while it grows *)

\* x was reached over no more objects than y and k more, and if over as many, from no
\* later root.
NotAfter(f, x, y, k) ==
  \/ f.nodes[x].depth < f.nodes[y].depth + k
  \/ f.nodes[x].depth = f.nodes[y].depth + k /\ f.nodes[x].root <= f.nodes[y].root

\* A node is that of a root, or of a child of another node.
IsRootNode(R, o, n) == n.depth = 1 /\ R[n.root] = o /\ n.prefixEnd = o
IsChildNode(f, p, o, n) ==
  /\ n.parent \in DOMAIN f.nodes /\ Edge(n.parent, o)
  /\ n.depth = f.nodes[n.parent].depth + 1 /\ n.root = f.nodes[n.parent].root
  /\ n.prefixEnd = Anchor(f.nodes[n.parent], o, p)
NodeFits(f, R, p, o, n) ==
  /\ n.depth \in Nat \ {0} /\ n.root \in 1 .. Len(R)
  /\ IsRootNode(R, o, n) \/ IsChildNode(f, p, o, n)

\* The queue has every node once, those reached first in front.
Queued(f) ==
  /\ f.queue \in Seq(Objects)
  /\ \A a \in 1 .. Len(f.queue) : f.queue[a] \in DOMAIN f.nodes
  /\ \A o \in DOMAIN f.nodes : o \in Objects /\ \E a \in 1 .. Len(f.queue) : f.queue[a] = o
  /\ \A a, b \in 1 .. Len(f.queue) : a # b => f.queue[a] # f.queue[b]
InOrder(f) ==
  \A a, b \in 1 .. Len(f.queue) : a <= b => NotAfter(f, f.queue[a], f.queue[b], 0)
Tree(f, R, p) == Queued(f) /\ InOrder(f) /\ \A o \in DOMAIN f.nodes : NodeFits(f, R, p, o, f.nodes[o])

\* The first m roots are in, and none is deeper or of a later root than its own.
Rooted(f, R, m) ==
  \A i \in 1 .. m : R[i] \in Objects =>
    R[i] \in DOMAIN f.nodes /\ f.nodes[R[i]].depth = 1 /\ f.nodes[R[i]].root <= i
\* All nodes are at most one reference after x.
Near(f, x) == \A o \in DOMAIN f.nodes : NotAfter(f, o, x, 1)
\* The children of the first h objects of the queue are in, right after them.
Follows(f, x, o) == o \in DOMAIN f.nodes /\ NotAfter(f, o, x, 1)
Served(f, h) ==
  \A a \in 1 .. Len(f.queue) : a <= h => \A o \in Objects : Edge(f.queue[a], o) => Follows(f, f.queue[a], o)
\* All nodes are at most one reference after what is still to be scanned.
Ahead(f, h) == \A a \in 1 .. Len(f.queue) : a > h => Near(f, f.queue[a])

\* g is f with one more node at the end of the queue.
Joins(f, g, o, n) ==
  /\ DOMAIN g.nodes = DOMAIN f.nodes \cup {o} /\ g.nodes[o] = n
  /\ \A x \in DOMAIN f.nodes : g.nodes[x] = f.nodes[x]
  /\ g.queue = Append(f.queue, o)

LEMMA Joined ==
  ASSUME NEW f, NEW o \in Objects, o \notin DOMAIN f.nodes, NEW n
  PROVE  Joins(f, Plant(f, Objects, o, n), o, n)
BY DEF Joins, Plant

LEMMA JoinedQueue ==
  ASSUME NEW f, Queued(f), NEW o \in Objects, o \notin DOMAIN f.nodes, NEW n, NEW g, Joins(f, g, o, n)
  PROVE  /\ Queued(g) /\ Len(g.queue) = Len(f.queue) + 1 /\ g.queue[Len(f.queue) + 1] = o
         /\ \A a \in 1 .. Len(f.queue) : g.queue[a] = f.queue[a]
<1>1. /\ g.queue \in Seq(Objects) /\ Len(f.queue) \in Nat /\ Len(g.queue) = Len(f.queue) + 1
      /\ g.queue[Len(f.queue) + 1] = o
      /\ \A a \in 1 .. Len(f.queue) : g.queue[a] = f.queue[a]
  BY DEF Queued, Joins
<1>2. \A a \in 1 .. Len(g.queue) : a \in 1 .. Len(f.queue) \/ a = Len(f.queue) + 1
  BY <1>1
<1>3. \A a \in 1 .. Len(g.queue) : g.queue[a] \in DOMAIN g.nodes
  BY <1>1, <1>2 DEF Queued, Joins
<1>4. ASSUME NEW x \in DOMAIN g.nodes
      PROVE  x \in Objects /\ \E a \in 1 .. Len(g.queue) : g.queue[a] = x
  <2>1. CASE x = o
    <3>1. Len(f.queue) + 1 \in 1 .. Len(g.queue)
      BY <1>1
    <3> QED BY <1>1, <2>1, <3>1
  <2>2. CASE x # o
    <3>1. x \in DOMAIN f.nodes
      BY <1>4, <2>2 DEF Joins
    <3>2. PICK a \in 1 .. Len(f.queue) : f.queue[a] = x
      BY <3>1 DEF Queued
    <3>3. a \in 1 .. Len(g.queue) /\ g.queue[a] = x
      BY <1>1, <3>2
    <3> QED BY <3>1, <3>3 DEF Queued
  <2> QED BY <2>1, <2>2
<1>5. ASSUME NEW a \in 1 .. Len(g.queue), NEW b \in 1 .. Len(g.queue), a # b
      PROVE  g.queue[a] # g.queue[b]
  <2>1. \A c \in 1 .. Len(f.queue) : f.queue[c] # o
    BY DEF Queued
  <2>2. \A c, d \in 1 .. Len(f.queue) : c # d => f.queue[c] # f.queue[d]
    BY DEF Queued
  <2> QED BY <1>1, <1>2, <1>5, <2>1, <2>2
<1> QED BY <1>1, <1>3, <1>4, <1>5 DEF Queued

\* A node that fits, and is not before any other, keeps the forest a tree.
LEMMA TreeJoined ==
  ASSUME NEW R, NEW p, NEW f, Tree(f, R, p), NEW o \in Objects, o \notin DOMAIN f.nodes, NEW n,
         NodeFits(f, R, p, o, n), NEW g, Joins(f, g, o, n),
         \A x \in DOMAIN f.nodes : NotAfter(g, x, o, 0)
  PROVE  Tree(g, R, p)
<1>1. /\ Queued(g) /\ Len(g.queue) = Len(f.queue) + 1 /\ g.queue[Len(f.queue) + 1] = o
      /\ \A a \in 1 .. Len(f.queue) : g.queue[a] = f.queue[a]
  BY JoinedQueue DEF Tree
<1>2. Len(f.queue) \in Nat
  BY DEF Tree, Queued
<1>3. InOrder(g)
  <2> SUFFICES ASSUME NEW a \in 1 .. Len(g.queue), NEW b \in 1 .. Len(g.queue), a <= b
               PROVE  NotAfter(g, g.queue[a], g.queue[b], 0)
    BY DEF InOrder
  <2>1. CASE b = Len(f.queue) + 1
    <3>1. CASE a = b
      <4>1. g.nodes[o] = n /\ n.depth \in Nat /\ n.root \in Nat
        BY DEF Joins, NodeFits
      <4> QED BY <1>1, <2>1, <3>1, <4>1 DEF NotAfter
    <3>2. CASE a # b
      <4>1. a \in 1 .. Len(f.queue)
        BY <1>1, <1>2, <2>1, <3>2
      <4>2. f.queue[a] \in DOMAIN f.nodes
        BY <4>1 DEF Tree, Queued
      <4> QED BY <1>1, <2>1, <4>1, <4>2
    <3> QED BY <3>1, <3>2
  <2>2. CASE b # Len(f.queue) + 1
    <3>1. a \in 1 .. Len(f.queue) /\ b \in 1 .. Len(f.queue)
      BY <1>1, <1>2, <2>2
    <3>2. NotAfter(f, f.queue[a], f.queue[b], 0) /\ f.queue[a] \in DOMAIN f.nodes
          /\ f.queue[b] \in DOMAIN f.nodes
      BY <3>1 DEF Tree, Queued, InOrder
    <3>3. g.nodes[f.queue[a]] = f.nodes[f.queue[a]] /\ g.nodes[f.queue[b]] = f.nodes[f.queue[b]]
      BY <3>2 DEF Joins
    <3> QED BY <1>1, <3>1, <3>2, <3>3 DEF NotAfter
  <2> QED BY <2>1, <2>2
<1>4. ASSUME NEW x \in DOMAIN g.nodes PROVE NodeFits(g, R, p, x, g.nodes[x])
  <2>1. NodeFits(f, R, p, x, g.nodes[x])
    <3>1. CASE x = o
      BY <3>1 DEF Joins
    <3>2. CASE x # o
      <4>1. x \in DOMAIN f.nodes /\ g.nodes[x] = f.nodes[x]
        BY <1>4, <3>2 DEF Joins
      <4> QED BY <4>1 DEF Tree
    <3> QED BY <3>1, <3>2
  <2>2. CASE IsRootNode(R, x, g.nodes[x])
    BY <2>1, <2>2 DEF NodeFits
  <2>3. CASE IsChildNode(f, p, x, g.nodes[x])
    <3> DEFINE y == g.nodes[x].parent
    <3>1. y \in DOMAIN f.nodes /\ g.nodes[y] = f.nodes[y] /\ y \in DOMAIN g.nodes
      BY <2>3 DEF IsChildNode, Joins
    <3>2. IsChildNode(g, p, x, g.nodes[x])
      BY <2>3, <3>1 DEF IsChildNode
    <3> QED BY <2>1, <3>2 DEF NodeFits
  <2> QED BY <2>1, <2>2, <2>3 DEF NodeFits
<1> QED BY <1>1, <1>3, <1>4 DEF Tree

\* What is true of nodes stays true of them.
LEMMA NodesStay ==
  ASSUME NEW f, NEW g, NEW o, NEW n, Joins(f, g, o, n)
  PROVE  /\ \A R, m : Rooted(f, R, m) => Rooted(g, R, m)
         /\ \A x \in DOMAIN f.nodes : \A y : Follows(f, x, y) => Follows(g, x, y)
         /\ \A x, y \in DOMAIN f.nodes : \A k : NotAfter(f, x, y, k) <=> NotAfter(g, x, y, k)
BY DEF Joins, Rooted, Follows, NotAfter

LEMMA NodeTypes ==
  ASSUME NEW R, NEW p, NEW f, Tree(f, R, p), NEW o \in DOMAIN f.nodes
  PROVE  o \in Objects /\ f.nodes[o].depth \in Nat \ {0} /\ f.nodes[o].root \in Nat
BY DEF Tree, Queued, NodeFits

\* The nodes of a root and of a child.
RootNode(R, i) == [parent |-> 0, prefixEnd |-> R[i], root |-> i, depth |-> 1]
ChildNode(f, x, o, p) ==
  [parent |-> x, prefixEnd |-> Anchor(f.nodes[x], o, p), root |-> f.nodes[x].root,
   depth |-> f.nodes[x].depth + 1]

\* The roots are planted in their order, each over one object.
RootsTo(f, R, p, m) ==
  /\ Tree(f, R, p) /\ Rooted(f, R, m)
  /\ \A o \in DOMAIN f.nodes : f.nodes[o].depth = 1 /\ f.nodes[o].root <= m

LEMMA RootPlanted ==
  ASSUME NEW R \in Seq(Int), NEW p, NEW f, NEW i \in 1 .. Len(R), RootsTo(f, R, p, i - 1),
         NEW n, n = RootNode(R, i)
  PROVE  RootsTo(Plant(f, Objects, R[i], n), R, p, i)
<1> DEFINE o == R[i]
           g == Plant(f, Objects, o, n)
<1>0. n = [parent |-> 0, prefixEnd |-> R[i], root |-> i, depth |-> 1]
  BY DEF RootNode
<1>1. \A x \in DOMAIN f.nodes : f.nodes[x].depth = 1 /\ f.nodes[x].root \in Nat /\ f.nodes[x].root <= i
  BY NodeTypes DEF RootsTo
<1>2. \A j \in 1 .. i : j \in 1 .. i - 1 \/ j = i
  OBVIOUS
<1>3. CASE o \notin Objects \/ o \in DOMAIN f.nodes
  <2>1. g = f
    BY <1>3 DEF Plant
  <2>2. Rooted(f, R, i)
    BY <1>1, <1>2, <1>3 DEF RootsTo, Rooted
  <2>3. RootsTo(f, R, p, i)
    BY <1>1, <2>2 DEF RootsTo
  <2> HIDE DEF g
  <2> QED BY <2>1, <2>3 DEF g
<1>4. CASE o \in Objects /\ o \notin DOMAIN f.nodes
  <2>1. Joins(f, g, o, n)
    BY <1>4, Joined
  <2>2. NodeFits(f, R, p, o, n)
    BY <1>0 DEF NodeFits, IsRootNode
  <2> HIDE DEF g
  <2>3. /\ g.nodes[o].depth = 1 /\ g.nodes[o].root = i
        /\ \A x \in DOMAIN f.nodes : g.nodes[x] = f.nodes[x]
        /\ DOMAIN g.nodes = DOMAIN f.nodes \cup {o}
    BY <1>0, <2>1 DEF Joins
  <2>4. \A x \in DOMAIN f.nodes : NotAfter(g, x, o, 0)
    BY <1>1, <2>3 DEF NotAfter
  <2>5. Tree(f, R, p) /\ Rooted(f, R, i - 1)
    BY DEF RootsTo
  <2> HIDE DEF o
  <2>6. Tree(g, R, p)
    BY <1>4, <2>1, <2>2, <2>4, <2>5, TreeJoined
  <2>7. Rooted(g, R, i)
    <3>1. Rooted(g, R, i - 1)
      BY <2>1, <2>5, NodesStay
    <3> QED BY <1>2, <2>3, <3>1 DEF Rooted, o
  <2>8. \A x \in DOMAIN g.nodes : g.nodes[x].depth = 1 /\ g.nodes[x].root <= i
    BY <1>1, <2>3
  <2> QED BY <2>6, <2>7, <2>8 DEF RootsTo, g, o
<1> QED BY <1>3, <1>4

LEMMA RootsPlanted ==
  ASSUME NEW R \in Seq(Int), NEW p
  PROVE  RootsTo(PlantRoots(Objects, R), R, p, Len(R))
<1> DEFINE none == [nodes |-> <<>>, queue |-> <<>>]
           list == RootNodes(R)
           g == Planted(none, Objects, list)
           S == {k \in Nat : k <= Len(R) => RootsTo(g[k], R, p, k)}
<1>1. /\ Len(list) = Len(R) /\ Len(list) \in Nat
      /\ \A i \in 1 .. Len(R) : list[i].id = R[i] /\ list[i].node = RootNode(R, i)
  BY DEF RootNodes, RootNode
<1> HIDE DEF list
<1>2. /\ g[0] = none
      /\ \A i \in 1 .. Len(R) : g[i] = Plant(g[i - 1], Objects, list[i].id, list[i].node)
      /\ PlantAll(none, Objects, list) = g[Len(R)]
  BY <1>1, PlantedStep
<1> HIDE DEF g
<1>3. 0 \in S
  <2>1. none.queue = <<>> /\ Len(none.queue) = 0 /\ DOMAIN none.nodes = {}
    OBVIOUS
  <2>2. RootsTo(none, R, p, 0)
    BY <2>1 DEF RootsTo, Tree, Queued, InOrder, Rooted
  <2> QED BY <1>2, <2>2
<1> HIDE DEF none
<1>4. ASSUME NEW k \in Nat, k \in S PROVE k + 1 \in S
  <2> SUFFICES ASSUME k + 1 <= Len(R) PROVE RootsTo(g[k + 1], R, p, k + 1)
    OBVIOUS
  <2>1. k + 1 \in 1 .. Len(R) /\ (k + 1) - 1 = k /\ RootsTo(g[k], R, p, k)
    BY <1>1, <1>4
  <2>2. g[k + 1] = Plant(g[k], Objects, R[k + 1], RootNode(R, k + 1))
    BY <1>1, <1>2, <2>1
  <2> QED BY <2>1, <2>2, RootPlanted
<1>5. Len(R) \in S
  <2>1. \A k \in Nat : k \in S
    <3> HIDE DEF S
    <3> QED BY <1>3, <1>4, SetInduction
  <2> QED BY <1>1, <2>1
<1> QED BY <1>1, <1>2, <1>5 DEF PlantRoots, none, list

\* The first j children of x, at place h of the queue, are planted.
ServesTo(f, R, p, h, x, j) ==
  /\ Tree(f, R, p) /\ Rooted(f, R, Len(R)) /\ Served(f, h - 1) /\ Near(f, x)
  /\ h \in 1 .. Len(f.queue) /\ f.queue[h] = x
  /\ \A c \in 1 .. j : children[x][c] \in Objects => children[x][c] \in DOMAIN f.nodes

LEMMA ChildPlanted ==
  ASSUME NEW R \in Seq(Int), NEW p, NEW f, NEW h \in Nat \ {0}, NEW x, NEW j \in Nat,
         ServesTo(f, R, p, h, x, j), j + 1 <= Len(children[x]), Len(children[x]) \in Nat,
         NEW o, o = children[x][j + 1], NEW n, n = ChildNode(f, x, o, p)
  PROVE  /\ ServesTo(Plant(f, Objects, o, n), R, p, h, x, j + 1)
         /\ Plant(f, Objects, o, n).nodes[x] = f.nodes[x]
<1> DEFINE g == Plant(f, Objects, o, n)
<1>0. n = [parent |-> x, prefixEnd |-> Anchor(f.nodes[x], o, p),
           root |-> f.nodes[x].root, depth |-> f.nodes[x].depth + 1]
  BY DEF ChildNode
<1>1. x \in DOMAIN f.nodes /\ Tree(f, R, p) /\ Queued(f) /\ Near(f, x)
      /\ f.nodes[x].depth \in Nat \ {0} /\ f.nodes[x].root \in 1 .. Len(R)
  BY DEF ServesTo, Tree, Queued, NodeFits
<1>2. \A c \in 1 .. j + 1 : c \in 1 .. j \/ c = j + 1
  OBVIOUS
<1>3. CASE o \notin Objects \/ o \in DOMAIN f.nodes
  <2>1. g = f
    BY <1>3 DEF Plant
  <2> HIDE DEF g
  <2>2. ServesTo(f, R, p, h, x, j + 1)
    BY <1>2, <1>3 DEF ServesTo
  <2> QED BY <2>1, <2>2 DEF g
<1>4. CASE o \in Objects /\ o \notin DOMAIN f.nodes
  <2>1. Joins(f, g, o, n)
    BY <1>4, Joined
  <2> HIDE DEF g
  <2>2. NodeFits(f, R, p, o, n)
    <3>1. Edge(x, o)
      BY DEF Edge
    <3>2. /\ n.parent = x /\ n.prefixEnd = Anchor(f.nodes[x], o, p)
          /\ n.root = f.nodes[x].root /\ n.depth = f.nodes[x].depth + 1
      BY <1>0
    <3>3. IsChildNode(f, p, o, n)
      BY <1>1, <3>1, <3>2 DEF IsChildNode
    <3>4. n.depth \in Nat \ {0} /\ n.root \in 1 .. Len(R)
      BY <1>1, <3>2
    <3> QED BY <3>3, <3>4 DEF NodeFits
  <2>3. /\ g.nodes[o].depth = g.nodes[x].depth + 1 /\ g.nodes[o].root = g.nodes[x].root
        /\ g.nodes[x] = f.nodes[x] /\ x \in DOMAIN g.nodes
        /\ \A y \in DOMAIN f.nodes : g.nodes[y] = f.nodes[y]
        /\ DOMAIN g.nodes = DOMAIN f.nodes \cup {o}
    BY <1>0, <1>1, <2>1 DEF Joins
  <2>4. \A y \in DOMAIN f.nodes : NotAfter(g, y, x, 1)
    BY <1>1, <2>3 DEF Near, NotAfter
  <2>5. \A y \in DOMAIN f.nodes : NotAfter(g, y, o, 0)
    <3> SUFFICES ASSUME NEW y \in DOMAIN f.nodes PROVE NotAfter(g, y, o, 0)
      OBVIOUS
    <3>1. NotAfter(g, y, x, 1) /\ g.nodes[y].depth \in Nat /\ g.nodes[x].depth \in Nat
      BY <1>1, <2>3, <2>4, NodeTypes
    <3> QED BY <2>3, <3>1 DEF NotAfter
  <2>6. Tree(g, R, p)
    BY <1>1, <1>4, <2>1, <2>2, <2>5, TreeJoined
  <2>7. /\ Len(g.queue) = Len(f.queue) + 1 /\ \A a \in 1 .. Len(f.queue) : g.queue[a] = f.queue[a]
    BY <1>1, <1>4, <2>1, JoinedQueue
  <2>8. Rooted(g, R, Len(R))
    BY <2>1, NodesStay DEF ServesTo
  <2>9. Near(g, x)
    <3>1. NotAfter(g, o, x, 1)
      BY <1>1, <2>3 DEF NotAfter
    <3> QED BY <2>3, <2>4, <3>1 DEF Near
  <2>10. h \in 1 .. Len(f.queue) /\ Len(f.queue) \in Nat /\ f.queue[h] = x
    BY <1>1 DEF ServesTo, Queued
  <2>11. h \in 1 .. Len(g.queue) /\ g.queue[h] = x
    BY <2>7, <2>10
  <2>12. Served(g, h - 1)
    <3> SUFFICES ASSUME NEW a \in 1 .. Len(g.queue), a <= h - 1, NEW y \in Objects, Edge(g.queue[a], y)
                 PROVE  Follows(g, g.queue[a], y)
      BY DEF Served
    <3>1. a \in 1 .. Len(f.queue) /\ g.queue[a] = f.queue[a]
      BY <2>7, <2>10
    <3>2. Follows(f, f.queue[a], y) /\ f.queue[a] \in DOMAIN f.nodes
      BY <1>1, <3>1 DEF ServesTo, Served, Queued
    <3> QED BY <2>1, <3>1, <3>2, NodesStay
  <2>13. \A c \in 1 .. j + 1 : children[x][c] \in Objects => children[x][c] \in DOMAIN g.nodes
    BY <1>2, <2>3 DEF ServesTo
  <2>14. ServesTo(g, R, p, h, x, j + 1)
    BY <2>6, <2>8, <2>9, <2>11, <2>12, <2>13 DEF ServesTo
  <2> QED BY <2>3, <2>14 DEF g
<1> QED BY <1>3, <1>4

LEMMA ChildrenPlanted ==
  ASSUME children \in [Objects -> ChildLists],
         NEW R \in Seq(Int), NEW p, NEW f, NEW h \in Nat \ {0}, NEW x \in Objects,
         ServesTo(f, R, p, h, x, 0)
  PROVE  ServesTo(PlantChildren(f, children, x, p), R, p, h, x, Len(children[x]))
<1> DEFINE list == ChildNodes(f, children, x, p)
           m == Len(children[x])
           g == Planted(f, Objects, list)
           Fits(k) == ServesTo(g[k], R, p, h, x, k) /\ g[k].nodes[x] = f.nodes[x]
           S == {k \in Nat : k <= m => Fits(k)}
<1>1. m \in Nat /\ DOMAIN children = Objects
  BY ListsAssumption
<1>2. /\ Len(list) = m
      /\ \A i \in 1 .. m : /\ list[i].id = children[x][i]
                           /\ list[i].node = ChildNode(f, x, children[x][i], p)
  BY <1>1 DEF ChildNodes, ChildNode
<1>3. PlantChildren(f, children, x, p) = PlantAll(f, Objects, list)
  BY <1>1 DEF PlantChildren
<1> HIDE DEF list
<1>4. /\ g[0] = f
      /\ \A i \in 1 .. m : g[i] = Plant(g[i - 1], Objects, list[i].id, list[i].node)
      /\ PlantAll(f, Objects, list) = g[m]
  BY <1>1, <1>2, PlantedStep
<1> HIDE DEF g
<1>5. 0 \in S
  BY <1>4
<1>6. ASSUME NEW k \in Nat, k \in S PROVE k + 1 \in S
  <2> SUFFICES ASSUME k + 1 <= m PROVE Fits(k + 1)
    OBVIOUS
  <2>1. k + 1 \in 1 .. m /\ (k + 1) - 1 = k /\ Fits(k) /\ k + 1 \in Nat \ {0}
    BY <1>1, <1>6
  <2> DEFINE o == children[x][k + 1]
             n == ChildNode(g[k], x, o, p)
  <2>2. n = ChildNode(f, x, o, p)
    BY <2>1 DEF ChildNode
  <2>3. o = children[x][k + 1] /\ n = ChildNode(g[k], x, o, p)
    OBVIOUS
  <2> HIDE DEF n
  <2>4. g[k + 1] = Plant(g[k], Objects, o, n)
    BY <1>2, <1>4, <2>1, <2>2
  <2> HIDE DEF o
  <2>5. ServesTo(g[k], R, p, h, x, k) /\ k + 1 <= Len(children[x])
    BY <2>1
  <2>6. /\ ServesTo(Plant(g[k], Objects, o, n), R, p, h, x, k + 1)
        /\ Plant(g[k], Objects, o, n).nodes[x] = g[k].nodes[x]
    BY <1>1, <2>3, <2>5, ChildPlanted
  <2> QED BY <2>1, <2>4, <2>6
<1>7. m \in S
  <2>1. \A k \in Nat : k \in S
    <3> HIDE DEF S
    <3> QED BY <1>5, <1>6, SetInduction
  <2> QED BY <1>1, <2>1
<1> QED BY <1>1, <1>3, <1>4, <1>7

\* One reference after what is not after the third is at most one after it.
LEMMA FarAndFar ==
  ASSUME NEW f, NEW x, NEW y, NEW z, NotAfter(f, x, y, 1), NotAfter(f, y, z, 0),
         f.nodes[x].depth \in Nat, f.nodes[y].depth \in Nat, f.nodes[z].depth \in Nat,
         f.nodes[x].root \in Nat, f.nodes[y].root \in Nat, f.nodes[z].root \in Nat
  PROVE  NotAfter(f, x, z, 1)
<1> DEFINE a == f.nodes[x].depth
           b == f.nodes[y].depth
           c == f.nodes[z].depth
           s == f.nodes[x].root
           t == f.nodes[y].root
           u == f.nodes[z].root
<1>1. a \in Nat /\ b \in Nat /\ c \in Nat /\ s \in Nat /\ t \in Nat /\ u \in Nat
  OBVIOUS
<1>2. a < b + 1 \/ (a = b + 1 /\ s <= t)
  BY DEF NotAfter
<1>3. b < c + 0 \/ (b = c + 0 /\ t <= u)
  BY DEF NotAfter
<1>4. SUFFICES a < c + 1 \/ (a = c + 1 /\ s <= u)
  BY DEF NotAfter
<1> HIDE DEF a, b, c, s, t, u
<1> QED BY <1>1, <1>2, <1>3

\* One more object of the queue is scanned.
ScannedTo(f, R, p, h) ==
  Tree(f, R, p) /\ Rooted(f, R, Len(R)) /\ Served(f, h) /\ Ahead(f, h)

LEMMA ScanOn ==
  ASSUME children \in [Objects -> ChildLists],
         NEW R \in Seq(Int), NEW p, NEW f, NEW h \in Nat \ {0}, ScannedTo(f, R, p, h - 1)
  PROVE  ScannedTo(ScanOne(f, h, p), R, p, h)
<1>1. f.queue \in Seq(Objects) /\ Len(f.queue) \in Nat /\ Tree(f, R, p)
  BY DEF ScannedTo, Tree, Queued
<1>2. CASE h > Len(f.queue)
  <2>1. ScanOne(f, h, p) = f
    BY <1>2 DEF ScanOne
  <2>2. \A a \in 1 .. Len(f.queue) : a <= h - 1 /\ ~ (a > h)
    BY <1>1, <1>2
  <2> QED BY <2>1, <2>2 DEF ScannedTo, Served, Ahead
<1>3. CASE ~ (h > Len(f.queue))
  <2> DEFINE x == f.queue[h]
             g == PlantChildren(f, children, x, p)
  <2>1. ScanOne(f, h, p) = g /\ h \in 1 .. Len(f.queue) /\ x \in Objects
    BY <1>1, <1>3 DEF ScanOne
  <2>2. Near(f, x)
    BY <2>1 DEF ScannedTo, Ahead
  <2>3. ServesTo(f, R, p, h, x, 0)
    BY <2>1, <2>2 DEF ScannedTo, ServesTo
  <2>4. ServesTo(g, R, p, h, x, Len(children[x]))
    <3> HIDE DEF x
    <3> QED BY <2>1, <2>3, ChildrenPlanted
  <2> HIDE DEF g, x
  <2>5. /\ Tree(g, R, p) /\ Rooted(g, R, Len(R)) /\ Near(g, x) /\ g.queue[h] = x
        /\ h \in 1 .. Len(g.queue) /\ Len(g.queue) \in Nat
    BY <2>4 DEF ServesTo, Tree, Queued
  <2>6. Served(g, h)
    <3> SUFFICES ASSUME NEW a \in 1 .. Len(g.queue), a <= h, NEW o \in Objects, Edge(g.queue[a], o)
                 PROVE  Follows(g, g.queue[a], o)
      BY DEF Served
    <3>1. CASE a = h
      <4>1. PICK c \in 1 .. Len(children[x]) : children[x][c] = o
        BY <2>5, <3>1 DEF Edge
      <4>2. o \in DOMAIN g.nodes
        BY <2>4, <4>1 DEF ServesTo
      <4> QED BY <2>5, <3>1, <4>2 DEF Near, Follows
    <3>2. CASE a # h
      <4>1. a <= h - 1
        BY <3>2
      <4> QED BY <2>4, <4>1 DEF ServesTo, Served
    <3> QED BY <3>1, <3>2
  <2>7. Ahead(g, h)
    <3> SUFFICES ASSUME NEW a \in 1 .. Len(g.queue), a > h, NEW o \in DOMAIN g.nodes
                 PROVE  NotAfter(g, o, g.queue[a], 1)
      BY DEF Ahead, Near
    <3>1. NotAfter(g, o, x, 1) /\ NotAfter(g, x, g.queue[a], 0)
      BY <2>5 DEF Near, Tree, InOrder
    <3>2. x \in DOMAIN g.nodes /\ g.queue[a] \in DOMAIN g.nodes
      BY <2>5 DEF Tree, Queued
    <3>3. /\ g.nodes[x].depth \in Nat /\ g.nodes[x].root \in Nat
          /\ g.nodes[o].depth \in Nat /\ g.nodes[o].root \in Nat
          /\ g.nodes[g.queue[a]].depth \in Nat /\ g.nodes[g.queue[a]].root \in Nat
      BY <2>5, <3>2, NodeTypes
    <3> QED BY <3>1, <3>3, FarAndFar
  <2> QED BY <2>1, <2>5, <2>6, <2>7 DEF ScannedTo
<1> QED BY <1>2, <1>3

\* The queue is no longer than there are objects.
LEMMA QueueFits == ASSUME NEW f, Queued(f) PROVE Len(f.queue) \in 0 .. N
<1> DEFINE q == f.queue
<1>1. q \in Seq(Objects) /\ \A a, b \in 1 .. Len(q) : a # b => q[a] # q[b]
  BY DEF Queued
<1> HIDE DEF q
<1>2. q \in [1 .. Len(q) -> Objects] /\ Len(q) \in Nat
  BY <1>1
<1>3. q \in Injection(1 .. Len(q), Objects)
  BY <1>1, <1>2 DEF Injection, IsInjective
<1>4. IsFiniteSet(Objects) /\ Cardinality(Objects) = N
  BY SizeAssumption, FS_Interval DEF Objects
<1>5. Cardinality(1 .. Len(q)) <= N
  BY <1>3, <1>4, FS_Injection
<1>6. Cardinality(1 .. Len(q)) = Len(q)
  <2>1. \A n \in Nat : Cardinality(1 .. n) = n
    BY FS_Interval
  <2> QED BY <1>2, <2>1
<1> QED BY <1>2, <1>5, <1>6, SizeAssumption DEF q

\* A whole forest: every node's children are in, right after it.
Whole(f, R, p) == Tree(f, R, p) /\ Rooted(f, R, Len(R)) /\ Served(f, Len(f.queue))

LEMMA ForestIsWhole ==
  ASSUME children \in [Objects -> ChildLists], NEW R \in Seq(Int), NEW p
  PROVE  Whole(Forest(children, R, p), R, p)
<1> DEFINE g == Scanned(R, p)
           S == {k \in Nat : k <= N => ScannedTo(g[k], R, p, k)}
<1>1. /\ g[0] = PlantRoots(Objects, R)
      /\ \A h \in 1 .. N : g[h] = ScanOne(g[h - 1], h, p)
      /\ Forest(children, R, p) = g[N]
  BY ScannedStep
<1> HIDE DEF g
<1>2. 0 \in S
  <2>1. RootsTo(g[0], R, p, Len(R))
    BY <1>1, RootsPlanted
  <2>2. Served(g[0], 0)
    BY DEF Served
  <2>3. Ahead(g[0], 0)
    <3> SUFFICES ASSUME NEW a \in 1 .. Len(g[0].queue), NEW o \in DOMAIN g[0].nodes
                 PROVE  NotAfter(g[0], o, g[0].queue[a], 1)
      BY DEF Ahead, Near
    <3>1. g[0].queue[a] \in DOMAIN g[0].nodes
      BY <2>1 DEF RootsTo, Tree, Queued
    <3> QED BY <2>1, <3>1 DEF RootsTo, NotAfter
  <2> QED BY <2>1, <2>2, <2>3 DEF ScannedTo, RootsTo
<1>3. ASSUME NEW k \in Nat, k \in S PROVE k + 1 \in S
  <2> SUFFICES ASSUME k + 1 <= N PROVE ScannedTo(g[k + 1], R, p, k + 1)
    OBVIOUS
  <2>1. k + 1 \in 1 .. N /\ k + 1 \in Nat \ {0} /\ (k + 1) - 1 = k /\ ScannedTo(g[k], R, p, k)
    BY <1>3, SizeAssumption
  <2>2. g[k + 1] = ScanOne(g[k], k + 1, p)
    BY <1>1, <2>1
  <2> QED BY <2>1, <2>2, ScanOn
<1>4. N \in S
  <2>1. \A k \in Nat : k \in S
    <3> HIDE DEF S
    <3> QED BY <1>2, <1>3, SetInduction
  <2> QED BY <2>1, SizeAssumption
<1>5. ScannedTo(g[N], R, p, N)
  BY <1>4, SizeAssumption
<1>6. Len(g[N].queue) \in 0 .. N
  BY <1>5, QueueFits DEF ScannedTo, Tree
<1>7. Served(g[N], Len(g[N].queue))
  <2>1. \A a \in 1 .. Len(g[N].queue) : a <= N
    BY <1>6, SizeAssumption
  <2> QED BY <1>5, <2>1 DEF ScannedTo, Served
<1> QED BY <1>1, <1>5, <1>7 DEF Whole, ScannedTo

\* Along a path of predecessors, Collect goes back from any object of it.
LEMMA Collected ==
  ASSUME NEW w \in Seq(Objects), NEW f,
         \A i \in 1 .. Len(w) - 1 : f.nodes[w[i + 1]].parent = w[i],
         NEW m \in 1 .. Len(w), NEW n \in 0 .. m
  PROVE  /\ Collect(f, w[m], n) = SubSeq(w, m - n + 1, m)
         /\ Len(Collect(f, w[m], n)) = n
<1> DEFINE Goes(g) == g = [k \in 0 .. n - 1 |-> IF k = 0 THEN w[m] ELSE f.nodes[g[k - 1]].parent]
           b == CHOOSE g : Goes(g)
           a == [k \in 0 .. n - 1 |-> w[m - k]]
<1>1. Collect(f, w[m], n) = [i \in 1 .. n |-> b[n - i]]
  BY DEF Collect
<1>2. ASSUME NEW k \in 0 .. n - 1, k # 0 PROVE f.nodes[w[m - (k - 1)]].parent = w[m - k]
  <2>1. m - k \in 1 .. Len(w) - 1 /\ (m - k) + 1 = m - (k - 1)
    BY <1>2
  <2> QED BY <2>1
<1>3. Goes(a)
  <2>1. \A k \in 0 .. n - 1 : a[k] = IF k = 0 THEN w[m] ELSE f.nodes[a[k - 1]].parent
    <3> SUFFICES ASSUME NEW k \in 0 .. n - 1
                 PROVE  a[k] = IF k = 0 THEN w[m] ELSE f.nodes[a[k - 1]].parent
      OBVIOUS
    <3>1. CASE k = 0
      BY <3>1
    <3>2. CASE k # 0
      <4>1. a[k] = w[m - k] /\ a[k - 1] = w[m - (k - 1)]
        BY <3>2
      <4> HIDE DEF a
      <4> QED BY <1>2, <3>2, <4>1
    <3> QED BY <3>1, <3>2
  <2>2. a = [k \in 0 .. n - 1 |-> a[k]]
    OBVIOUS
  <2> HIDE DEF a
  <2> QED BY <2>1, <2>2
<1>4. Goes(b)
  <2> HIDE DEF Goes
  <2> QED BY <1>3
<1>5. \A k \in 0 .. n - 1 : b[k] = w[m - k]
  <2> DEFINE S == {k \in Nat : k < n => b[k] = w[m - k]}
  <2> HIDE DEF b
  <2>1. 0 \in S
    BY <1>4
  <2>2. ASSUME NEW k \in Nat, k \in S PROVE k + 1 \in S
    <3> SUFFICES ASSUME k + 1 < n PROVE b[k + 1] = w[m - (k + 1)]
      OBVIOUS
    <3>1. k + 1 \in 0 .. n - 1 /\ k + 1 # 0 /\ (k + 1) - 1 = k
      OBVIOUS
    <3>2. b[k] = w[m - k]
      BY <2>2
    <3>3. b[k + 1] = f.nodes[b[k]].parent
      BY <1>4, <3>1
    <3>4. f.nodes[w[m - k]].parent = w[m - (k + 1)]
      BY <1>2, <3>1
    <3> QED BY <3>2, <3>3, <3>4
  <2>3. \A k \in Nat : k \in S
    <3> HIDE DEF S
    <3> QED BY <2>1, <2>2, SetInduction
  <2> QED BY <2>3
<1> HIDE DEF b
<1>6. \A i \in 1 .. n : b[n - i] = w[m - n + i]
  <2> SUFFICES ASSUME NEW i \in 1 .. n PROVE b[n - i] = w[m - n + i]
    OBVIOUS
  <2>1. n - i \in 0 .. n - 1 /\ m - (n - i) = m - n + i
    OBVIOUS
  <2>2. b[n - i] = w[m - (n - i)]
    BY <1>5, <2>1
  <2> QED BY <2>1, <2>2
<1>7. Collect(f, w[m], n) = [i \in 1 .. n |-> w[m - n + i]]
  BY <1>1, <1>6
<1>8. SubSeq(w, m - n + 1, m) = [i \in 1 .. n |-> w[m - n + i]]
  OBVIOUS
<1> QED BY <1>7, <1>8

-----------------------------------------------------------------------------
(* Paths in a whole forest *)

\* No path from a root gets to an object before its node does.
InTime(f, o, k, i) ==
  /\ o \in DOMAIN f.nodes
  /\ f.nodes[o].depth < k \/ (f.nodes[o].depth = k /\ f.nodes[o].root <= i)

LEMMA Closest ==
  ASSUME NEW R \in Seq(Int), NEW p, NEW f, Whole(f, R, p), NEW i \in 1 .. Len(R),
         NEW m \in Nat, NEW q \in [1 .. m -> Objects], q[1] = R[i], Linked(q), NEW k \in 1 .. m
  PROVE  InTime(f, q[k], k, i)
<1> DEFINE S == {n \in Nat : n \in 1 .. m => InTime(f, q[n], n, i)}
<1>1. 0 \in S
  OBVIOUS
<1>2. ASSUME NEW n \in Nat, n \in S PROVE n + 1 \in S
  <2> SUFFICES ASSUME n + 1 \in 1 .. m PROVE InTime(f, q[n + 1], n + 1, i)
    OBVIOUS
  <2>1. CASE n = 0
    <3>1. q[n + 1] = R[i] /\ q[n + 1] \in Objects
      BY <2>1
    <3>2. R[i] \in DOMAIN f.nodes /\ f.nodes[R[i]].depth = 1 /\ f.nodes[R[i]].root <= i
      BY <3>1 DEF Whole, Rooted
    <3> QED BY <2>1, <3>1, <3>2 DEF InTime
  <2>2. CASE n # 0
    <3>1. n \in 1 .. m /\ n \in 1 .. Len(q) - 1 /\ Len(q) = m
      BY <2>2, FunctionIsSequence
    <3>2. Edge(q[n], q[n + 1]) /\ q[n + 1] \in Objects /\ InTime(f, q[n], n, i)
      BY <1>2, <3>1 DEF Linked
    <3>3. Queued(f) /\ Tree(f, R, p)
      BY DEF Whole, Tree
    <3>4. q[n] \in DOMAIN f.nodes
      BY <3>2 DEF InTime
    <3>5. PICK a \in 1 .. Len(f.queue) : f.queue[a] = q[n]
      BY <3>3, <3>4 DEF Queued
    <3>6. Len(f.queue) \in Nat
      BY <3>3 DEF Queued
    <3>7. Follows(f, q[n], q[n + 1])
      BY <3>2, <3>5, <3>6 DEF Whole, Served
    <3>8. q[n + 1] \in DOMAIN f.nodes /\ NotAfter(f, q[n + 1], q[n], 1)
      BY <3>7 DEF Follows
    <3> DEFINE a1 == f.nodes[q[n]].depth
               b1 == f.nodes[q[n + 1]].depth
               s1 == f.nodes[q[n]].root
               t1 == f.nodes[q[n + 1]].root
    <3>9. a1 \in Nat /\ b1 \in Nat /\ s1 \in Nat /\ t1 \in Nat
      BY <3>3, <3>4, <3>8, NodeTypes
    <3>10. a1 < n \/ (a1 = n /\ s1 <= i)
      BY <3>2 DEF InTime
    <3>11. b1 < a1 + 1 \/ (b1 = a1 + 1 /\ t1 <= s1)
      BY <3>8 DEF NotAfter
    <3>12. b1 < n + 1 \/ (b1 = n + 1 /\ t1 <= i)
      <4> HIDE DEF a1, b1, s1, t1
      <4>1. i \in Nat
        OBVIOUS
      <4> QED BY <3>9, <3>10, <3>11, <4>1
    <3> QED BY <3>8, <3>12 DEF InTime
  <2> QED BY <2>1, <2>2
<1>3. \A n \in Nat : n \in S
  <2> HIDE DEF S
  <2> QED BY <1>1, <1>2, SetInduction
<1> QED BY <1>3

\* The path of an object in the forest.
Descends(f, R, p, w, o) ==
  LET m == f.nodes[o].depth
  IN /\ w \in [1 .. m -> Objects] /\ w[1] = R[f.nodes[o].root] /\ w[m] = o
     /\ \A i \in 1 .. m - 1 : Edge(w[i], w[i + 1]) /\ f.nodes[w[i + 1]].parent = w[i]
     /\ p > 0 => f.nodes[o].prefixEnd = w[IF m <= p THEN m ELSE p]

LEMMA DescentOn ==
  ASSUME NEW R \in Seq(Int), NEW p \in Nat, NEW f, NEW o \in Objects, NEW x, NEW v,
         IsChildNode(f, p, o, f.nodes[o]), x = f.nodes[o].parent, f.nodes[x].depth \in Nat \ {0},
         Descends(f, R, p, v, x)
  PROVE  \E w : Descends(f, R, p, w, o)
<1> DEFINE m == f.nodes[x].depth
           w == [i \in 1 .. m + 1 |-> IF i = m + 1 THEN o ELSE v[i]]
<1>1. /\ f.nodes[o].depth = m + 1 /\ f.nodes[o].root = f.nodes[x].root /\ Edge(x, o)
      /\ f.nodes[o].prefixEnd = Anchor(f.nodes[x], o, p)
  BY DEF IsChildNode
<1>2. /\ v \in [1 .. m -> Objects] /\ v[1] = R[f.nodes[x].root] /\ v[m] = x
      /\ \A i \in 1 .. m - 1 : Edge(v[i], v[i + 1]) /\ f.nodes[v[i + 1]].parent = v[i]
      /\ p > 0 => f.nodes[x].prefixEnd = v[IF m <= p THEN m ELSE p]
  BY DEF Descends
<1>3. m \in Nat \ {0}
  OBVIOUS
<1>4. f.nodes[o].prefixEnd = IF m < p THEN o ELSE f.nodes[x].prefixEnd
  BY <1>1 DEF Anchor
<1> HIDE DEF m
<1>5. w \in [1 .. m + 1 -> Objects] /\ w[m + 1] = o /\ \A i \in 1 .. m : w[i] = v[i]
  BY <1>2, <1>3
<1> HIDE DEF w
<1>6. w[1] = R[f.nodes[o].root]
  BY <1>1, <1>2, <1>3, <1>5
<1>7. ASSUME NEW i \in 1 .. m PROVE Edge(w[i], w[i + 1]) /\ f.nodes[w[i + 1]].parent = w[i]
  <2>1. CASE i = m
    BY <1>1, <1>2, <1>3, <1>5, <2>1
  <2>2. CASE i # m
    <3>1. i \in 1 .. m - 1 /\ i + 1 \in 1 .. m
      BY <1>3, <2>2
    <3> QED BY <1>2, <1>5, <3>1
  <2> QED BY <2>1, <2>2
<1>8. ASSUME p > 0 PROVE f.nodes[o].prefixEnd = w[IF m + 1 <= p THEN m + 1 ELSE p]
  <2>1. CASE m < p
    BY <1>3, <1>4, <1>5, <2>1
  <2>2. CASE ~ (m < p)
    <3>1. p \in 1 .. m /\ (IF m <= p THEN m ELSE p) = p /\ (IF m + 1 <= p THEN m + 1 ELSE p) = p
      BY <1>3, <1>8, <2>2
    <3> QED BY <1>2, <1>4, <1>5, <1>8, <2>2, <3>1
  <2> QED BY <2>1, <2>2
<1>9. (m + 1) - 1 = m
  BY <1>3
<1> DEFINE Goal(d) ==
      /\ w \in [1 .. d -> Objects] /\ w[1] = R[f.nodes[o].root] /\ w[d] = o
      /\ \A i \in 1 .. d - 1 : Edge(w[i], w[i + 1]) /\ f.nodes[w[i + 1]].parent = w[i]
      /\ p > 0 => f.nodes[o].prefixEnd = w[IF d <= p THEN d ELSE p]
<1>10. Goal(m + 1)
  BY <1>5, <1>6, <1>7, <1>8, <1>9
<1>11. Goal(f.nodes[o].depth)
  <2> HIDE DEF Goal
  <2> QED BY <1>1, <1>10
<1> QED BY <1>11 DEF Descends

LEMMA Descent ==
  ASSUME NEW R \in Seq(Int), NEW p \in Nat, NEW f, Tree(f, R, p), NEW o \in DOMAIN f.nodes
  PROVE  \E w : Descends(f, R, p, w, o)
<1> DEFINE Has(x) == \E w : Descends(f, R, p, w, x)
           S == {m \in Nat : \A x \in DOMAIN f.nodes : f.nodes[x].depth = m => Has(x)}
<1>1. \A x \in DOMAIN f.nodes : /\ x \in Objects /\ NodeFits(f, R, p, x, f.nodes[x])
                                /\ f.nodes[x].depth \in Nat \ {0}
  BY NodeTypes DEF Tree
<1>2. 0 \in S
  BY <1>1
<1>3. ASSUME NEW m \in Nat, m \in S PROVE m + 1 \in S
  <2> SUFFICES ASSUME NEW x \in DOMAIN f.nodes, f.nodes[x].depth = m + 1 PROVE Has(x)
    OBVIOUS
  <2>1. CASE IsRootNode(R, x, f.nodes[x])
    <3> DEFINE w == [i \in 1 .. 1 |-> x]
    <3>1. w \in [1 .. 1 -> Objects] /\ w[1] = x
      BY <1>1
    <3> HIDE DEF w
    <3>2. f.nodes[x].depth = 1 /\ R[f.nodes[x].root] = x /\ f.nodes[x].prefixEnd = x
      BY <2>1 DEF IsRootNode
    <3>3. p > 0 => (IF 1 <= p THEN 1 ELSE p) = 1
      OBVIOUS
    <3>4. \A i \in 1 .. 1 - 1 : FALSE
      OBVIOUS
    <3> QED BY <3>1, <3>2, <3>3, <3>4 DEF Descends
  <2>2. CASE IsChildNode(f, p, x, f.nodes[x])
    <3> DEFINE y == f.nodes[x].parent
    <3>1. y \in DOMAIN f.nodes /\ f.nodes[x].depth = f.nodes[y].depth + 1
      BY <2>2 DEF IsChildNode
    <3>2. f.nodes[y].depth \in Nat \ {0} /\ x \in Objects
      BY <1>1, <3>1
    <3>3. f.nodes[y].depth = m
      BY <3>1, <3>2
    <3>4. PICK v : Descends(f, R, p, v, y)
      BY <1>3, <3>1, <3>3
    <3> QED BY <2>2, <3>2, <3>4, DescentOn
  <2> QED BY <1>1, <2>1, <2>2 DEF NodeFits
<1>4. \A m \in Nat : m \in S
  <2> HIDE DEF S
  <2> QED BY <1>2, <1>3, SetInduction
<1> QED BY <1>1, <1>4

\* A path from a root stays in what is reachable.
LEMMA PathStays ==
  ASSUME NEW m \in Nat, NEW q \in [1 .. m -> Objects], q[1] \in ValidRoots, Linked(q),
         NEW k \in 1 .. m
  PROVE  q[k] \in Reachable
<1> DEFINE S == {n \in Nat : n \in 1 .. m => q[n] \in Reachable}
<1>1. 0 \in S
  OBVIOUS
<1>2. ASSUME NEW n \in Nat, n \in S PROVE n + 1 \in S
  <2> SUFFICES ASSUME n + 1 \in 1 .. m PROVE q[n + 1] \in Reachable
    OBVIOUS
  <2>1. CASE n = 0
    BY <2>1, ReachableIsLeast
  <2>2. CASE n # 0
    <3>1. n \in 1 .. m /\ n \in 1 .. Len(q) - 1
      BY <2>2, FunctionIsSequence
    <3>2. Edge(q[n], q[n + 1]) /\ q[n + 1] \in Objects /\ q[n] \in Reachable
      BY <1>2, <3>1 DEF Linked
    <3> QED BY <3>2, ReachableIsLeast DEF Closed
  <2> QED BY <2>1, <2>2
<1>3. \A n \in Nat : n \in S
  <2> HIDE DEF S
  <2> QED BY <1>1, <1>2, SetInduction
<1> QED BY <1>3

-----------------------------------------------------------------------------
(* The order of an export *)

\* Before orders the goroutines, and an equal rank is the same goroutine.
LEMMA BeforeOrders ==
  ASSUME NEW s \in Seq(Nat)
  PROVE  \A i, j, k \in 1 .. Len(s) :
           /\ ~ Before(s, i, i)
           /\ Before(s, i, j) /\ Before(s, j, k) => Before(s, i, k)
           /\ i # j => Before(s, i, j) \/ Before(s, j, i)
<1> SUFFICES ASSUME NEW i \in 1 .. Len(s), NEW j \in 1 .. Len(s), NEW k \in 1 .. Len(s)
             PROVE  /\ ~ Before(s, i, i)
                    /\ Before(s, i, j) /\ Before(s, j, k) => Before(s, i, k)
                    /\ i # j => Before(s, i, j) \/ Before(s, j, i)
  OBVIOUS
<1> DEFINE a == s[i]
           b == s[j]
           c == s[k]
<1>1. a \in Nat /\ b \in Nat /\ c \in Nat
  OBVIOUS
<1>2. /\ Before(s, i, i) <=> (a < a \/ (a = a /\ i < i))
      /\ Before(s, i, j) <=> (a < b \/ (a = b /\ i < j))
      /\ Before(s, j, i) <=> (b < a \/ (b = a /\ j < i))
      /\ Before(s, j, k) <=> (b < c \/ (b = c /\ j < k))
      /\ Before(s, i, k) <=> (a < c \/ (a = c /\ i < k))
  BY DEF Before
<1> HIDE DEF a, b, c
<1> QED BY <1>1, <1>2

LEMMA Ranges ==
  \A n \in Nat : /\ IsFiniteSet(1 .. n) /\ Cardinality(1 .. n) = n
                 /\ IsFiniteSet(0 .. n - 1) /\ Cardinality(0 .. n - 1) = n
BY FS_Interval

Earlier(s, j) == {i \in 1 .. Len(s) : Before(s, i, j)}

LEMMA EarlierGrows ==
  ASSUME NEW s \in Seq(Nat), NEW i \in 1 .. Len(s), NEW j \in 1 .. Len(s)
  PROVE  /\ Cardinality(Earlier(s, j)) \in 0 .. Len(s) - 1
         /\ Before(s, i, j) => Cardinality(Earlier(s, i)) < Cardinality(Earlier(s, j))
<1> DEFINE T == 1 .. Len(s)
<1>1. Len(s) \in Nat /\ IsFiniteSet(T) /\ Cardinality(T) = Len(s)
  BY Ranges
<1>2. \A k \in T : /\ Earlier(s, k) \subseteq T
                   /\ k \notin Earlier(s, k)
  BY BeforeOrders DEF Earlier
<1> HIDE DEF T
<1>3. \A k \in T : IsFiniteSet(Earlier(s, k)) /\ Cardinality(Earlier(s, k)) \in Nat
  BY <1>1, <1>2, FS_Subset, FS_CardinalityType
<1>4. i \in T /\ j \in T
  BY DEF T
<1>5. Cardinality(Earlier(s, j)) \in 0 .. Len(s) - 1
  <2>1. Cardinality(Earlier(s, j)) <= Cardinality(T)
        /\ (Cardinality(Earlier(s, j)) = Cardinality(T) => Earlier(s, j) = T)
    BY <1>1, <1>2, <1>4, FS_Subset
  <2>2. Earlier(s, j) # T
    BY <1>2, <1>4
  <2> QED BY <1>1, <1>3, <1>4, <2>1, <2>2
<1>6. ASSUME Before(s, i, j) PROVE Cardinality(Earlier(s, i)) < Cardinality(Earlier(s, j))
  <2>1. Earlier(s, i) \subseteq Earlier(s, j)
    BY <1>6, BeforeOrders DEF Earlier
  <2>2. i \in Earlier(s, j) /\ i \notin Earlier(s, i)
    BY <1>6, BeforeOrders DEF Earlier
  <2>3. Cardinality(Earlier(s, i)) <= Cardinality(Earlier(s, j))
        /\ (Cardinality(Earlier(s, i)) = Cardinality(Earlier(s, j)) => Earlier(s, i) = Earlier(s, j))
    BY <1>3, <1>4, <2>1, FS_Subset
  <2> QED BY <1>3, <1>4, <2>2, <2>3
<1> QED BY <1>5, <1>6

\* Each goroutine has a place of its own, and each place a goroutine.
LEMMA PlacesAreTaken ==
  ASSUME NEW s \in Seq(Nat), NEW t \in 0 .. Len(s) - 1
  PROVE  \E j \in 1 .. Len(s) : Cardinality(Earlier(s, j)) = t
<1> DEFINE S == 1 .. Len(s)
           T == 0 .. Len(s) - 1
           r == [j \in S |-> Cardinality(Earlier(s, j))]
<1>1. \A j \in S : Cardinality(Earlier(s, j)) \in T
  BY EarlierGrows
<1>2. r \in [S -> T]
  BY <1>1
<1>3. ASSUME NEW i \in S, NEW j \in S, r[i] = r[j] PROVE i = j
  <2>1. r[i] = Cardinality(Earlier(s, i)) /\ r[j] = Cardinality(Earlier(s, j))
    OBVIOUS
  <2>2. Cardinality(Earlier(s, i)) \in Int
    BY <1>1
  <2>3. i # j => Before(s, i, j) \/ Before(s, j, i)
    BY BeforeOrders
  <2>4. Before(s, i, j) => Cardinality(Earlier(s, i)) < Cardinality(Earlier(s, j))
    BY EarlierGrows
  <2>5. Before(s, j, i) => Cardinality(Earlier(s, j)) < Cardinality(Earlier(s, i))
    BY EarlierGrows
  <2>6. Cardinality(Earlier(s, i)) = Cardinality(Earlier(s, j))
    BY <1>3, <2>1
  <2>7. ~ Before(s, i, j) /\ ~ Before(s, j, i)
    BY <2>2, <2>4, <2>5, <2>6
  <2> QED BY <2>3, <2>7
<1>4. /\ IsFiniteSet(S) /\ Cardinality(S) = Len(s)
      /\ IsFiniteSet(T) /\ Cardinality(T) = Len(s)
  BY Ranges
<1>5. t \in T
  OBVIOUS
<1> HIDE DEF S, T, r
<1>6. r \in Injection(S, T)
  BY <1>2, <1>3 DEF Injection, IsInjective
<1>7. r \in Surjection(S, T)
  BY <1>4, <1>6, FS_Injection
<1>8. PICK j \in S : r[j] = t
  BY <1>5, <1>7 DEF Surjection
<1> QED BY <1>8 DEF S, r

IsOrder(s, order) ==
  /\ order \in [1 .. Len(s) -> 1 .. Len(s)]
  /\ \A i, j \in 1 .. Len(s) : i < j => Before(s, order[i], order[j])

LEMMA OrderExists == ASSUME NEW s \in Seq(Nat) PROVE \E order : IsOrder(s, order)
<1> DEFINE n == Len(s)
           order == [i \in 1 .. n |-> CHOOSE j \in 1 .. n : Cardinality(Earlier(s, j)) = i - 1]
<1>1. ASSUME NEW i \in 1 .. n
      PROVE  order[i] \in 1 .. n /\ Cardinality(Earlier(s, order[i])) = i - 1
  <2>1. i - 1 \in 0 .. n - 1
    OBVIOUS
  <2>2. \E j \in 1 .. n : Cardinality(Earlier(s, j)) = i - 1
    BY <2>1, PlacesAreTaken
  <2> QED BY <2>2
<1>2. order \in [1 .. n -> 1 .. n]
  BY <1>1
<1> HIDE DEF order
<1>3. ASSUME NEW i \in 1 .. n, NEW j \in 1 .. n, i < j PROVE Before(s, order[i], order[j])
  <2> DEFINE x == order[i]
             y == order[j]
  <2>1. /\ x \in 1 .. n /\ y \in 1 .. n
        /\ Cardinality(Earlier(s, x)) = i - 1 /\ Cardinality(Earlier(s, y)) = j - 1
    BY <1>1
  <2> HIDE DEF x, y
  <2>2. x # y
    BY <1>3, <2>1
  <2>3. ~ Before(s, y, x)
    <3>1. ~ (j - 1 < i - 1)
      BY <1>3
    <3> QED BY <2>1, <3>1, EarlierGrows
  <2>4. Before(s, x, y)
    BY <2>1, <2>2, <2>3, BeforeOrders
  <2> QED BY <2>4 DEF x, y
<1>4. IsOrder(s, order)
  BY <1>2, <1>3 DEF IsOrder
<1> QED BY <1>4

\* An export takes the roots by goroutine, each of them once.
LEMMA OrderOfExport ==
  ASSUME NEW s \in Seq(Nat)
  PROVE  /\ IsOrder(s, ExportOrder(s))
         /\ \A k \in 1 .. Len(s) : \E i \in 1 .. Len(s) : ExportOrder(s)[i] = k
<1> DEFINE order == ExportOrder(s)
           S == 1 .. Len(s)
<1>1. order = CHOOSE o \in [S -> S] : \A i, j \in S : i < j => Before(s, o[i], o[j])
  BY DEF ExportOrder
<1>2. \E o \in [S -> S] : \A i, j \in S : i < j => Before(s, o[i], o[j])
  BY OrderExists DEF IsOrder
<1>3. IsOrder(s, order)
  <2> HIDE DEF order
  <2> QED BY <1>1, <1>2 DEF IsOrder
<1> HIDE DEF order
<1>4. ASSUME NEW i \in S, NEW j \in S, order[i] = order[j] PROVE i = j
  <2>1. ~ Before(s, order[i], order[i])
    BY <1>3, BeforeOrders DEF IsOrder
  <2>2. i < j \/ j < i \/ i = j
    OBVIOUS
  <2> QED BY <1>3, <1>4, <2>1, <2>2 DEF IsOrder
<1>5. order \in [S -> S]
  BY <1>3 DEF IsOrder
<1>6. IsFiniteSet(S)
  BY FS_Interval
<1> HIDE DEF S
<1>7. order \in Injection(S, S)
  BY <1>4, <1>5 DEF Injection, IsInjective
<1>8. order \in Surjection(S, S)
  BY <1>6, <1>7, FS_Injection
<1>9. \A k \in S : \E i \in S : order[i] = k
  BY <1>8 DEF Surjection
<1> QED BY <1>3, <1>9 DEF order, S

-----------------------------------------------------------------------------
(* The stacks of an export *)

\* The roots as an export lists them.
Reordered == [i \in 1 .. Len(ExportOrder(owner)) |-> roots[ExportOrder(owner)[i]]]

LEMMA ReorderedRoots ==
  ASSUME TypeOK
  PROVE  /\ roots \in Seq(Int) /\ owner \in Seq(Nat) /\ Len(owner) = Len(roots)
         /\ Reordered \in Seq(Int) /\ Len(Reordered) = Len(roots)
         /\ \A i \in 1 .. Len(roots) : /\ ExportOrder(owner)[i] \in 1 .. Len(roots)
                                       /\ Reordered[i] = roots[ExportOrder(owner)[i]]
         /\ \A k \in 1 .. Len(roots) : \E i \in 1 .. Len(roots) : ExportOrder(owner)[i] = k
         /\ \A i, j \in 1 .. Len(roots) :
              i < j => Before(owner, ExportOrder(owner)[i], ExportOrder(owner)[j])
<1> DEFINE order == ExportOrder(owner)
           n == Len(roots)
<1>1. roots \in Seq(Int) /\ owner \in Seq(Nat) /\ Len(owner) = n /\ n \in Nat
  BY ListsAssumption, OwnersAssumption DEF TypeOK
<1>2. IsOrder(owner, order) /\ \A k \in 1 .. Len(owner) : \E i \in 1 .. Len(owner) : order[i] = k
  BY <1>1, OrderOfExport
<1> HIDE DEF order
<1>3. /\ order \in [1 .. n -> 1 .. n]
      /\ \A i, j \in 1 .. n : i < j => Before(owner, order[i], order[j])
      /\ \A k \in 1 .. n : \E i \in 1 .. n : order[i] = k
  BY <1>1, <1>2 DEF IsOrder
<1>4. order \in Seq(1 .. n) /\ Len(order) = n
  BY <1>1, <1>3, FunctionIsSequence
<1>5. Reordered = [i \in 1 .. n |-> roots[order[i]]]
  BY <1>4 DEF Reordered, order
<1>6. Reordered \in [1 .. n -> Int]
  <2>1. \A k \in 1 .. n : roots[k] \in Int
    BY <1>1
  <2>2. \A i \in 1 .. n : roots[order[i]] \in Int
    BY <1>3, <2>1
  <2> QED BY <1>5, <2>2
<1>7. Reordered \in Seq(Int) /\ Len(Reordered) = n
  BY <1>1, <1>6, FunctionIsSequence
<1>8. \A i \in 1 .. n : order[i] \in 1 .. n /\ Reordered[i] = roots[order[i]]
  BY <1>3, <1>5
<1> QED BY <1>1, <1>3, <1>7, <1>8 DEF order

\* The forest an export is made of finds the target over as many objects as the
\* witness, from the first of the roots that are as near.
LEMMA FoundNode ==
  ASSUME IInv, status = "found", NEW p \in Nat, NEW f, f = Forest(children, Reordered, p)
  PROVE  /\ target \in DOMAIN f.nodes /\ f.nodes[target].depth = Len(path)
         /\ f.nodes[target].root \in 1 .. Len(roots) /\ Len(path) \in Nat \ {0}
         /\ \E w : Descends(f, Reordered, p, w, target)
         /\ \A i \in 1 .. Len(roots) :
              Before(owner, i, ExportOrder(owner)[f.nodes[target].root]) => ~Begins(i, Len(path))
<1> DEFINE R == Reordered
           order == ExportOrder(owner)
           n == Len(roots)
           m == Len(path)
           depth == f.nodes[target].depth
           r == f.nodes[target].root
<1>1. TypeOK /\ ShortestWitness
  BY DEF IInv, ReportInv
<1>2. /\ roots \in Seq(Int) /\ owner \in Seq(Nat) /\ Len(owner) = n
      /\ R \in Seq(Int) /\ Len(R) = n
      /\ \A i \in 1 .. n : order[i] \in 1 .. n /\ R[i] = roots[order[i]]
      /\ \A k \in 1 .. n : \E i \in 1 .. n : order[i] = k
      /\ \A i, j \in 1 .. n : i < j => Before(owner, order[i], order[j])
  BY <1>1, ReorderedRoots
<1> HIDE DEF R, order
<1>3. children \in [Objects -> ChildLists]
  BY <1>1 DEF TypeOK
<1>4. Whole(f, R, p)
  BY <1>2, <1>3, ForestIsWhole DEF R
<1>5. Tree(f, R, p)
  BY <1>4 DEF Whole
<1>6. /\ path \in Seq(Objects) /\ m \in Nat \ {0} /\ path[1] = roots[seen[target].root]
      /\ path[m] = target /\ Linked(path) /\ seen[target].root \in 1 .. n
      /\ target \notin Within(m - 1)
  <2>1. path \in Seq(Objects) /\ WitnessIsAPath /\ target \notin Within(m - 1)
    BY <1>1 DEF TypeOK, ShortestWitness
  <2> QED BY <1>1, <2>1 DEF WitnessIsAPath, TypeOK
<1>7. path \in [1 .. m -> Objects] /\ m \in 1 .. m /\ m \in Nat
  BY <1>6
<1>8. PICK i0 \in 1 .. n : order[i0] = seen[target].root
  BY <1>2, <1>6
<1>9. R[i0] = path[1]
  BY <1>2, <1>6, <1>8
<1>10. InTime(f, path[m], m, i0)
  <2>1. i0 \in 1 .. Len(R)
    BY <1>2
  <2> HIDE DEF m
  <2> QED BY <1>2, <1>4, <1>6, <1>7, <1>9, <2>1, Closest
<1>11. target \in DOMAIN f.nodes /\ (depth < m \/ depth = m)
  BY <1>6, <1>10 DEF InTime
<1>12. depth \in Nat \ {0} /\ r \in 1 .. n /\ depth \in Nat
  BY <1>2, <1>5, <1>11 DEF Tree, NodeFits
<1>13. PICK w : Descends(f, R, p, w, target)
  BY <1>2, <1>5, <1>11, Descent
<1>14. /\ w \in [1 .. depth -> Objects] /\ w[1] = R[r] /\ w[depth] = target
       /\ \A i \in 1 .. depth - 1 : Edge(w[i], w[i + 1])
  BY <1>13 DEF Descends
<1> HIDE DEF depth, r, m
<1>15. target \in Within(depth)
  <2>1. Len(w) = depth
    BY <1>12, <1>14, FunctionIsSequence
  <2>2. Linked(w)
    BY <1>14, <2>1 DEF Linked
  <2>3. w[1] \in ValidRoots
    <3>1. w[1] = roots[order[r]] /\ order[r] \in 1 .. n
      BY <1>2, <1>12, <1>14
    <3>2. 1 \in 1 .. depth
      BY <1>12
    <3>3. w[1] \in Objects
      BY <1>14, <3>2
    <3> QED BY <3>1, <3>3 DEF ValidRoots
  <2>4. depth \in 1 .. depth /\ target \in Objects
    BY <1>12, <1>14
  <2> QED BY <1>14, <2>2, <2>3, <2>4 DEF Within
<1>16. depth = m
  <2>1. ~ (depth < m)
    <3> SUFFICES ASSUME depth < m PROVE FALSE
      OBVIOUS
    <3>1. depth <= m - 1 /\ m - 1 \in Nat
      BY <1>6, <1>12
    <3>2. target \in Within(m - 1)
      BY <1>12, <1>15, <3>1, WithinGrows
    <3> QED BY <1>6, <3>2
  <2> QED BY <1>6, <1>11, <1>12, <2>1
<1>17. ASSUME NEW i \in 1 .. n, Before(owner, i, order[r]), Begins(i, m) PROVE FALSE
  <2>1. PICK q \in [1 .. m -> Objects] : q[1] = roots[i] /\ Linked(q) /\ q[m] = target
    BY <1>17 DEF Begins
  <2>2. PICK i1 \in 1 .. n : order[i1] = i
    BY <1>2
  <2>3. i1 \in 1 .. Len(R) /\ R[i1] = q[1]
    BY <1>2, <2>1, <2>2
  <2>4. InTime(f, q[m], m, i1)
    BY <1>2, <1>4, <1>7, <2>1, <2>3, Closest
  <2>5. depth < m \/ (depth = m /\ r <= i1)
    BY <2>1, <2>4 DEF InTime, depth, r
  <2>6. r = i1 \/ r < i1
    BY <1>6, <1>12, <1>16, <2>5
  <2>7. Before(owner, order[r], i) \/ order[r] = i
    BY <1>2, <1>12, <2>2, <2>6
  <2>8. order[r] \in 1 .. Len(owner) /\ i \in 1 .. Len(owner)
    BY <1>2, <1>12
  <2>9. /\ ~ Before(owner, i, i)
        /\ Before(owner, i, order[r]) /\ Before(owner, order[r], i) => Before(owner, i, i)
    BY <1>2, <2>8, BeforeOrders
  <2> QED BY <1>17, <2>7, <2>9
<1> QED BY <1>6, <1>11, <1>12, <1>13, <1>16, <1>17 DEF R, order, depth, r, m

\* One sequence after another.
LEMMA OneAfterAnother ==
  ASSUME NEW S, NEW s \in Seq(S), NEW t \in Seq(S)
  PROVE  /\ s \o t \in Seq(S) /\ Len(s \o t) = Len(s) + Len(t)
         /\ \A i \in 1 .. Len(s) + Len(t) :
              (s \o t)[i] = IF i <= Len(s) THEN s[i] ELSE t[i - Len(s)]
OBVIOUS

\* The two ends of a sequence and what is between them make it up.
LEMMA ThreeParts ==
  ASSUME NEW w \in Seq(Objects), NEW a \in Nat, NEW b \in Nat, a + b <= Len(w)
  PROVE  LET middle == [i \in 1 .. b |-> w[a + i]]
         IN /\ middle \in [1 .. b -> Objects]
            /\ SubSeq(w, 1, a) \o middle \o SubSeq(w, a + b + 1, Len(w)) = w
<1> DEFINE n == Len(w)
           x == SubSeq(w, 1, a)
           y == [i \in 1 .. b |-> w[a + i]]
           z == SubSeq(w, a + b + 1, n)
<1>1. n \in Nat /\ a <= n /\ w \in [1 .. n -> Objects]
  OBVIOUS
<1>2. x \in Seq(Objects) /\ Len(x) = a /\ \A i \in 1 .. a : x[i] = w[i]
  BY <1>1
<1>3. y \in [1 .. b -> Objects] /\ \A i \in 1 .. b : y[i] = w[a + i]
  <2>1. \A i \in 1 .. b : a + i \in 1 .. n
    BY <1>1
  <2> QED BY <1>1, <2>1
<1> HIDE DEF y
<1>4. y \in Seq(Objects) /\ Len(y) = b
  BY <1>3, FunctionIsSequence
<1>5. z \in Seq(Objects) /\ Len(z) = n - (a + b) /\ \A i \in 1 .. n - (a + b) : z[i] = w[a + b + i]
  <2> DEFINE c == a + b
             v == [i \in 1 .. n - c |-> w[c + i]]
  <2>1. c \in Nat /\ c <= n /\ n - c \in Nat
    BY <1>1
  <2> HIDE DEF c
  <2>2. SubSeq(w, c + 1, n) = v
    BY <1>1, <2>1
  <2>3. \A i \in 1 .. n - c : c + i \in 1 .. n
    BY <1>1, <2>1
  <2>4. v \in [1 .. n - c -> Objects] /\ \A i \in 1 .. n - c : v[i] = w[c + i]
    BY <1>1, <2>3
  <2> HIDE DEF v
  <2>5. v \in Seq(Objects) /\ Len(v) = n - c
    BY <2>1, <2>4, FunctionIsSequence
  <2> QED BY <2>2, <2>4, <2>5 DEF c
<1> HIDE DEF x, z
<1>6. /\ x \o y \in Seq(Objects) /\ Len(x \o y) = a + b
      /\ \A i \in 1 .. a + b : (x \o y)[i] = w[i]
  <2>1. x \o y \in Seq(Objects) /\ Len(x \o y) = a + b
    BY <1>2, <1>4, OneAfterAnother
  <2>2. \A i \in 1 .. a + b : (x \o y)[i] = IF i <= a THEN x[i] ELSE y[i - a]
    BY <1>2, <1>4
  <2>3. ASSUME NEW i \in 1 .. a + b PROVE (x \o y)[i] = w[i]
    <3>1. CASE i <= a
      BY <1>2, <2>2, <3>1
    <3>2. CASE ~ (i <= a)
      <4>1. i - a \in 1 .. b /\ a + (i - a) = i
        BY <3>2
      <4> QED BY <1>3, <2>2, <3>2, <4>1
    <3> QED BY <3>1, <3>2
  <2> QED BY <2>1, <2>3
<1> DEFINE u == x \o y
<1> HIDE DEF u
<1>7. u \in Seq(Objects) /\ Len(u) = a + b /\ \A i \in 1 .. a + b : u[i] = w[i]
  BY <1>6 DEF u
<1>8. u \o z \in Seq(Objects) /\ Len(u \o z) = n
  <2>1. Len(u \o z) = Len(u) + Len(z) /\ u \o z \in Seq(Objects)
    BY <1>5, <1>7, OneAfterAnother
  <2> QED BY <1>1, <1>5, <1>7, <2>1
<1>9. ASSUME NEW i \in 1 .. n PROVE (u \o z)[i] = w[i]
  <2>1. (u \o z)[i] = IF i <= a + b THEN u[i] ELSE z[i - (a + b)]
    BY <1>1, <1>5, <1>7
  <2>2. CASE i <= a + b
    BY <1>7, <2>1, <2>2
  <2>3. CASE ~ (i <= a + b)
    <3>1. i - (a + b) \in 1 .. n - (a + b) /\ a + b + (i - (a + b)) = i
      BY <1>1, <2>3
    <3> QED BY <1>5, <2>1, <2>3, <3>1
  <2> QED BY <2>2, <2>3
<1>10. u \o z = w
  <2> DEFINE v == u \o z
  <2>1. v \in Seq(Objects) /\ Len(v) = n /\ \A i \in 1 .. n : v[i] = w[i]
    BY <1>8, <1>9
  <2> HIDE DEF v
  <2>2. v = w
    BY <1>1, <2>1
  <2> QED BY <2>2 DEF v
<1> QED BY <1>3, <1>10 DEF u, x, y, z

\* What an export shows of the object are the two ends of such a path.
LEMMA StackShowsTheEnds ==
  ASSUME IInv, status = "found", NEW d \in PathDepths
  PROVE  ShowsTheEnds(Stack(children, roots, owner, target, d), d)
<1> DEFINE p == d \div 2
           f == Forest(children, Reordered, p)
           s == Stack(children, roots, owner, target, d)
           m == Len(path)
           order == ExportOrder(owner)
<1>1. d \in Nat \ {1} /\ p \in Nat /\ (d # 0 => p > 0 /\ p < d)
  BY DepthsAssumption
<1>2. /\ target \in DOMAIN f.nodes /\ f.nodes[target].depth = m /\ m \in Nat \ {0}
      /\ f.nodes[target].root \in 1 .. Len(roots)
      /\ \E w : Descends(f, Reordered, p, w, target)
      /\ \A i \in 1 .. Len(roots) : Before(owner, i, order[f.nodes[target].root]) => ~Begins(i, m)
  <2> HIDE DEF p
  <2> QED BY <1>1, FoundNode
<1>3. s = [shown |-> TRUE, root |-> order[f.nodes[target].root], path |-> Segments(f, target, d)]
  BY <1>2 DEF Stack, Reordered
<1>4. PICK w : Descends(f, Reordered, p, w, target)
  BY <1>2
<1>5. /\ order[f.nodes[target].root] \in 1 .. Len(roots)
      /\ Reordered[f.nodes[target].root] = roots[order[f.nodes[target].root]]
  <2>1. TypeOK
    BY DEF IInv
  <2> HIDE DEF f, order
  <2> QED BY <1>2, <2>1, ReorderedRoots DEF order
<1> DEFINE r == order[f.nodes[target].root]
<1> HIDE DEF f, p, s, order
<1>6. /\ w \in [1 .. m -> Objects] /\ w[1] = roots[r] /\ w[m] = target
      /\ \A i \in 1 .. m - 1 : Edge(w[i], w[i + 1]) /\ f.nodes[w[i + 1]].parent = w[i]
      /\ p > 0 => f.nodes[target].prefixEnd = w[IF m <= p THEN m ELSE p]
  BY <1>2, <1>4, <1>5 DEF Descends
<1>7. w \in Seq(Objects) /\ Len(w) = m
  <2> HIDE DEF m
  <2> QED BY <1>2, <1>6, FunctionIsSequence
<1>8. Linked(w)
  BY <1>6, <1>7 DEF Linked
<1> HIDE DEF r, m
<1>9. \A a \in 1 .. m : \A k \in 0 .. a : Collect(f, w[a], k) = SubSeq(w, a - k + 1, a)
  <2> SUFFICES ASSUME NEW a \in 1 .. m, NEW k \in 0 .. a
               PROVE  Collect(f, w[a], k) = SubSeq(w, a - k + 1, a)
    OBVIOUS
  <2>1. a \in 1 .. Len(w) /\ \A i \in 1 .. Len(w) - 1 : f.nodes[w[i + 1]].parent = w[i]
    BY <1>6, <1>7
  <2> QED BY <1>7, <2>1, Collected
<1>10. s.shown /\ s.root = r /\ s.path = Segments(f, target, d)
  BY <1>3 DEF r
<1>11. SUFFICES
         /\ s.path.omitted = IF d = 0 \/ m <= d THEN 0 ELSE m - d
         /\ \E middle \in [1 .. s.path.omitted -> Objects] : s.path.prefix \o middle \o s.path.suffix = w
  <2>1. PICK middle \in [1 .. s.path.omitted -> Objects] : s.path.prefix \o middle \o s.path.suffix = w
    BY <1>11
  <2> DEFINE q == s.path.prefix \o middle \o s.path.suffix
  <2>2. q = w
    BY <2>1
  <2> HIDE DEF q
  <2>3. Len(q) = m /\ Linked(q) /\ q[1] = roots[s.root] /\ q[Len(q)] = target
    BY <1>6, <1>7, <1>8, <1>10, <2>2
  <2>4. s.shown /\ s.root \in 1 .. Len(roots)
    BY <1>5, <1>10 DEF r
  <2>5. \A i \in 1 .. Len(roots) : Before(owner, i, s.root) => ~Begins(i, m)
    BY <1>2, <1>10 DEF r
  <2>6. ShowsTheEnds(s, d)
    BY <1>11, <2>3, <2>4, <2>5 DEF ShowsTheEnds, m, q
  <2> QED BY <2>6 DEF s
<1>12. CASE d = 0 \/ m <= d
  <2>1. Segments(f, target, d) = [prefix |-> Collect(f, target, m), suffix |-> <<>>, omitted |-> 0]
    BY <1>2, <1>12 DEF Segments
  <2>2. Collect(f, target, m) = SubSeq(w, 1, m)
    <3>1. m \in 1 .. m /\ m \in 0 .. m /\ m - m + 1 = 1
      BY <1>2
    <3>2. Collect(f, w[m], m) = SubSeq(w, m - m + 1, m)
      BY <1>9, <3>1
    <3> QED BY <1>6, <3>1, <3>2
  <2>3. s.path.prefix = SubSeq(w, 1, m) /\ s.path.suffix = <<>> /\ s.path.omitted = 0
    <3>1. s.path.prefix = Collect(f, target, m) /\ s.path.suffix = <<>> /\ s.path.omitted = 0
      BY <1>10, <2>1
    <3> QED BY <2>2, <3>1
  <2>4. m \in Nat /\ 0 \in Nat /\ m + 0 <= Len(w) /\ m + 0 + 1 = m + 1 /\ Len(w) = m
    BY <1>2, <1>7
  <2> DEFINE middle == [i \in 1 .. 0 |-> w[m + i]]
  <2>5. middle \in [1 .. 0 -> Objects] /\ SubSeq(w, 1, m) \o middle \o SubSeq(w, m + 1, m) = w
    BY <1>7, <2>4, ThreeParts
  <2>6. SubSeq(w, m + 1, m) = <<>>
    BY <1>7, <2>4
  <2> HIDE DEF middle
  <2> QED BY <1>12, <2>3, <2>5, <2>6
<1>13. CASE ~ (d = 0 \/ m <= d)
  <2>1. p > 0 /\ p < d /\ d < m /\ p \in 1 .. m /\ p \in 0 .. p /\ d - p \in 0 .. m /\ m \in 1 .. m
    BY <1>1, <1>2, <1>13
  <2>2. f.nodes[target].prefixEnd = w[p]
    BY <1>1, <1>2, <1>6, <2>1
  <2>3. Segments(f, target, d) =
          [prefix |-> Collect(f, w[p], p), suffix |-> Collect(f, target, d - p), omitted |-> m - d]
    BY <1>2, <1>13, <2>2 DEF Segments, p
  <2>4. Collect(f, w[p], p) = SubSeq(w, 1, p)
    <3>1. p - p + 1 = 1
      BY <1>1
    <3> QED BY <1>9, <2>1, <3>1
  <2>5. Collect(f, target, d - p) = SubSeq(w, p + (m - d) + 1, m)
    <3>1. m - (d - p) + 1 = p + (m - d) + 1
      BY <1>1, <1>2
    <3>2. Collect(f, w[m], d - p) = SubSeq(w, m - (d - p) + 1, m)
      BY <1>9, <2>1
    <3> QED BY <1>6, <3>1, <3>2
  <2>6. /\ s.path.prefix = SubSeq(w, 1, p) /\ s.path.suffix = SubSeq(w, p + (m - d) + 1, m)
        /\ s.path.omitted = m - d
    <3>1. /\ s.path.prefix = Collect(f, w[p], p) /\ s.path.suffix = Collect(f, target, d - p)
          /\ s.path.omitted = m - d
      BY <1>10, <2>3
    <3> QED BY <2>4, <2>5, <3>1
  <2>7. p \in Nat /\ m - d \in Nat /\ p + (m - d) <= Len(w) /\ Len(w) = m
    BY <1>1, <1>2, <1>7, <2>1
  <2> DEFINE middle == [i \in 1 .. m - d |-> w[p + i]]
  <2>8. /\ middle \in [1 .. m - d -> Objects]
        /\ SubSeq(w, 1, p) \o middle \o SubSeq(w, p + (m - d) + 1, m) = w
    BY <1>7, <2>7, ThreeParts
  <2> HIDE DEF middle
  <2> QED BY <1>13, <2>6, <2>8
<1> QED BY <1>12, <1>13

\* The forest of an export has no object that cannot be reached.
LEMMA NodesAreReachable ==
  ASSUME TypeOK, NEW p \in Nat, NEW o \in DOMAIN Forest(children, Reordered, p).nodes
  PROVE  o \in Reachable
<1> DEFINE f == Forest(children, Reordered, p)
           R == Reordered
           m == f.nodes[o].depth
           r == f.nodes[o].root
<1>1. /\ R \in Seq(Int) /\ Len(R) = Len(roots)
      /\ \A i \in 1 .. Len(roots) : /\ ExportOrder(owner)[i] \in 1 .. Len(roots)
                                    /\ R[i] = roots[ExportOrder(owner)[i]]
  BY ReorderedRoots
<1>2. children \in [Objects -> ChildLists]
  BY DEF TypeOK
<1>3. o \in DOMAIN f.nodes
  OBVIOUS
<1> HIDE DEF R
<1>4. Tree(f, R, p)
  BY <1>1, <1>2, ForestIsWhole DEF Whole, R
<1> HIDE DEF f
<1>5. m \in Nat \ {0} /\ r \in 1 .. Len(R)
  BY <1>3, <1>4 DEF Tree, NodeFits
<1>6. PICK w : Descends(f, R, p, w, o)
  BY <1>1, <1>3, <1>4, Descent
<1>7. /\ w \in [1 .. m -> Objects] /\ w[1] = R[r] /\ w[m] = o
      /\ \A i \in 1 .. m - 1 : Edge(w[i], w[i + 1])
  BY <1>6 DEF Descends
<1> HIDE DEF m, r
<1>8. Linked(w)
  <2>1. Len(w) = m
    BY <1>5, <1>7, FunctionIsSequence
  <2> QED BY <1>7, <2>1 DEF Linked
<1>9. w[1] \in ValidRoots
  <2>1. 1 \in 1 .. m
    BY <1>5
  <2>2. w[1] \in Objects
    BY <1>7, <2>1
  <2> QED BY <1>1, <1>5, <1>7, <2>2 DEF ValidRoots
<1>10. m \in 1 .. m /\ m \in Nat
  BY <1>5
<1> QED BY <1>7, <1>8, <1>9, <1>10, PathStays

\* Whatever depth an export cuts paths to, it shows of an object that an
\* explanation finds the two ends of a path as short as the witness, from the
\* first root in the order of the goroutines' ids that has one; and it shows no object
\* that an explanation tells is not reachable (export_paths.go:79-88).
THEOREM ExportsAreHonest == Spec => []StacksAreHonest
<1>1. IInv => StacksAreHonest
  <2> SUFFICES ASSUME IInv, NEW d \in PathDepths
               PROVE  LET s == Stack(children, roots, owner, target, d)
                      IN /\ status = "found" => ShowsTheEnds(s, d)
                         /\ status = "not_reachable" => ~s.shown
    BY DEF StacksAreHonest
  <2>1. status = "found" => ShowsTheEnds(Stack(children, roots, owner, target, d), d)
    BY StackShowsTheEnds
  <2>2. ASSUME status = "not_reachable" PROVE ~Stack(children, roots, owner, target, d).shown
    <3> DEFINE f == Forest(children, Reordered, d \div 2)
    <3>1. d \div 2 \in Nat /\ TypeOK /\ target \notin Reachable
      BY <2>2, DepthsAssumption DEF IInv, ReportInv, StatusIsHonest
    <3>2. target \notin DOMAIN f.nodes
      BY <3>1, NodesAreReachable
    <3>3. Stack(children, roots, owner, target, d) = [shown |-> FALSE]
      BY <3>2 DEF Stack, Reordered
    <3> QED BY <3>3
  <2> QED BY <2>1, <2>2
<1> QED
  BY Inductive, <1>1, PTL
=============================================================================
