---------------------------- MODULE SessionProofs ----------------------------
(* Theorems about the walks and reports of a session, for every graph, finite *)
(* or not, cyclic or not, with malformed references or without; and about     *)
(* Session, for any clients, calls, sources and graph.                        *)
(* Close may run while queries are under way.  That it leaves nothing in the  *)
(* caches for good is due to the mutex alone: a query that found the session  *)
(* open holds mu until its caches are filled (OpenWhileQuerying), and at most *)
(* one client is inside (TypeOK), so no Close runs in between.                *)
EXTENDS Session, FiniteSetTheorems, FunctionTheorems, SequenceTheorems,
        WellFoundedInduction, TLAPS

-----------------------------------------------------------------------------
(* Walks and reports *)

LEMMA WalkContainsRoots == ASSUME NEW R PROVE R \cap Objects \subseteq Walk(R)
BY DEF Walk

LEMMA WalkClosed == ASSUME NEW R PROVE Walk(R) \in ClosedSets
<1>1. Walk(R) \subseteq Objects
  BY DEF Walk
<1>2. ASSUME NEW o \in Walk(R), NEW k \in Children[o] \cap Objects
      PROVE  k \in Walk(R)
  BY <1>2 DEF Walk, ClosedSets
<1>3. QED
  BY <1>1, <1>2 DEF ClosedSets

LEMMA WalkLeast ==
  ASSUME NEW R, NEW S \in ClosedSets, R \cap Objects \subseteq S
  PROVE  Walk(R) \subseteq S
BY DEF Walk

LEMMA WalkMonotone ==
  ASSUME NEW Q, NEW R, Q \cap Objects \subseteq R PROVE Walk(Q) \subseteq Walk(R)
<1>1. Q \cap Objects \subseteq Walk(R)
  BY WalkContainsRoots
<1>2. QED
  BY <1>1, WalkClosed, WalkLeast

LEMMA WalkByRoots ==
  ASSUME NEW R
  PROVE  Walk(R) = {o \in Objects : \E r \in R : o \in Walk({r})}
<1> DEFINE U == {o \in Objects : \E r \in R : o \in Walk({r})}
<1>1. U \subseteq Walk(R)
  <2> SUFFICES ASSUME NEW r \in R, NEW o \in Walk({r}) PROVE o \in Walk(R)
    OBVIOUS
  <2>1. {r} \cap Objects \subseteq R
    OBVIOUS
  <2>2. QED
    BY <2>1, WalkMonotone
<1>2. Walk(R) \subseteq U
  <2>1. R \cap Objects \subseteq U
    <3> SUFFICES ASSUME NEW o \in R \cap Objects PROVE o \in U
      OBVIOUS
    <3>1. o \in Walk({o})
      BY WalkContainsRoots
    <3>2. QED
      BY <3>1
  <2>2. U \in ClosedSets
    <3>1. ASSUME NEW o \in U, NEW k \in Children[o] \cap Objects
          PROVE  k \in U
      <4> PICK r \in R : o \in Walk({r})
        BY <3>1
      <4>1. k \in Walk({r})
        BY <3>1, WalkClosed DEF ClosedSets
      <4>2. QED
        BY <4>1, <3>1
    <3>2. QED
      BY <3>1 DEF ClosedSets
  <2>3. QED
    BY <2>1, <2>2, WalkLeast
<1>3. QED
  BY <1>1, <1>2

\* reachableFromGoroutines (compute.go:24): one walk from the union of the
\* roots finds what the walks from every single root find together.
THEOREM OneWalkForAll ==
  ASSUME NEW a, NEW G
  PROVE  Walk(RootsOf(a, G)) = ReachedBy(a, G)
<1>1. Walk(RootsOf(a, G)) = {o \in Objects : \E r \in RootsOf(a, G) : o \in Walk({r})}
  BY WalkByRoots
<1>2. \A o : (\E r \in RootsOf(a, G) : o \in Walk({r})) <=> (\E g \in G : ReachesFrom(a, g, o))
  BY DEF RootsOf, ReachesFrom
<1>3. QED
  BY <1>1, <1>2 DEF ReachedBy

LEMMA GlobalWalk ==
  ASSUME NEW a, NEW o \in Objects PROVE o \in Walk(a.globals) <=> GlobalReaches(a, o)
<1>1. Walk(a.globals) = {x \in Objects : \E r \in a.globals : x \in Walk({r})}
  BY WalkByRoots
<1>2. QED
  BY <1>1 DEF GlobalReaches

\* Options.IncludeSystemGoroutines decides who may match, the labels who does.
LEMMA SelectedIsChosen ==
  ASSUME NEW a, NEW inc \in BOOLEAN, NEW want
  PROVE  Selected(a, inc, want) = Chosen(a, inc, want)
<1>1. \A g : g \in Eligible(a, inc) <=> g \in a.goroutines /\ (g \in a.system => inc)
  BY DEF Eligible, Excluded
<1>2. QED
  BY <1>1 DEF Selected, LabelsMatch, Chosen

\* Compare and Shared (multibubble.go:210) report the sets that the document
\* defines, whatever the graph, the labels and the selectors.
THEOREM ComparisonIsTrue ==
  ASSUME NEW a, NEW inc \in BOOLEAN, NEW wantA, NEW wantB
  PROVE  ComparePair(a, inc, wantA, wantB) = TrueComparison(a, inc, wantA, wantB)
<1> DEFINE A == ReachedBy(a, Chosen(a, inc, wantA))
           B == ReachedBy(a, Chosen(a, inc, wantB))
<1>1. /\ Selected(a, inc, wantA) = Chosen(a, inc, wantA)
      /\ Selected(a, inc, wantB) = Chosen(a, inc, wantB)
  BY SelectedIsChosen
<1>2. /\ Walk(RootsOf(a, Chosen(a, inc, wantA))) = A
      /\ Walk(RootsOf(a, Chosen(a, inc, wantB))) = B
  BY OneWalkForAll
<1>3. A \subseteq Objects /\ B \subseteq Objects
  BY DEF ReachedBy
<1>4. /\ A \ B = {o \in A : o \notin B} /\ B \ A = {o \in B : o \notin A}
      /\ A \cap B = {o \in A : o \in B}
      /\ A \cup B = {o \in Objects : o \in A \/ o \in B}
  BY <1>3
<1> HIDE DEF A, B
<1>5. ComparePair(a, inc, wantA, wantB) =
        [overlapping |-> Chosen(a, inc, wantA) \cap Chosen(a, inc, wantB),
         aOnly |-> A \ B, bOnly |-> B \ A, shared |-> A \cap B, union |-> A \cup B]
  BY <1>1, <1>2 DEF ComparePair
<1>6. QED
  BY <1>4, <1>5 DEF TrueComparison, A, B

\* inspect, hence Exclusive, Summary, Export and Objects (objects.go:55): the
\* exclusive set holds exactly the selected objects that no global and no
\* goroutine outside the selection reaches, excluded system goroutines
\* included; the other sets are what the document says as well.
THEOREM InspectionIsTrue ==
  ASSUME NEW a, NEW inc \in BOOLEAN, NEW want, a.system \subseteq a.goroutines
  PROVE  Inspect(a, inc, want) = TrueInspection(a, inc, want)
<1> DEFINE S == Chosen(a, inc, want)
           R == ReachedBy(a, S)
           global == Walk(a.globals)
           system == ReachedBy(a, a.system \ S)
           other == ReachedBy(a, a.goroutines \ (S \cup a.system))
           outside == global \cup system \cup other
           Rival(g, o) == g \in a.goroutines \ S /\ ReachesFrom(a, g, o)
           exclusive == {o \in R : ~GlobalReaches(a, o)
                                 /\ \A g \in a.goroutines : ~Rival(g, o)}
<1>1. Selected(a, inc, want) = S
  BY SelectedIsChosen
<1>2. /\ Walk(RootsOf(a, S)) = R
      /\ Walk(RootsOf(a, a.system \ S)) = system
      /\ Walk(RootsOf(a, a.goroutines \ (S \cup a.system))) = other
  BY OneWalkForAll
<1>3. R \subseteq Objects
  BY DEF ReachedBy
<1>4. R \cap global = {o \in R : GlobalReaches(a, o)}
  BY <1>3, GlobalWalk
<1>5. R \cap system = {o \in R : \E g \in a.system : Rival(g, o)}
  BY <1>3 DEF ReachedBy
<1>6. R \cap other = {o \in R : \E g \in a.goroutines \ a.system : Rival(g, o)}
  BY <1>3 DEF ReachedBy
<1>7. R \cap outside = {o \in R : GlobalReaches(a, o) \/ \E g \in a.goroutines : Rival(g, o)}
  <2> SUFFICES ASSUME NEW o \in R
               PROVE  o \in outside <=>
                        GlobalReaches(a, o) \/ \E g \in a.goroutines : Rival(g, o)
    OBVIOUS
  <2>1. o \in global <=> GlobalReaches(a, o)
    BY <1>4
  <2>2. o \in system <=> \E g \in a.system : Rival(g, o)
    BY <1>5
  <2>3. o \in other <=> \E g \in a.goroutines \ a.system : Rival(g, o)
    BY <1>6
  <2> HIDE DEF Rival, global, system, other
  <2>4. QED
    BY <2>1, <2>2, <2>3
<1>8. R \ outside = exclusive /\ R \cap outside = R \ exclusive
  BY <1>7
<1> HIDE DEF R, system, other, outside, exclusive, Rival
<1>9. Inspect(a, inc, want) =
        [goroutines |-> S, reachable |-> R, exclusive |-> R \ outside,
         shared |-> R \cap outside, global |-> R \cap global,
         system |-> R \cap system, other |-> R \cap other]
  BY <1>1, <1>2 DEF Inspect, outside
<1>10. TrueInspection(a, inc, want) =
        [goroutines |-> S, reachable |-> R, exclusive |-> exclusive,
         shared |-> R \ exclusive, global |-> {o \in R : GlobalReaches(a, o)},
         system |-> {o \in R : \E g \in a.system : Rival(g, o)},
         other |-> {o \in R : \E g \in a.goroutines \ a.system : Rival(g, o)}]
  BY DEF TrueInspection, R, exclusive, Rival
<1>11. QED
  BY <1>4, <1>5, <1>6, <1>8, <1>9, <1>10

-----------------------------------------------------------------------------
(* Places in an order *)

\* A strict total order on S, as a set of pairs.
OrdersStrictly(S, L) ==
  /\ \A x \in S : <<x, x>> \notin L
  /\ \A x, y, z \in S : <<x, y>> \in L /\ <<y, z>> \in L => <<x, z>> \in L
  /\ \A x, y \in S : x # y => <<x, y>> \in L \/ <<y, x>> \in L

Predecessors(S, L, y) == {x \in S : <<x, y>> \in L}
Rank(S, L) == [y \in S |-> Cardinality(Predecessors(S, L, y))]

LEMMA RankGrows ==
  ASSUME NEW S, IsFiniteSet(S), NEW L, OrdersStrictly(S, L), NEW x \in S, NEW y \in S,
         <<x, y>> \in L
  PROVE  Cardinality(Predecessors(S, L, x)) < Cardinality(Predecessors(S, L, y))
<1>1. Predecessors(S, L, x) \subseteq Predecessors(S, L, y)
  BY DEF Predecessors, OrdersStrictly
<1>2. x \in Predecessors(S, L, y) /\ x \notin Predecessors(S, L, x)
  BY DEF Predecessors, OrdersStrictly
<1>3. IsFiniteSet(Predecessors(S, L, y))
  <2>1. Predecessors(S, L, y) \subseteq S
    BY DEF Predecessors
  <2> QED BY <2>1, FS_Subset
<1>4. Cardinality(Predecessors(S, L, x)) <= Cardinality(Predecessors(S, L, y))
      /\ (Cardinality(Predecessors(S, L, x)) = Cardinality(Predecessors(S, L, y))
          => Predecessors(S, L, x) = Predecessors(S, L, y))
  BY <1>1, <1>3, FS_Subset
<1>5. Cardinality(Predecessors(S, L, x)) \in Nat /\ Cardinality(Predecessors(S, L, y)) \in Nat
  BY <1>1, <1>3, FS_Subset, FS_CardinalityType
<1> QED BY <1>2, <1>4, <1>5

\* Every place among the Cardinality(S) is taken by one member.
LEMMA RanksArePlaces ==
  ASSUME NEW S, IsFiniteSet(S), NEW L, OrdersStrictly(S, L)
  PROVE  Rank(S, L) \in Bijection(S, 0 .. Cardinality(S) - 1)
<1> DEFINE n == Cardinality(S)
           T == 0 .. n - 1
<1>1. n \in Nat
  BY FS_CardinalityType
<1>2. ASSUME NEW y \in S PROVE Cardinality(Predecessors(S, L, y)) \in T
  <2>1. Predecessors(S, L, y) \subseteq S /\ y \notin Predecessors(S, L, y)
    BY DEF Predecessors, OrdersStrictly
  <2>2. Cardinality(Predecessors(S, L, y)) <= n /\ Cardinality(Predecessors(S, L, y)) # n
    BY <2>1, FS_Subset
  <2>3. Cardinality(Predecessors(S, L, y)) \in Nat
    BY <2>1, FS_Subset, FS_CardinalityType
  <2> QED BY <1>1, <2>2, <2>3
<1>3. Rank(S, L) \in [S -> T]
  BY <1>2 DEF Rank
<1>4. ASSUME NEW x \in S, NEW y \in S, Rank(S, L)[x] = Rank(S, L)[y] PROVE x = y
  <2>1. Cardinality(Predecessors(S, L, x)) = Cardinality(Predecessors(S, L, y))
    BY <1>4 DEF Rank
  <2>2. Cardinality(Predecessors(S, L, x)) \in Int
    BY <1>2
  <2>3. x # y => <<x, y>> \in L \/ <<y, x>> \in L
    BY DEF OrdersStrictly
  <2> QED BY <2>1, <2>2, <2>3, RankGrows
<1>5. Rank(S, L) \in Injection(S, T)
  BY <1>3, <1>4, Fun_IsInj
<1>6. IsFiniteSet(T) /\ Cardinality(T) = n
  BY <1>1, FS_Interval
<1>7. Rank(S, L) \in Surjection(S, T)
  BY <1>5, <1>6, FS_Injection
<1> QED BY <1>5, <1>7 DEF Bijection

LEMMA FirstPlaces ==
  ASSUME NEW S, IsFiniteSet(S), NEW L, OrdersStrictly(S, L), NEW m \in 0 .. Cardinality(S)
  PROVE  Cardinality({y \in S : Cardinality(Predecessors(S, L, y)) < m}) = m
<1> DEFINE n == Cardinality(S)
           A == {y \in S : Cardinality(Predecessors(S, L, y)) < m}
           T == 0 .. m - 1
           f == [y \in A |-> Cardinality(Predecessors(S, L, y))]
<1>1. n \in Nat /\ m \in Nat /\ m <= n
  BY FS_CardinalityType
<1> HIDE DEF n
<1>2. Rank(S, L) \in Bijection(S, 0 .. n - 1)
  BY RanksArePlaces DEF n
<1>3. \A y \in S : Rank(S, L)[y] = Cardinality(Predecessors(S, L, y))
  BY DEF Rank
<1> DEFINE N == 0 .. n - 1
           r == Rank(S, L)
<1> HIDE DEF r, N
<1>4. /\ \A y \in S : r[y] \in N
      /\ \A x, y \in S : r[x] = r[y] => x = y
      /\ \A t \in N : \E y \in S : r[y] = t
  <2>1. r \in Bijection(S, N)
    BY <1>2 DEF r, N
  <2> QED BY <2>1, Fun_BijectionProperties
<1>5. f \in [A -> T]
  BY <1>1, <1>3, <1>4 DEF r, N
<1>6. \A x, y \in A : f[x] = f[y] => x = y
  BY <1>3, <1>4 DEF r
<1>7. \A t \in T : \E y \in A : f[y] = t
  <2> TAKE t \in T
  <2>1. PICK y \in S : Rank(S, L)[y] = t
    BY <1>1, <1>4 DEF r, N
  <2>2. y \in A /\ f[y] = t
    BY <1>1, <1>3, <2>1
  <2> QED BY <2>2
<1> HIDE DEF f, A, T
<1>8. f \in Injection(A, T) /\ f \in Surjection(A, T)
  BY <1>5, <1>6, <1>7, Fun_IsInj, Fun_IsSurj
<1>9. IsFiniteSet(T) /\ Cardinality(T) = m
  BY <1>1, FS_Interval DEF T
<1>10. Cardinality(A) = Cardinality(T)
  BY <1>8, <1>9, FS_Injection
<1> QED BY <1>9, <1>10 DEF A

-----------------------------------------------------------------------------
(* The groups of Top *)

LEMMA GroupIsChosen ==
  ASSUME NEW a, NEW inc \in BOOLEAN, NEW by, NEW v
  PROVE  Group(a, inc, by, v) = Chosen(a, inc, {<<by, v>>})
BY DEF Group, Chosen, Eligible, Excluded

LEMMA EligibleIsChosen ==
  ASSUME NEW a, NEW inc \in BOOLEAN
  PROVE  Eligible(a, inc) = Chosen(a, inc, {})
BY DEF Chosen, Eligible, Excluded

\* A label of an eligible goroutine is one of its key and value.
LEMMA LabelIsPair ==
  ASSUME NEW a, SoundSource(a), NEW g \in a.goroutines, NEW p \in a.labels[g], NEW by, p[1] = by
  PROVE  p = <<by, p[2]>>
BY DEF SoundSource

LEMMA EligibleAreGoroutines ==
  ASSUME NEW a, NEW inc PROVE Eligible(a, inc) \subseteq a.goroutines
BY DEF Eligible

LEMMA ValuesAreTrue ==
  ASSUME NEW a, SoundSource(a), NEW inc \in BOOLEAN, NEW by
  PROVE  Values(a, inc, by) = TrueValues(a, inc, by)
<1>1. ASSUME NEW v \in Values(a, inc, by) PROVE v \in TrueValues(a, inc, by)
  <2>1. PICK q \in UNION {a.labels[g] : g \in Eligible(a, inc)} : q[1] = by /\ v = q[2]
    BY <1>1 DEF Values
  <2>2. PICK g \in Eligible(a, inc) : q \in a.labels[g]
    BY <2>1
  <2>3. q = <<by, v>> /\ g \in a.goroutines
    BY <2>1, <2>2, LabelIsPair, EligibleAreGoroutines
  <2>4. g \in Chosen(a, inc, {<<by, v>>})
    <3>1. g \in Group(a, inc, by, v)
      BY <2>2, <2>3 DEF Group
    <3> QED BY <3>1, GroupIsChosen
  <2>5. v \in {p[2] : p \in UNION {a.labels[h] : h \in a.goroutines}}
    BY <2>1, <2>2, <2>3
  <2> QED BY <2>4, <2>5 DEF TrueValues
<1>2. ASSUME NEW v \in TrueValues(a, inc, by) PROVE v \in Values(a, inc, by)
  <2>1. PICK g : g \in Chosen(a, inc, {<<by, v>>})
    BY <1>2 DEF TrueValues
  <2>2. g \in Eligible(a, inc) /\ <<by, v>> \in a.labels[g]
    <3>1. g \in Group(a, inc, by, v)
      BY <2>1, GroupIsChosen
    <3> QED BY <3>1 DEF Group
  <2>3. <<by, v>>[1] = by /\ <<by, v>>[2] = v
    OBVIOUS
  <2>4. <<by, v>> \in UNION {a.labels[h] : h \in Eligible(a, inc)}
    BY <2>2
  <2> DEFINE q == <<by, v>>
  <2> HIDE DEF q
  <2>5. q \in {p \in UNION {a.labels[h] : h \in Eligible(a, inc)} : p[1] = by} /\ q[2] = v
    BY <2>3, <2>4 DEF q
  <2> QED BY <2>5 DEF Values
<1> QED BY <1>1, <1>2

LEMMA KeylessIsTrue ==
  ASSUME NEW a, SoundSource(a), NEW inc \in BOOLEAN, NEW by
  PROVE  Keyless(a, inc, by) = {g \in Chosen(a, inc, {}) : \A p \in a.labels[g] : p[1] # by}
<1> SUFFICES ASSUME NEW g \in Eligible(a, inc)
             PROVE  (\E v \in Values(a, inc, by) : g \in Group(a, inc, by, v))
                    <=> \E p \in a.labels[g] : p[1] = by
  BY EligibleIsChosen DEF Keyless
<1>1. ASSUME NEW v \in Values(a, inc, by), g \in Group(a, inc, by, v)
      PROVE  \E p \in a.labels[g] : p[1] = by
  <2>1. <<by, v>> \in a.labels[g] /\ <<by, v>>[1] = by
    BY <1>1 DEF Group
  <2> QED BY <2>1, Zenon
<1>2. ASSUME NEW p \in a.labels[g], p[1] = by
      PROVE  \E v \in Values(a, inc, by) : g \in Group(a, inc, by, v)
  <2>1. p = <<by, p[2]>>
    BY <1>2, LabelIsPair, EligibleAreGoroutines
  <2>2. p[2] \in Values(a, inc, by)
    <3>1. p \in UNION {a.labels[h] : h \in Eligible(a, inc)}
      OBVIOUS
    <3>2. p \in {q \in UNION {a.labels[h] : h \in Eligible(a, inc)} : q[1] = by}
      BY <1>2, <3>1
    <3> QED BY <3>2 DEF Values
  <2>3. g \in Group(a, inc, by, p[2])
    BY <2>1 DEF Group
  <2> QED BY <2>2, <2>3
<1> QED BY <1>1, <1>2

\* A goroutine with a value of the key has no other.
LEMMA GroupsAreApart ==
  ASSUME NEW a, SoundSource(a), NEW inc, NEW by, NEW u, NEW v,
         NEW g \in Group(a, inc, by, u) \cap Group(a, inc, by, v)
  PROVE  u = v
<1>1. <<by, u>> \in a.labels[g] /\ <<by, v>> \in a.labels[g] /\ g \in a.goroutines
  BY EligibleAreGoroutines DEF Group
<1>2. <<by, u>>[1] = <<by, v>>[1]
  OBVIOUS
<1>3. <<by, u>> = <<by, v>>
  BY <1>1, <1>2 DEF SoundSource
<1> QED BY <1>3

LEMMA ValuesAreFinite ==
  ASSUME NEW a, SoundSource(a), NEW inc, NEW by
  PROVE  IsFiniteSet(Values(a, inc, by)) /\ \A v \in Values(a, inc, by) : v \in Int
<1> DEFINE Q == {q \in UNION {a.labels[g] : g \in Eligible(a, inc)} : q[1] = by}
           f == [q \in Q |-> q[2]]
<1>1. Q \subseteq UNION {a.labels[g] : g \in a.goroutines}
  BY EligibleAreGoroutines
<1>2. IsFiniteSet(Q)
  BY <1>1, FS_Subset DEF SoundSource
<1>3. Values(a, inc, by) = {f[q] : q \in Q}
  BY DEF Values
<1>4. f \in Surjection(Q, Values(a, inc, by))
  <2>1. f \in [Q -> Values(a, inc, by)]
    BY <1>3
  <2>2. \A v \in Values(a, inc, by) : \E q \in Q : f[q] = v
    BY <1>3
  <2> HIDE DEF f, Q
  <2> QED BY <2>1, <2>2, Fun_IsSurj
<1>5. IsFiniteSet(Values(a, inc, by))
  <2> HIDE DEF f, Q
  <2> QED BY <1>2, <1>4, FS_Surjection
<1>6. ASSUME NEW v \in Values(a, inc, by) PROVE v \in Int
  <2>1. PICK q \in Q : v = q[2]
    BY <1>3
  <2>2. PICK g \in a.goroutines : q \in a.labels[g]
    BY <1>1
  <2> QED BY <2>1, <2>2 DEF SoundSource
<1> QED BY <1>5, <1>6

\* What Breakdowns makes of an object in a group's walk: whether another group's
\* walk holds it too, which is what a membership counter above 1 says.
LEMMA CrowdedIsShared ==
  ASSUME NEW V, IsFiniteSet(V), NEW v \in V, NEW D \in SUBSET V, v \in D
  PROVE  Cardinality(D) > 1 <=> \E u \in D : u # v
<1>1. IsFiniteSet(D)
  BY FS_Subset
<1>2. IsFiniteSet(D \ {v}) /\ Cardinality(D \ {v}) = Cardinality(D) - 1
  BY <1>1, FS_RemoveElement
<1>3. Cardinality(D) \in Nat /\ Cardinality(D \ {v}) \in Nat
  BY <1>1, <1>2, FS_CardinalityType
<1>4. Cardinality(D \ {v}) = 0 <=> D \ {v} = {}
  BY <1>2, FS_EmptySet
<1>5. D \ {v} = {} <=> ~ \E u \in D : u # v
  OBVIOUS
<1> QED BY <1>2, <1>3, <1>4, <1>5

\* The row of a value, from the walks of its group and of the roots outside.
RowOf(a, inc, by, v, set, crowded, outside, global, system, rest) ==
  [value |-> v, goroutines |-> Cardinality(Group(a, inc, by, v)), reachable |-> set,
   exclusive |-> set \ (crowded \cup outside), shared |-> set \cap (crowded \cup outside),
   bubblesOnly |-> (set \cap crowded) \ outside,
   otherRootsOnly |-> (set \cap outside) \ crowded, both |-> set \cap crowded \cap outside,
   global |-> set \cap global, system |-> set \cap system, ungrouped |-> set \cap rest]

Crowded(a, inc, by) ==
  {o \in Objects :
     Cardinality({v \in Values(a, inc, by) : o \in Walk(RootsOf(a, Group(a, inc, by, v)))}) > 1}

LEMMA BreakdownRows ==
  ASSUME NEW a, NEW inc, NEW by
  PROVE  LET global == Walk(a.globals)
             keyless == Keyless(a, inc, by)
             system == Walk(RootsOf(a, Excluded(a, inc) \cup (keyless \cap a.system)))
             rest == Walk(RootsOf(a, keyless))
         IN Breakdowns(a, inc, by) =
              {RowOf(a, inc, by, v, Walk(RootsOf(a, Group(a, inc, by, v))), Crowded(a, inc, by),
                     global \cup system \cup rest, global, system, rest) :
                 v \in Values(a, inc, by)}
<1> DEFINE values == Values(a, inc, by)
           set == [v \in values |-> Walk(RootsOf(a, Group(a, inc, by, v)))]
           membership == [o \in Objects |-> Cardinality({v \in values : o \in set[v]})]
           crowded == {o \in Objects : membership[o] > 1}
           global == Walk(a.globals)
           keyless == Keyless(a, inc, by)
           system == Walk(RootsOf(a, Excluded(a, inc) \cup (keyless \cap a.system)))
           rest == Walk(RootsOf(a, keyless))
           outside == global \cup system \cup rest
<1>1. Breakdowns(a, inc, by) =
        {RowOf(a, inc, by, v, set[v], crowded, outside, global, system, rest) : v \in values}
  BY DEF Breakdowns, RowOf
<1>2. crowded = Crowded(a, inc, by)
  <2>1. \A o : {v \in values : o \in set[v]}
               = {v \in values : o \in Walk(RootsOf(a, Group(a, inc, by, v)))}
    OBVIOUS
  <2> QED BY <2>1 DEF Crowded
<1>3. \A v \in values : set[v] = Walk(RootsOf(a, Group(a, inc, by, v)))
  OBVIOUS
<1> HIDE DEF set, crowded, outside, global, system, rest, values
<1>4. Breakdowns(a, inc, by) =
        {RowOf(a, inc, by, v, Walk(RootsOf(a, Group(a, inc, by, v))), Crowded(a, inc, by),
               outside, global, system, rest) : v \in values}
  BY <1>1, <1>2, <1>3
<1> QED BY <1>4 DEF outside, global, system, rest, values

\* The roots outside the named groups, one kind at a time.
LEMMA OutsidersAreTrue ==
  ASSUME NEW a, SoundSource(a), NEW inc \in BOOLEAN, NEW by, NEW keyless,
         keyless \subseteq Eligible(a, inc)
  PROVE  a.goroutines \ (Chosen(a, inc, {}) \ keyless) = Excluded(a, inc) \cup keyless
<1>1. Chosen(a, inc, {}) = a.goroutines \ Excluded(a, inc)
  BY EligibleIsChosen DEF Eligible
<1>2. Excluded(a, inc) \subseteq a.goroutines
  BY DEF Excluded, SoundSource
<1>3. keyless \subseteq a.goroutines
  BY EligibleAreGoroutines
<1> QED BY <1>1, <1>2, <1>3

LEMMA WalkIsReached ==
  ASSUME NEW a, NEW G PROVE Walk(RootsOf(a, G)) = ReachedBy(a, G)
BY OneWalkForAll

LEMMA ReachedByBoth ==
  ASSUME NEW a, NEW G, NEW H
  PROVE  ReachedBy(a, G \cup H) = ReachedBy(a, G) \cup ReachedBy(a, H)
BY DEF ReachedBy

\* Each row of Top is the partition that docs/multi-bubble-analysis.md defines.
LEMMA RowIsTrue ==
  ASSUME NEW a, SoundSource(a), NEW inc \in BOOLEAN, NEW by, NEW v \in Values(a, inc, by)
  PROVE  LET global == Walk(a.globals)
             keyless == Keyless(a, inc, by)
             system == Walk(RootsOf(a, Excluded(a, inc) \cup (keyless \cap a.system)))
             rest == Walk(RootsOf(a, keyless))
         IN RowOf(a, inc, by, v, Walk(RootsOf(a, Group(a, inc, by, v))), Crowded(a, inc, by),
                  global \cup system \cup rest, global, system, rest) = TrueRow(a, inc, by, v)
<1> DEFINE global == Walk(a.globals)
           keyless == Keyless(a, inc, by)
           system == Walk(RootsOf(a, Excluded(a, inc) \cup (keyless \cap a.system)))
           rest == Walk(RootsOf(a, keyless))
           outside == global \cup system \cup rest
           mine == Group(a, inc, by, v)
           R == ReachedBy(a, mine)
           named == Chosen(a, inc, {}) \ keyless
           outsiders == a.goroutines \ named
           crowded == Crowded(a, inc, by)
           N(o) == \E g \in named \ mine : ReachesFrom(a, g, o)
           O(o) == GlobalReaches(a, o) \/ \E g \in outsiders : ReachesFrom(a, g, o)
<1>1. mine = Chosen(a, inc, {<<by, v>>})
  BY GroupIsChosen
<1>2. keyless = {g \in Chosen(a, inc, {}) : \A p \in a.labels[g] : p[1] # by}
  BY KeylessIsTrue
<1>3. keyless \subseteq Eligible(a, inc)
  BY DEF Keyless
<1>4. outsiders = Excluded(a, inc) \cup keyless
  BY <1>3, OutsidersAreTrue
<1>5. R \subseteq Objects
  BY DEF ReachedBy
<1>6. \A g : g \in named <=> \E u \in Values(a, inc, by) : g \in Group(a, inc, by, u)
  <2>1. named = Eligible(a, inc) \cap UNION {Group(a, inc, by, u) : u \in Values(a, inc, by)}
    BY EligibleIsChosen DEF Keyless
  <2>2. \A u : Group(a, inc, by, u) \subseteq Eligible(a, inc)
    BY DEF Group
  <2> QED BY <2>1, <2>2
<1>7. ASSUME NEW o \in R PROVE o \in crowded <=> N(o)
  <2> DEFINE D == {u \in Values(a, inc, by) : o \in Walk(RootsOf(a, Group(a, inc, by, u)))}
  <2>1. \A u : o \in Walk(RootsOf(a, Group(a, inc, by, u)))
               <=> \E g \in Group(a, inc, by, u) : ReachesFrom(a, g, o)
    BY <1>5, WalkIsReached DEF ReachedBy
  <2>2. v \in D
    BY <2>1 DEF ReachedBy
  <2>3. o \in crowded <=> Cardinality(D) > 1
    BY <1>5 DEF Crowded
  <2>4. Cardinality(D) > 1 <=> \E u \in D : u # v
    <3>1. IsFiniteSet(Values(a, inc, by))
      BY ValuesAreFinite
    <3>2. D \in SUBSET Values(a, inc, by)
      OBVIOUS
    <3> HIDE DEF D
    <3> QED BY <2>2, <3>1, <3>2, CrowdedIsShared
  <2>5. ASSUME NEW u \in D, u # v PROVE N(o)
    <3>1. PICK g \in Group(a, inc, by, u) : ReachesFrom(a, g, o)
      BY <2>1
    <3>2. g \in named
      BY <1>6
    <3>3. g \notin mine
      BY <2>5, GroupsAreApart
    <3> QED BY <3>1, <3>2, <3>3
  <2>6. ASSUME N(o) PROVE \E u \in D : u # v
    <3>1. PICK g \in named \ mine : ReachesFrom(a, g, o)
      BY <2>6
    <3>2. PICK u \in Values(a, inc, by) : g \in Group(a, inc, by, u)
      BY <1>6
    <3>3. u \in D
      BY <2>1, <3>1, <3>2
    <3>4. u # v
      BY <3>1, <3>2
    <3> QED BY <3>3, <3>4
  <2> QED BY <2>3, <2>4, <2>5, <2>6
<1>8. \A o \in R : o \in global <=> GlobalReaches(a, o)
  BY <1>5, GlobalWalk
<1>9. \A o \in R : o \in outside <=> O(o)
  <2>1. system = ReachedBy(a, Excluded(a, inc) \cup (keyless \cap a.system))
        /\ rest = ReachedBy(a, keyless)
    BY WalkIsReached
  <2>2. system \cup rest = ReachedBy(a, outsiders)
    <3>1. (Excluded(a, inc) \cup (keyless \cap a.system)) \cup keyless = outsiders
      BY <1>4
    <3> QED BY <2>1, <3>1, ReachedByBoth
  <2>3. \A o \in R : o \in system \cup rest <=> \E g \in outsiders : ReachesFrom(a, g, o)
    BY <1>5, <2>2 DEF ReachedBy
  <2> QED BY <1>8, <2>3
<1>10. R \cap system = R \cap ReachedBy(a, outsiders \cap a.system)
  <2>1. outsiders \cap a.system = Excluded(a, inc) \cup (keyless \cap a.system)
    BY <1>4 DEF Excluded
  <2> QED BY <2>1, WalkIsReached
<1>11. R \cap rest = R \cap ReachedBy(a, keyless)
  BY WalkIsReached
<1>12. Walk(RootsOf(a, mine)) = R
  BY WalkIsReached
<1>13. /\ R \ (crowded \cup outside) = {o \in R : ~N(o) /\ ~O(o)}
       /\ R \cap (crowded \cup outside) = {o \in R : N(o) \/ O(o)}
       /\ (R \cap crowded) \ outside = {o \in R : N(o) /\ ~O(o)}
       /\ (R \cap outside) \ crowded = {o \in R : ~N(o) /\ O(o)}
       /\ R \cap crowded \cap outside = {o \in R : N(o) /\ O(o)}
       /\ R \cap global = {o \in R : GlobalReaches(a, o)}
  <2> HIDE DEF R, crowded, outside, global, N, O
  <2> QED BY <1>7, <1>8, <1>9
<1>14. TrueRow(a, inc, by, v) =
         [value |-> v, goroutines |-> Cardinality(mine), reachable |-> R,
          exclusive |-> {o \in R : ~N(o) /\ ~O(o)}, shared |-> {o \in R : N(o) \/ O(o)},
          bubblesOnly |-> {o \in R : N(o) /\ ~O(o)},
          otherRootsOnly |-> {o \in R : ~N(o) /\ O(o)}, both |-> {o \in R : N(o) /\ O(o)},
          global |-> {o \in R : GlobalReaches(a, o)},
          system |-> R \cap ReachedBy(a, outsiders \cap a.system),
          ungrouped |-> R \cap ReachedBy(a, keyless)]
  <2> HIDE DEF mine, keyless
  <2> QED BY <1>1, <1>2 DEF TrueRow
<1>15. RowOf(a, inc, by, v, R, crowded, outside, global, system, rest) =
         [value |-> v, goroutines |-> Cardinality(mine), reachable |-> R,
          exclusive |-> R \ (crowded \cup outside), shared |-> R \cap (crowded \cup outside),
          bubblesOnly |-> (R \cap crowded) \ outside,
          otherRootsOnly |-> (R \cap outside) \ crowded, both |-> R \cap crowded \cap outside,
          global |-> R \cap global, system |-> R \cap system, ungrouped |-> R \cap rest]
  BY DEF RowOf
<1> HIDE DEF R, crowded, outside, global, system, rest, N, O, mine, keyless, outsiders
<1>16. RowOf(a, inc, by, v, R, crowded, outside, global, system, rest) = TrueRow(a, inc, by, v)
  BY <1>10, <1>11, <1>13, <1>14, <1>15
<1>17. RowOf(a, inc, by, v, Walk(RootsOf(a, mine)), crowded, outside, global, system, rest)
       = TrueRow(a, inc, by, v)
  BY <1>12, <1>16
<1> QED BY <1>17 DEF crowded, outside, global, system, rest, mine, keyless

LEMMA RowsAreTrue ==
  ASSUME NEW a, SoundSource(a), NEW inc \in BOOLEAN, NEW by
  PROVE  Breakdowns(a, inc, by) = {TrueRow(a, inc, by, v) : v \in TrueValues(a, inc, by)}
<1> DEFINE global == Walk(a.globals)
           keyless == Keyless(a, inc, by)
           system == Walk(RootsOf(a, Excluded(a, inc) \cup (keyless \cap a.system)))
           rest == Walk(RootsOf(a, keyless))
           Row(v) == RowOf(a, inc, by, v, Walk(RootsOf(a, Group(a, inc, by, v))),
                           Crowded(a, inc, by), global \cup system \cup rest, global, system, rest)
<1>1. Breakdowns(a, inc, by) = {Row(v) : v \in Values(a, inc, by)}
  BY BreakdownRows
<1>2. \A v \in Values(a, inc, by) : Row(v) = TrueRow(a, inc, by, v)
  BY RowIsTrue
<1>3. Values(a, inc, by) = TrueValues(a, inc, by)
  BY ValuesAreTrue
<1> HIDE DEF Row
<1> QED BY <1>1, <1>2, <1>3

\* Induction over the naturals, for the set of those that have a property.
LEMMA SetInduction ==
  ASSUME NEW S, 0 \in S, \A n \in Nat : n \in S => n + 1 \in S
  PROVE  Nat \subseteq S
<1>1. SUFFICES ASSUME NEW m \in Nat, m \notin S PROVE FALSE
  OBVIOUS
<1> DEFINE F == {T \in SUBSET (0 .. m) : \E i \in 0 .. m : T = 0 .. i /\ i \notin S}
<1>2. 0 .. m \in F
  BY <1>1
<1>3. F \subseteq FiniteSubsetsOf(0 .. m)
  BY FS_Interval, FS_FiniteSubsetsOfFinite
<1>4. PICK T \in F : \A U \in F : ~ (<<U, T>> \in StrictSubsetOrdering(0 .. m))
  <2> HIDE DEF F
  <2> QED BY <1>2, <1>3, FS_StrictSubsetOrderingWellFounded, WFMin
<1>5. PICK i \in 0 .. m : T = 0 .. i /\ i \notin S
  BY <1>4
<1>6. i # 0 /\ i - 1 \in Nat /\ i - 1 \notin S
  BY <1>5
<1>7. 0 .. (i - 1) \in F
  BY <1>5, <1>6
<1>8. <<0 .. (i - 1), T>> \in StrictSubsetOrdering(0 .. m)
  BY <1>5, <1>6 DEF StrictSubsetOrdering
<1> QED BY <1>4, <1>7, <1>8

\* A recursive function over the subsets of D, which takes out the chosen
\* element first, exists: what Bytes, a MapThenSumSet, is defined by.
IsFold(g, D, base, choose, step) ==
  \A s \in SUBSET D :
    g[s] = IF s = {} THEN base ELSE step[<<choose[s], g[s \ {choose[s]}]>>]

\* A fold over the subsets of D can be computed from the empty set up.
LEMMA FoldExists ==
  ASSUME NEW D, IsFiniteSet(D), NEW V, NEW base \in V, NEW choose,
         \A s \in SUBSET D : s # {} => choose[s] \in s,
         NEW step \in [D \X V -> V]
  PROVE  \E g \in [SUBSET D -> V] : IsFold(g, D, base, choose, step)
<1> DEFINE n == Cardinality(D)
           Below(k) == {s \in SUBSET D : Cardinality(s) <= k}
           Fits(g, k) == \A s \in Below(k) :
             g[s] = IF s = {} THEN base ELSE step[<<choose[s], g[s \ {choose[s]}]>>]
           S == {k \in Nat : \E g \in [SUBSET D -> V] : Fits(g, k)}
<1>0. n \in Nat
  BY FS_CardinalityType
<1>1. \A s \in SUBSET D : Cardinality(s) \in 0 .. n /\ (Cardinality(s) = 0 <=> s = {})
  <2> TAKE s \in SUBSET D
  <2>1. IsFiniteSet(s) /\ Cardinality(s) <= n
    BY FS_Subset
  <2>2. Cardinality(s) \in Nat
    BY <2>1, FS_CardinalityType
  <2>3. Cardinality(s) = 0 <=> s = {}
    BY <2>1, FS_EmptySet
  <2> QED BY <1>0, <2>1, <2>2, <2>3
<1>2. \A s \in SUBSET D : s # {} =>
        /\ s \ {choose[s]} \in SUBSET D
        /\ Cardinality(s \ {choose[s]}) = Cardinality(s) - 1
  <2> SUFFICES ASSUME NEW s \in SUBSET D, s # {}
               PROVE  /\ s \ {choose[s]} \in SUBSET D
                      /\ Cardinality(s \ {choose[s]}) = Cardinality(s) - 1
    OBVIOUS
  <2>1. IsFiniteSet(s) /\ choose[s] \in s
    BY FS_Subset
  <2> QED BY <2>1, FS_RemoveElement
<1> HIDE DEF n
<1>3. 0 \in S
  <2> DEFINE g == [s \in SUBSET D |-> base]
  <2>1. Fits(g, 0)
    BY <1>1
  <2> QED BY <2>1
<1>4. ASSUME NEW k \in Nat, k \in S PROVE k + 1 \in S
  <2>1. PICK g \in [SUBSET D -> V] : Fits(g, k)
    BY <1>4
  <2> DEFINE h == [s \in SUBSET D |->
                     IF s = {} THEN base ELSE step[<<choose[s], g[s \ {choose[s]}]>>]]
  <2>2. h \in [SUBSET D -> V]
    <3> SUFFICES ASSUME NEW s \in SUBSET D, s # {}
                 PROVE  step[<<choose[s], g[s \ {choose[s]}]>>] \in V
      OBVIOUS
    <3> QED BY <1>2
  <2>3. \A s \in Below(k) : h[s] = g[s]
    BY <2>1
  <2>4. \A s \in Below(k + 1) : s # {} => s \ {choose[s]} \in Below(k)
    <3> SUFFICES ASSUME NEW s \in Below(k + 1), s # {}
                 PROVE  s \ {choose[s]} \in Below(k)
      OBVIOUS
    <3>1. Cardinality(s) \in Nat /\ Cardinality(s) <= k + 1
      BY <1>1
    <3>2. s \ {choose[s]} \in SUBSET D /\ Cardinality(s \ {choose[s]}) = Cardinality(s) - 1
      BY <1>2
    <3> QED BY <3>1, <3>2
  <2>5. Fits(h, k + 1)
    <3> SUFFICES ASSUME NEW s \in Below(k + 1), s # {}
                 PROVE  h[s] = step[<<choose[s], h[s \ {choose[s]}]>>]
      OBVIOUS
    <3>1. h[s \ {choose[s]}] = g[s \ {choose[s]}]
      <4> HIDE DEF h, Below
      <4> QED BY <2>3, <2>4
    <3>2. h[s] = step[<<choose[s], g[s \ {choose[s]}]>>]
      OBVIOUS
    <3> QED BY <3>1, <3>2
  <2> QED
    <3> HIDE DEF h, Fits
    <3> QED BY <2>2, <2>5
<1>5. n \in S
  <2> HIDE DEF S
  <2> QED BY <1>0, <1>3, <1>4, SetInduction
<1>6. PICK g \in [SUBSET D -> V] : Fits(g, n)
  BY <1>5
<1>7. \A s \in SUBSET D : s \in Below(n)
  BY <1>1
<1>8. \A s \in SUBSET D :
        g[s] = IF s = {} THEN base ELSE step[<<choose[s], g[s \ {choose[s]}]>>]
  <2> HIDE DEF Below
  <2> QED BY <1>6, <1>7
<1> QED
  BY <1>8 DEF IsFold

LEMMA BytesAreNumbers ==
  ASSUME GraphIsSound, NEW D \in SUBSET Objects
  PROVE  Bytes(D) \in Nat
<1> DEFINE choose == [s \in SUBSET D |-> CHOOSE x \in s : TRUE]
           step == [p \in D \X Nat |-> Size[p[1]] + p[2]]
           Iter(f) == f = [s \in SUBSET D |->
                             IF s = {} THEN 0
                             ELSE Size[CHOOSE x \in s : TRUE] + f[s \ {CHOOSE x \in s : TRUE}]]
           iter == CHOOSE f : Iter(f)
<1>1. Bytes(D) = iter[D]
  BY DEF Bytes, MapThenSumSet, MapThenFoldSet
<1>2. IsFiniteSet(D)
  BY FS_Subset DEF GraphIsSound
<1>3. \A s \in SUBSET D : s # {} => choose[s] = (CHOOSE x \in s : TRUE) /\ choose[s] \in s
  OBVIOUS
<1>4. step \in [D \X Nat -> Nat]
  <2>1. \A o \in D : Size[o] \in Nat
    BY DEF GraphIsSound
  <2> QED BY <2>1
<1>5. PICK g \in [SUBSET D -> Nat] : IsFold(g, D, 0, choose, step)
  <2> HIDE DEF choose, step
  <2> QED BY <1>2, <1>3, <1>4, FoldExists
<1>6. Iter(g)
  <2>1. ASSUME NEW s \in SUBSET D, s # {}
        PROVE  g[s] = Size[CHOOSE x \in s : TRUE] + g[s \ {CHOOSE x \in s : TRUE}]
    <3>1. g[s] = step[<<choose[s], g[s \ {choose[s]}]>>]
      <4> HIDE DEF step, choose
      <4> QED BY <1>5, <2>1 DEF IsFold
    <3>2. choose[s] \in D /\ choose[s] = (CHOOSE x \in s : TRUE)
      BY <1>3, <2>1
    <3>3. g[s \ {choose[s]}] \in Nat
      OBVIOUS
    <3>4. step[<<choose[s], g[s \ {choose[s]}]>>] = Size[choose[s]] + g[s \ {choose[s]}]
      <4> HIDE DEF choose
      <4> QED BY <3>2, <3>3
    <3> QED
      <4> HIDE DEF choose, step
      <4> QED BY <3>1, <3>2, <3>4
  <2>2. g[{}] = 0
    BY <1>5 DEF IsFold
  <2>3. g = [s \in SUBSET D |-> g[s]]
    OBVIOUS
  <2> QED BY ZenonT(60), <2>1, <2>2, <2>3
<1>7. Iter(iter)
  <2> HIDE DEF Iter
  <2> QED BY <1>6
<1>8. \A s \in SUBSET D :
        iter[s] = IF s = {} THEN 0 ELSE Size[choose[s]] + iter[s \ {choose[s]}]
  <2> HIDE DEF iter
  <2> QED BY <1>7
<1>9. \A s \in SUBSET D : iter[s] \in Nat
  <2> DEFINE Wrong == {s \in SUBSET D : iter[s] \notin Nat}
  <2>1. SUFFICES ASSUME Wrong # {} PROVE FALSE
    OBVIOUS
  <2>2. Wrong \subseteq FiniteSubsetsOf(D)
    BY <1>2, FS_FiniteSubsetsOfFinite
  <2>3. PICK s \in Wrong : \A t \in Wrong : ~ (<<t, s>> \in StrictSubsetOrdering(D))
    <3> HIDE DEF Wrong
    <3> QED BY <2>1, <2>2, FS_StrictSubsetOrderingWellFounded, WFMin
  <2> HIDE DEF iter
  <2>4. s # {}
    <3>1. s \in SUBSET D /\ iter[s] \notin Nat
      BY <2>3
    <3>2. s = {} => iter[s] = 0
      BY <1>8, <3>1
    <3> QED BY <3>1, <3>2
  <2>5. choose[s] \in s
    BY <1>3, <2>3, <2>4
  <2>6. <<s \ {choose[s]}, s>> \in StrictSubsetOrdering(D)
    BY <2>3, <2>5 DEF StrictSubsetOrdering
  <2>7. iter[s \ {choose[s]}] \in Nat
    BY <2>3, <2>6
  <2>8. Size[choose[s]] \in Nat
    BY <2>3, <2>5 DEF GraphIsSound
  <2>9. iter[s] = Size[choose[s]] + iter[s \ {choose[s]}]
    BY <1>8, <2>3, <2>4
  <2> HIDE DEF choose
  <2> QED BY <2>3, <2>7, <2>8, <2>9
<1> QED BY <1>1, <1>9

\* Rows of different values differ, in the value they name at least.
LEMMA RowsAreFinite ==
  ASSUME NEW a, SoundSource(a), NEW inc \in BOOLEAN, NEW by
  PROVE  LET rows == Breakdowns(a, inc, by)
         IN /\ IsFiniteSet(rows)
            /\ \A q \in rows : q.value \in Int
            /\ \A q, r \in rows : q.value = r.value => q = r
            /\ \A q \in rows, sort \in Sorts : q[sort] \in SUBSET Objects
<1> DEFINE V == Values(a, inc, by)
           rows == Breakdowns(a, inc, by)
           f == [v \in V |-> TrueRow(a, inc, by, v)]
<1>1. rows = {f[v] : v \in V}
  BY RowsAreTrue, ValuesAreTrue
<1>2. IsFiniteSet(V) /\ \A v \in V : v \in Int
  BY ValuesAreFinite
<1>3. IsFiniteSet(rows)
  <2>1. f \in [V -> rows] /\ \A q \in rows : \E v \in V : f[v] = q
    BY <1>1
  <2> HIDE DEF f, V, rows
  <2> QED BY <1>2, <2>1, Fun_IsSurj, FS_Surjection
<1>4. \A v \in V : f[v].value = v /\ \A sort \in Sorts : f[v][sort] \in SUBSET Objects
  <2> TAKE v \in V
  <2> DEFINE R == ReachedBy(a, Chosen(a, inc, {<<by, v>>}))
  <2>1. R \subseteq Objects
    BY DEF ReachedBy
  <2>2. f[v].value = v /\ f[v].reachable = R
        /\ f[v].exclusive \subseteq R /\ f[v].shared \subseteq R
    <3>1. TrueRow(a, inc, by, v).value = v /\ TrueRow(a, inc, by, v).reachable = R
      BY DEF TrueRow
    <3>2. TrueRow(a, inc, by, v).exclusive \subseteq R /\ TrueRow(a, inc, by, v).shared \subseteq R
      BY DEF TrueRow
    <3> QED BY <3>1, <3>2
  <2> HIDE DEF f, R
  <2>3. f[v]["reachable"] \in SUBSET Objects /\ f[v]["exclusive"] \in SUBSET Objects
        /\ f[v]["shared"] \in SUBSET Objects
    BY <2>1, <2>2
  <2> QED BY <2>2, <2>3 DEF Sorts
<1> HIDE DEF f, V, rows
<1> QED
  <2>1. \A q \in rows : \E v \in V : q = f[v]
    BY <1>1
  <2>2. \A q \in rows : q.value \in Int /\ \A sort \in Sorts : q[sort] \in SUBSET Objects
    BY <1>2, <1>4, <2>1
  <2>3. \A q, r \in rows : q.value = r.value => q = r
    BY <1>4, <2>1
  <2> QED BY <1>3, <2>2, <2>3 DEF rows

\* The pairs of rows of which the first comes before the second.
Ordered(rows, sort) == {p \in rows \X rows : RanksBefore(sort, p[1], p[2])}

LEMMA RowsAreOrdered ==
  ASSUME GraphIsSound, NEW rows, NEW sort,
         \A q \in rows : q.value \in Int /\ q[sort] \in SUBSET Objects,
         \A q, r \in rows : q.value = r.value => q = r
  PROVE  OrdersStrictly(rows, Ordered(rows, sort))
<1> DEFINE b == [q \in rows |-> Bytes(q[sort])]
           val == [q \in rows |-> q.value]
           L == Ordered(rows, sort)
<1>1. \A q \in rows : b[q] \in Int /\ val[q] \in Int
  BY BytesAreNumbers
<1>2. \A q, r \in rows : val[q] = val[r] => q = r
  OBVIOUS
<1>3. \A q, r \in rows : <<q, r>> \in L <=> b[q] > b[r] \/ (b[q] = b[r] /\ val[q] < val[r])
  <2> SUFFICES ASSUME NEW q \in rows, NEW r \in rows
               PROVE  <<q, r>> \in L <=> b[q] > b[r] \/ (b[q] = b[r] /\ val[q] < val[r])
    OBVIOUS
  <2>1. <<q, r>> \in L <=> RanksBefore(sort, q, r)
    BY DEF Ordered
  <2>2. b[q] = Bytes(q[sort]) /\ b[r] = Bytes(r[sort]) /\ val[q] = q.value /\ val[r] = r.value
    OBVIOUS
  <2> HIDE DEF b, val, L
  <2> QED BY <2>1, <2>2 DEF RanksBefore
<1> HIDE DEF b, val, L
<1>4. \A x \in rows : <<x, x>> \notin L
  BY <1>1, <1>3
<1>5. ASSUME NEW x \in rows, NEW y \in rows, NEW z \in rows, <<x, y>> \in L, <<y, z>> \in L
      PROVE  <<x, z>> \in L
  <2>1. b[x] \in Int /\ b[y] \in Int /\ b[z] \in Int
        /\ val[x] \in Int /\ val[y] \in Int /\ val[z] \in Int
    BY <1>1
  <2>2. b[x] > b[y] \/ (b[x] = b[y] /\ val[x] < val[y])
    BY <1>3, <1>5
  <2>3. b[y] > b[z] \/ (b[y] = b[z] /\ val[y] < val[z])
    BY <1>3, <1>5
  <2>4. b[x] > b[z] \/ (b[x] = b[z] /\ val[x] < val[z])
    BY <2>1, <2>2, <2>3
  <2> QED BY <1>3, <2>4
<1>6. ASSUME NEW x \in rows, NEW y \in rows, x # y PROVE <<x, y>> \in L \/ <<y, x>> \in L
  <2>1. b[x] \in Int /\ b[y] \in Int /\ val[x] \in Int /\ val[y] \in Int /\ val[x] # val[y]
    BY <1>1, <1>2, <1>6
  <2>2. b[x] > b[y] \/ (b[x] = b[y] /\ val[x] < val[y])
        \/ b[y] > b[x] \/ (b[y] = b[x] /\ val[y] < val[x])
    BY <2>1
  <2> QED BY <1>3, <2>2
<1> QED BY <1>4, <1>5, <1>6 DEF OrdersStrictly, L

\* Top (multibubble.go:354): with a limit it shows that many groups, none of
\* them smaller than one it hides, each with the partition that
\* docs/multi-bubble-analysis.md defines, and counts those it hides.
THEOREM TopIsTrue ==
  ASSUME GraphIsSound, NEW a, SoundSource(a), NEW inc \in BOOLEAN, NEW by,
         NEW sort \in Sorts, NEW limit \in Nat
  PROVE  TopGroups(a, inc, by, sort, limit) \in TrueRankings(a, inc, by, sort, limit)
<1> DEFINE rows == Breakdowns(a, inc, by)
           L == Ordered(rows, sort)
           total == Cardinality(rows)
           size == IF limit = 0 \/ total < limit THEN total ELSE limit
           place == [r \in rows |-> Cardinality(Predecessors(rows, L, r))]
           shown == {r \in rows : limit = 0 \/ place[r] < limit}
           Largest(S) == \A q \in S, r \in rows \ S : Bytes(q[sort]) >= Bytes(r[sort])
<1>1. rows = {TrueRow(a, inc, by, v) : v \in TrueValues(a, inc, by)}
  BY RowsAreTrue
<1>2. /\ IsFiniteSet(rows)
      /\ \A q \in rows : q.value \in Int /\ q[sort] \in SUBSET Objects
      /\ \A q, r \in rows : q.value = r.value => q = r
  BY RowsAreFinite
<1>3. OrdersStrictly(rows, L)
  <2> HIDE DEF rows
  <2> QED BY <1>2, RowsAreOrdered
<1>4. total \in Nat
  BY <1>2, FS_CardinalityType
<1>5. \A r \in rows : place[r] \in 0 .. total - 1
  <2>1. Rank(rows, L) \in [rows -> 0 .. total - 1]
    BY <1>2, <1>3, RanksArePlaces DEF Bijection, Injection
  <2>2. \A r \in rows : Rank(rows, L)[r] = place[r]
    BY DEF Rank
  <2> HIDE DEF place, L, rows, total
  <2> QED BY <2>1, <2>2
<1>6. shown = {r \in rows : place[r] < size}
  <2> HIDE DEF place, L, rows, total
  <2> QED BY <1>4, <1>5
<1>7. Cardinality(shown) = size
  <2>1. size \in 0 .. total
    <3> HIDE DEF total
    <3> QED BY <1>4
  <2>2. {r \in rows : place[r] < size} = {r \in rows : Cardinality(Predecessors(rows, L, r)) < size}
    OBVIOUS
  <2> HIDE DEF rows, L, place, size, shown
  <2> QED BY <1>2, <1>3, <1>6, <2>1, <2>2, FirstPlaces
<1>8. Largest(shown)
  <2> SUFFICES ASSUME NEW q \in shown, NEW r \in rows \ shown
               PROVE  Bytes(q[sort]) >= Bytes(r[sort])
    OBVIOUS
  <2>1. q \in rows /\ q # r /\ ~ (place[r] <= place[q])
    <3> HIDE DEF place, rows, total
    <3> QED BY <1>4, <1>5
  <2>2. Bytes(q[sort]) \in Nat /\ Bytes(r[sort]) \in Nat
    BY <1>2, <2>1, BytesAreNumbers
  <2>3. <<q, r>> \in L
    <3>1. <<q, r>> \in L \/ <<r, q>> \in L
      BY <1>3, <2>1 DEF OrdersStrictly
    <3>2. <<r, q>> \in L => place[r] < place[q]
      <4> HIDE DEF L, rows
      <4> QED BY <1>2, <1>3, <2>1, RankGrows
    <3>3. place[r] \in Int /\ place[q] \in Int
      <4> HIDE DEF place
      <4> QED BY <1>5, <2>1
    <3> HIDE DEF place, L, rows
    <3> QED BY <2>1, <3>1, <3>2, <3>3
  <2>4. RanksBefore(sort, q, r)
    BY <2>3 DEF Ordered
  <2> HIDE DEF shown, rows
  <2> QED BY <2>2, <2>4 DEF RanksBefore
<1>9. TopGroups(a, inc, by, sort, limit) =
        [rows |-> shown, total |-> total, ungrouped |-> Cardinality(Keyless(a, inc, by)),
         excluded |-> Cardinality(Excluded(a, inc))]
  <2>1. \A r \in rows : {q \in rows : RanksBefore(sort, q, r)} = Predecessors(rows, L, r)
    BY DEF Predecessors, Ordered
  <2>2. shown = {r \in rows : limit = 0
                   \/ Cardinality({q \in rows : RanksBefore(sort, q, r)}) < limit}
    BY <2>1
  <2> HIDE DEF shown
  <2> QED BY <2>2 DEF TopGroups
<1>10. a.goroutines \ Chosen(a, inc, {}) = Excluded(a, inc)
  <2>1. Chosen(a, inc, {}) = a.goroutines \ Excluded(a, inc)
    BY EligibleIsChosen DEF Eligible
  <2>2. Excluded(a, inc) \subseteq a.goroutines
    BY DEF Excluded, SoundSource
  <2> QED BY <2>1, <2>2
<1>11. shown \in {S \in SUBSET rows : Cardinality(S) = size /\ Largest(S)}
  <2>1. shown \subseteq rows
    OBVIOUS
  <2> HIDE DEF shown, rows, size
  <2> QED BY <1>7, <1>8, <2>1
<1>12. TrueRankings(a, inc, by, sort, limit) =
         {[rows |-> S, total |-> total, ungrouped |-> Cardinality(Keyless(a, inc, by)),
           excluded |-> Cardinality(Excluded(a, inc))] :
            S \in {T \in SUBSET rows : Cardinality(T) = size /\ Largest(T)}}
  BY <1>1, <1>10, KeylessIsTrue DEF TrueRankings
<1> HIDE DEF shown, rows, size, total, Largest
<1> QED BY <1>9, <1>11, <1>12

-----------------------------------------------------------------------------
(* Sorted lists *)

\* The first places of S, all of them when the limit is 0.
Cut(n, limit) == IF limit = 0 \/ n < limit THEN n ELSE limit
Shown(S, limit) == Cut(Cardinality(S), limit)
Beginning(q, m) == [i \in 1 .. m |-> q[i]]

\* Two relations order S alike.
SameOrder(S, L, Before) == \A d, e \in S : <<d, e>> \in Before <=> <<d, e>> \in L

IsSorted(S, L, q) ==
  /\ q \in [1 .. Cardinality(S) -> S]
  /\ \A i, j \in 1 .. Cardinality(S) : i < j => <<q[i], q[j]>> \in L

\* Its members in the order of their ranks.
LEMMA SortedExists ==
  ASSUME NEW S, IsFiniteSet(S), NEW L, OrdersStrictly(S, L)
  PROVE  \E q : IsSorted(S, L, q)
<1> DEFINE n == Cardinality(S)
           r == Rank(S, L)
           q == [i \in 1 .. n |-> CHOOSE y \in S : r[y] = i - 1]
<1>1. n \in Nat
  BY FS_CardinalityType
<1>2. r \in Bijection(S, 0 .. n - 1)
  BY RanksArePlaces
<1>3. \A t \in 0 .. n - 1 : \E y \in S : r[y] = t
  <2> DEFINE T == 0 .. n - 1
  <2> HIDE DEF r, T
  <2>1. r \in Bijection(S, T)
    BY <1>2 DEF r, T
  <2>2. \A t \in T : \E y \in S : r[y] = t
    BY <2>1, Fun_BijectionProperties
  <2> QED BY <2>2 DEF T
<1>4. ASSUME NEW i \in 1 .. n PROVE q[i] \in S /\ r[q[i]] = i - 1
  <2>1. i - 1 \in 0 .. n - 1
    BY <1>1
  <2>2. PICK y \in S : r[y] = i - 1
    BY <1>3, <2>1
  <2> HIDE DEF r
  <2> QED BY <2>2
<1>5. ASSUME NEW i \in 1 .. n, NEW j \in 1 .. n, i < j PROVE <<q[i], q[j]>> \in L
  <2> DEFINE x == q[i]
             y == q[j]
  <2>1. x \in S /\ y \in S /\ r[x] = i - 1 /\ r[y] = j - 1
    BY <1>4
  <2> HIDE DEF x, y
  <2>2. Cardinality(Predecessors(S, L, x)) = i - 1 /\ Cardinality(Predecessors(S, L, y)) = j - 1
    BY <2>1 DEF Rank
  <2>3. x # y
    BY <1>1, <2>1, <1>5
  <2>4. ~ (<<y, x>> \in L)
    <3>1. ~ (j - 1 < i - 1)
      BY <1>1, <1>5
    <3> QED BY <2>1, <2>2, <3>1, RankGrows
  <2>5. <<x, y>> \in L
    BY <2>1, <2>3, <2>4 DEF OrdersStrictly
  <2> QED BY <2>5 DEF x, y
<1>6. IsSorted(S, L, q)
  BY <1>4, <1>5 DEF IsSorted
<1> QED BY <1>6

LEMMA SortedIsSorted ==
  ASSUME NEW S, IsFiniteSet(S), NEW L, OrdersStrictly(S, L)
  PROVE  IsSorted(S, L, Sorted(S, L))
<1> DEFINE n == Cardinality(S)
           P(q) == \A i, j \in DOMAIN q : i < j => <<q[i], q[j]>> \in L
<1>1. PICK q : IsSorted(S, L, q)
  BY SortedExists
<1>2. \A p \in [1 .. n -> S] : P(p) <=> IsSorted(S, L, p)
  BY DEF IsSorted
<1>3. q \in [1 .. n -> S] /\ P(q)
  BY <1>1, <1>2 DEF IsSorted
<1>4. Sorted(S, L) = CHOOSE p \in [1 .. n -> S] : P(p)
  BY DEF Sorted
<1> HIDE DEF P, n
<1>5. Sorted(S, L) \in [1 .. n -> S] /\ P(Sorted(S, L))
  BY <1>3, <1>4
<1> QED BY <1>2, <1>5

\* A place is a rank.
LEMMA PlaceIsRank ==
  ASSUME NEW S, IsFiniteSet(S), NEW L, OrdersStrictly(S, L), NEW q, IsSorted(S, L, q),
         NEW i \in 1 .. Cardinality(S)
  PROVE  q[i] \in S /\ Cardinality(Predecessors(S, L, q[i])) = i - 1
<1> DEFINE n == Cardinality(S)
           A == 1 .. i - 1
           B == Predecessors(S, L, q[i])
           f == [j \in A |-> q[j]]
<1>1. n \in Nat /\ i \in 1 .. n
  BY FS_CardinalityType
<1> HIDE DEF n
<1>2. /\ q \in [1 .. n -> S]
      /\ \A j, k \in 1 .. n : j < k => <<q[j], q[k]>> \in L
  BY DEF IsSorted, n
<1>3. \A j, k \in 1 .. n : q[j] = q[k] => j = k
  <2> SUFFICES ASSUME NEW j \in 1 .. n, NEW k \in 1 .. n, q[j] = q[k], j < k PROVE FALSE
    BY <1>1
  <2>1. <<q[j], q[k]>> \in L /\ q[k] \in S
    BY <1>2
  <2> QED BY <2>1 DEF OrdersStrictly
<1>4. \A y \in S : \E j \in 1 .. n : q[j] = y
  <2>1. q \in Injection(1 .. n, S)
    BY <1>2, <1>3, Fun_IsInj
  <2>2. IsFiniteSet(1 .. n) /\ Cardinality(1 .. n) = n
    BY <1>1, FS_Interval
  <2>3. q \in Surjection(1 .. n, S)
    BY <2>1, <2>2, FS_Injection DEF n
  <2> QED BY <2>3 DEF Surjection
<1>5. \A j \in A : j \in 1 .. n /\ j < i
  BY <1>1
<1>6. f \in [A -> B]
  <2> SUFFICES ASSUME NEW j \in A PROVE q[j] \in B
    OBVIOUS
  <2>1. q[j] \in S /\ <<q[j], q[i]>> \in L
    BY <1>1, <1>2, <1>5
  <2> QED BY <2>1 DEF Predecessors
<1>7. \A j, k \in A : f[j] = f[k] => j = k
  BY <1>3, <1>5
<1>8. \A y \in B : \E j \in A : f[j] = y
  <2> TAKE y \in B
  <2>1. y \in S /\ <<y, q[i]>> \in L /\ q[i] \in S
    BY <1>1, <1>2 DEF Predecessors
  <2>2. PICK j \in 1 .. n : q[j] = y
    BY <1>4, <2>1
  <2>3. j # i /\ ~ (i < j)
    BY <1>1, <1>2, <2>1, <2>2 DEF OrdersStrictly
  <2>4. j \in A
    BY <1>1, <2>3
  <2> QED BY <2>2, <2>4
<1> HIDE DEF f, A, B
<1>9. f \in Injection(A, B) /\ f \in Surjection(A, B)
  BY <1>6, <1>7, <1>8, Fun_IsInj, Fun_IsSurj
<1>10. IsFiniteSet(A) /\ Cardinality(A) = i - 1
  BY <1>1, FS_Interval DEF A
<1>11. IsFiniteSet(B)
  <2>1. B \subseteq S
    BY DEF B, Predecessors
  <2> QED BY <2>1, FS_Subset
<1>12. Cardinality(A) = Cardinality(B)
  BY <1>9, <1>11, FS_Injection
<1> QED BY <1>1, <1>2, <1>10, <1>12 DEF B

\* Who has a rank is the only one.
LEMMA RankIsOwn ==
  ASSUME NEW S, IsFiniteSet(S), NEW L, OrdersStrictly(S, L), NEW x \in S, NEW y \in S,
         Cardinality(Predecessors(S, L, x)) = Cardinality(Predecessors(S, L, y))
  PROVE  x = y
<1>1. Rank(S, L) \in Bijection(S, 0 .. Cardinality(S) - 1)
  BY RanksArePlaces
<1>2. Rank(S, L)[x] = Rank(S, L)[y]
  BY DEF Rank
<1> QED BY <1>1, <1>2, Fun_BijectionProperties

\* The list that Answers defines by ranks is the beginning of a sorted list.
LEMMA InOrderIsSorted ==
  ASSUME NEW S, IsFiniteSet(S), NEW L, OrdersStrictly(S, L), NEW q, IsSorted(S, L, q),
         NEW Before, SameOrder(S, L, Before), NEW limit \in Nat
  PROVE  InOrder(S, Before, limit) = Beginning(q, Shown(S, limit))
<1> DEFINE n == Cardinality(S)
           m == Shown(S, limit)
           e(i) == CHOOSE y \in S : Cardinality({d \in S : <<d, y>> \in Before}) = i - 1
<1>1. n \in Nat /\ m \in 0 .. n
  BY FS_CardinalityType DEF Shown, Cut
<1>2. ASSUME NEW i \in 1 .. m PROVE e(i) = q[i]
  <2>1. i \in 1 .. n
    BY <1>1
  <2>2. q[i] \in S /\ Cardinality(Predecessors(S, L, q[i])) = i - 1
    BY <2>1, PlaceIsRank
  <2>3. \A y \in S : {d \in S : <<d, y>> \in Before} = Predecessors(S, L, y)
    BY DEF Predecessors, SameOrder
  <2>4. e(i) \in S /\ Cardinality({d \in S : <<d, e(i)>> \in Before}) = i - 1
    BY <2>2, <2>3
  <2>5. Cardinality(Predecessors(S, L, e(i))) = i - 1
    BY <2>3, <2>4
  <2> HIDE DEF e
  <2> QED BY <2>2, <2>4, <2>5, RankIsOwn
<1>3. InOrder(S, Before, limit) = [i \in 1 .. m |-> e(i)]
  BY DEF InOrder, Shown, Cut
<1> HIDE DEF e, m
<1>4. [i \in 1 .. m |-> e(i)] = Beginning(q, m)
  BY <1>2 DEF Beginning
<1> QED BY <1>3, <1>4 DEF m

LEMMA LimitedList ==
  ASSUME NEW S, NEW n \in Nat, NEW q \in [1 .. n -> S], NEW limit \in Nat
  PROVE  /\ Limited(q, limit) = Beginning(q, Cut(n, limit))
         /\ Len(q) = n
         /\ Len(Limited(q, limit)) = Cut(n, limit)
<1>1. q \in Seq(S) /\ Len(q) = n
  OBVIOUS
<1>2. CASE limit = 0 \/ n <= limit
  <2>1. Limited(q, limit) = q
    BY <1>1, <1>2 DEF Limited
  <2>2. Cut(n, limit) = n
    BY <1>2 DEF Cut
  <2>3. q = Beginning(q, n)
    BY DEF Beginning
  <2> QED BY <1>1, <2>1, <2>2, <2>3
<1>3. CASE ~ (limit = 0 \/ n <= limit)
  <2>1. Limited(q, limit) = SubSeq(q, 1, limit)
    BY <1>1, <1>3 DEF Limited
  <2>2. Cut(n, limit) = limit
    BY <1>3 DEF Cut
  <2>3. SubSeq(q, 1, limit) = Beginning(q, limit) /\ Len(SubSeq(q, 1, limit)) = limit
    BY <1>1, <1>3 DEF Beginning
  <2> QED BY <1>1, <2>1, <2>2, <2>3
<1> QED BY <1>2, <1>3

\* rankedIDs and the limit, and the names of groups.
LEMMA ListIsTrue ==
  ASSUME NEW S, IsFiniteSet(S), NEW L, OrdersStrictly(S, L),
         NEW Before, SameOrder(S, L, Before), NEW limit \in Nat
  PROVE  /\ Limited(Sorted(S, L), limit) = InOrder(S, Before, limit)
         /\ Len(Sorted(S, L)) = Cardinality(S)
         /\ InOrder(S, Before, limit) \in [1 .. Shown(S, limit) -> S]
         /\ Len(Limited(Sorted(S, L), limit)) = Shown(S, limit)
<1> DEFINE n == Cardinality(S)
           q == Sorted(S, L)
<1>1. n \in Nat /\ Shown(S, limit) \in 0 .. n /\ n = Cardinality(S)
  BY FS_CardinalityType DEF Shown, Cut
<1>2. IsSorted(S, L, q)
  BY SortedIsSorted
<1>3. q \in [1 .. n -> S]
  BY <1>2 DEF IsSorted
<1> HIDE DEF n, q
<1>4. /\ Limited(q, limit) = Beginning(q, Shown(S, limit))
      /\ Len(q) = n /\ Len(Limited(q, limit)) = Shown(S, limit)
  <2>1. n \in Nat
    BY <1>1
  <2>2. /\ Limited(q, limit) = Beginning(q, Cut(n, limit))
        /\ Len(q) = n /\ Len(Limited(q, limit)) = Cut(n, limit)
    BY <2>1, <1>3, LimitedList
  <2>3. Shown(S, limit) = Cut(n, limit)
    BY DEF Shown, n
  <2> QED BY <2>2, <2>3
<1>5. InOrder(S, Before, limit) = Beginning(q, Shown(S, limit))
  BY <1>2, InOrderIsSorted
<1>6. Beginning(q, Shown(S, limit)) \in [1 .. Shown(S, limit) -> S]
  BY <1>1, <1>3 DEF Beginning
<1> QED BY <1>4, <1>5, <1>6 DEF n, q

LEMMA AscendingOrders ==
  ASSUME NEW S, S \subseteq Int
  PROVE  OrdersStrictly(S, Ascending(S)) /\ SameOrder(S, Ascending(S), Upward)
BY DEF OrdersStrictly, Ascending, Upward, SameOrder

LEMMA LargestFirstOrders ==
  ASSUME GraphIsSound, NEW S, S \subseteq Objects
  PROVE  /\ OrdersStrictly(S, LargestFirst(S))
         /\ SameOrder(S, LargestFirst(S), Larger)
<1>1. \A x \in S : x \in Objects /\ x \in Int /\ Size[x] \in Int
  BY DEF GraphIsSound
<1>2. \A x, y \in S : <<x, y>> \in LargestFirst(S)
                      <=> IF Size[x] # Size[y] THEN Size[x] > Size[y] ELSE x < y
  BY DEF LargestFirst
<1>3. \A x, y \in S : <<x, y>> \in Larger
                      <=> Size[x] > Size[y] \/ (Size[x] = Size[y] /\ x < y)
  BY <1>1 DEF Larger
<1>4. OrdersStrictly(S, LargestFirst(S))
  <2>1. \A x \in S : <<x, x>> \notin LargestFirst(S)
    BY <1>1, <1>2
  <2>2. \A x, y, z \in S : <<x, y>> \in LargestFirst(S) /\ <<y, z>> \in LargestFirst(S)
          => <<x, z>> \in LargestFirst(S)
    BY <1>1, <1>2
  <2>3. \A x, y \in S : x # y => <<x, y>> \in LargestFirst(S) \/ <<y, x>> \in LargestFirst(S)
    BY <1>1, <1>2
  <2> QED BY <2>1, <2>2, <2>3 DEF OrdersStrictly
<1>5. ASSUME NEW x \in S, NEW y \in S PROVE <<x, y>> \in Larger <=> <<x, y>> \in LargestFirst(S)
  <2>1. Size[x] \in Int /\ Size[y] \in Int
    BY <1>1
  <2>2. <<x, y>> \in LargestFirst(S) <=> IF Size[x] # Size[y] THEN Size[x] > Size[y] ELSE x < y
    BY <1>2
  <2>3. <<x, y>> \in Larger <=> Size[x] > Size[y] \/ (Size[x] = Size[y] /\ x < y)
    BY <1>3
  <2> QED BY <2>1, <2>2, <2>3
<1> QED BY <1>4, <1>5 DEF SameOrder

\* rankedIDs.
LEMMA RankedIsTrue ==
  ASSUME GraphIsSound, NEW S, S \subseteq Objects, NEW sort, NEW limit \in Nat
  PROVE  /\ Limited(RankedIDs(S, sort), limit)
            = InOrder(S, IF sort = "size" THEN Larger ELSE Upward, limit)
         /\ Len(RankedIDs(S, sort)) = Cardinality(S)
         /\ Limited(RankedIDs(S, sort), limit) \in [1 .. Shown(S, limit) -> S]
         /\ Len(Limited(RankedIDs(S, sort), limit)) = Shown(S, limit)
         /\ IsFiniteSet(S)
<1>1. IsFiniteSet(S) /\ S \subseteq Int
  BY FS_Subset DEF GraphIsSound
<1>2. CASE sort = "size"
  <2>1. OrdersStrictly(S, LargestFirst(S)) /\ SameOrder(S, LargestFirst(S), Larger)
    BY LargestFirstOrders
  <2>2. RankedIDs(S, sort) = Sorted(S, LargestFirst(S))
    BY <1>2 DEF RankedIDs
  <2>3. (IF sort = "size" THEN Larger ELSE Upward) = Larger
    BY <1>2
  <2> DEFINE M == LargestFirst(S)
  <2> HIDE DEF M
  <2>4. /\ Limited(Sorted(S, M), limit) = InOrder(S, Larger, limit)
        /\ Len(Sorted(S, M)) = Cardinality(S)
        /\ InOrder(S, Larger, limit) \in [1 .. Shown(S, limit) -> S]
        /\ Len(Limited(Sorted(S, M), limit)) = Shown(S, limit)
    <3>1. OrdersStrictly(S, M) /\ SameOrder(S, M, Larger)
      BY <2>1 DEF M
    <3> QED BY <1>1, <3>1, ListIsTrue
  <2> QED BY <1>1, <2>2, <2>3, <2>4 DEF M
<1>3. CASE sort # "size"
  <2>1. OrdersStrictly(S, Ascending(S)) /\ SameOrder(S, Ascending(S), Upward)
    BY <1>1, AscendingOrders
  <2>2. RankedIDs(S, sort) = Sorted(S, Ascending(S))
    BY <1>3 DEF RankedIDs
  <2>3. (IF sort = "size" THEN Larger ELSE Upward) = Upward
    BY <1>3
  <2> DEFINE M == Ascending(S)
  <2> HIDE DEF M
  <2>4. /\ Limited(Sorted(S, M), limit) = InOrder(S, Upward, limit)
        /\ Len(Sorted(S, M)) = Cardinality(S)
        /\ InOrder(S, Upward, limit) \in [1 .. Shown(S, limit) -> S]
        /\ Len(Limited(Sorted(S, M), limit)) = Shown(S, limit)
    <3>1. OrdersStrictly(S, M) /\ SameOrder(S, M, Upward)
      BY <2>1 DEF M
    <3> QED BY <1>1, <3>1, ListIsTrue
  <2> QED BY <1>1, <2>2, <2>3, <2>4 DEF M
<1> QED BY <1>2, <1>3

\* Shared (multibubble.go:260): the largest objects that both selections reach.
THEOREM SharedIsTrue ==
  ASSUME GraphIsSound, NEW a, NEW inc \in BOOLEAN, NEW k, k.limit \in Nat
  PROVE  SharedObjects(a, inc, k) = TrueShared(a, inc, k)
<1> DEFINE pair == ComparePair(a, inc, k.want, k.with)
           S == pair.shared
           ids == RankedIDs(S, "size")
<1>1. pair = TrueComparison(a, inc, k.want, k.with)
  BY ComparisonIsTrue
<1>2. S \subseteq Objects
  BY DEF ComparePair, Walk
<1> HIDE DEF pair, S
<1>3. /\ Limited(ids, k.limit) = InOrder(S, Larger, k.limit)
      /\ Len(ids) = Cardinality(S)
  BY <1>2, RankedIsTrue
<1> HIDE DEF ids
<1>4. SharedObjects(a, inc, k) = [pair |-> pair, objects |-> Limited(ids, k.limit),
                                  truncated |-> k.limit > 0 /\ Len(ids) > k.limit]
  BY DEF SharedObjects, pair, S, ids
<1>5. TrueShared(a, inc, k) = [pair |-> pair, objects |-> InOrder(S, Larger, k.limit),
                               truncated |-> k.limit # 0 /\ Cardinality(S) > k.limit]
  BY <1>1 DEF TrueShared, pair, S
<1>6. k.limit > 0 <=> k.limit # 0
  OBVIOUS
<1> QED BY <1>3, <1>4, <1>5, <1>6

-----------------------------------------------------------------------------
(* Sizes and their buckets *)

\* A function that is defined from each number to the next exists.
IsStep(n, V, base, step) == n \in Nat /\ base \in V /\ step \in [(1 .. n) \X V -> V]
IsRow(g, n, V, base, step) ==
  /\ g \in [0 .. n -> V] /\ g[0] = base
  /\ \A i \in 1 .. n : g[i] = step[<<i, g[i - 1]>>]

LEMMA RowExists ==
  ASSUME NEW n, NEW V, NEW base, NEW step, IsStep(n, V, base, step)
  PROVE  \E g : IsRow(g, n, V, base, step)
<1> USE DEF IsStep
<1> DEFINE Fits(g, k) == g[0] = base /\ \A i \in 1 .. k : g[i] = step[<<i, g[i - 1]>>]
           S == {k \in Nat : k <= n => \E g \in [0 .. n -> V] : Fits(g, k)}
<1>1. 0 \in S
  <2> DEFINE g == [i \in 0 .. n |-> base]
  <2>1. g \in [0 .. n -> V] /\ Fits(g, 0)
    OBVIOUS
  <2> HIDE DEF g
  <2> QED BY <2>1
<1>2. ASSUME NEW k \in Nat, k \in S PROVE k + 1 \in S
  <2> SUFFICES ASSUME k + 1 <= n PROVE \E g \in [0 .. n -> V] : Fits(g, k + 1)
    <3> HIDE DEF Fits
    <3> QED OBVIOUS
  <2>1. PICK g \in [0 .. n -> V] : Fits(g, k)
    BY <1>2
  <2> DEFINE h == [i \in 0 .. n |-> IF i = k + 1 THEN step[<<k + 1, g[k]>>] ELSE g[i]]
  <2>2. step[<<k + 1, g[k]>>] \in V
    <3>1. k + 1 \in 1 .. n /\ g[k] \in V
      BY <2>1
    <3> QED BY <3>1
  <2>3. h \in [0 .. n -> V] /\ h[0] = base
    BY <2>1, <2>2
  <2>4. ASSUME NEW i \in 1 .. k + 1 PROVE h[i] = step[<<i, h[i - 1]>>]
    <3>1. h[i - 1] = g[i - 1] /\ i \in 0 .. n
      BY <2>1
    <3>2. CASE i = k + 1
      <4>1. i - 1 = k
        BY <3>2
      <4>2. h[i] = step[<<k + 1, g[k]>>]
        BY <3>1, <3>2
      <4> QED BY <3>1, <3>2, <4>1, <4>2
    <3>3. CASE i # k + 1
      <4>1. i \in 1 .. k /\ h[i] = g[i]
        BY <3>1, <3>3
      <4> QED BY <2>1, <3>1, <4>1
    <3> QED BY <3>2, <3>3
  <2> HIDE DEF h
  <2> QED BY <2>3, <2>4
<1>3. n \in S
  <2> HIDE DEF S
  <2> QED BY <1>1, <1>2, SetInduction
<1>4. PICK g \in [0 .. n -> V] : Fits(g, n)
  BY <1>3
<1> QED BY <1>4 DEF IsRow

LEMMA PowersExist ==
  ASSUME SizeBits \in Nat
  PROVE  /\ \A k \in 0 .. SizeBits : PowerOf2[k] \in Nat
         /\ PowerOf2[0] = 1 /\ \A k \in 1 .. SizeBits : PowerOf2[k] = 2 * PowerOf2[k - 1]
<1> DEFINE n == SizeBits
           step == [x \in (1 .. n) \X Nat |-> 2 * x[2]]
           Is(f) == f = [k \in 0 .. n |-> IF k = 0 THEN 1 ELSE 2 * f[k - 1]]
<1>1. step \in [(1 .. n) \X Nat -> Nat]
  OBVIOUS
<1>2. \A i \in 1 .. n, x \in Nat : step[<<i, x>>] = 2 * x
  OBVIOUS
<1> HIDE DEF step
<1>3. PICK g \in [0 .. n -> Nat] : g[0] = 1 /\ \A i \in 1 .. n : g[i] = step[<<i, g[i - 1]>>]
  <2>1. IsStep(n, Nat, 1, step)
    BY <1>1 DEF IsStep
  <2>2. \E g : IsRow(g, n, Nat, 1, step)
    <3> HIDE DEF n
    <3> QED BY <2>1, RowExists
  <2> QED BY <2>2 DEF IsRow
<1>4. ASSUME NEW i \in 1 .. n PROVE g[i] = 2 * g[i - 1]
  <2>1. g[i - 1] \in Nat
    BY <1>3
  <2> QED BY <1>2, <1>3, <2>1
<1>5. Is(g)
  <2>1. g = [k \in 0 .. n |-> g[k]]
    BY <1>3
  <2>2. \A k \in 0 .. n : g[k] = IF k = 0 THEN 1 ELSE 2 * g[k - 1]
    BY <1>3, <1>4
  <2> QED BY <2>1, <2>2
<1>6. PowerOf2 = CHOOSE f : Is(f)
  BY DEF PowerOf2
<1> HIDE DEF Is
<1>7. Is(PowerOf2)
  BY <1>5, <1>6
<1>8. PowerOf2 = [k \in 0 .. n |-> IF k = 0 THEN 1 ELSE 2 * PowerOf2[k - 1]]
  BY <1>7 DEF Is
<1>9. PowerOf2[0] = 1 /\ \A k \in 1 .. n : PowerOf2[k] = 2 * PowerOf2[k - 1]
  BY <1>8
<1>10. \A k \in 0 .. n : PowerOf2[k] \in Nat
  <2> DEFINE S == {k \in Nat : k <= n => PowerOf2[k] \in Nat}
  <2>1. 0 \in S
    BY <1>9
  <2>2. ASSUME NEW k \in Nat, k \in S PROVE k + 1 \in S
    <3> SUFFICES ASSUME k + 1 <= n PROVE PowerOf2[k + 1] \in Nat
      OBVIOUS
    <3>1. k + 1 \in 1 .. n /\ PowerOf2[k] \in Nat
      BY <2>2
    <3>2. PowerOf2[k + 1] = 2 * PowerOf2[k]
      BY <1>9, <3>1
    <3> QED BY <3>1, <3>2
  <2> HIDE DEF S
  <2>3. Nat \subseteq S
    BY <2>1, <2>2, SetInduction
  <2> QED BY <2>3 DEF S
<1> QED BY <1>9, <1>10

LEMMA PowersGrow ==
  ASSUME SizeBits \in Nat, NEW i \in 0 .. SizeBits, NEW j \in 0 .. SizeBits, i < j
  PROVE  PowerOf2[i] < PowerOf2[j] /\ PowerOf2[i] >= 1
<1> DEFINE S == {d \in Nat : i + d <= SizeBits => PowerOf2[i] <= PowerOf2[i + d] /\ (d > 0 => PowerOf2[i] < PowerOf2[i + d])}
           T == {d \in Nat : d <= SizeBits => PowerOf2[d] >= 1}
<1>1. \A k \in 1 .. SizeBits : PowerOf2[k] = 2 * PowerOf2[k - 1]
  BY PowersExist
<1>2. \A k \in 0 .. SizeBits : PowerOf2[k] \in Nat
  BY PowersExist
<1>3. 0 \in T
  BY PowersExist
<1>4. ASSUME NEW d \in Nat, d \in T PROVE d + 1 \in T
  <2> SUFFICES ASSUME d + 1 <= SizeBits PROVE PowerOf2[d + 1] >= 1
    OBVIOUS
  <2>1. PowerOf2[d + 1] = 2 * PowerOf2[d] /\ PowerOf2[d] \in Nat /\ PowerOf2[d] >= 1
    BY <1>1, <1>2, <1>4
  <2> QED BY <2>1
<1> HIDE DEF T
<1>5. Nat \subseteq T
  BY <1>3, <1>4, SetInduction
<1>6. \A k \in 0 .. SizeBits : PowerOf2[k] >= 1
  BY <1>5 DEF T
<1>7. 0 \in S
  BY <1>2
<1>8. ASSUME NEW d \in Nat, d \in S PROVE d + 1 \in S
  <2> SUFFICES ASSUME i + (d + 1) <= SizeBits PROVE PowerOf2[i] < PowerOf2[i + (d + 1)]
    BY <1>2
  <2>1. PowerOf2[i + (d + 1)] = 2 * PowerOf2[i + d]
    BY <1>1
  <2>2. PowerOf2[i] <= PowerOf2[i + d] /\ PowerOf2[i] \in Nat /\ PowerOf2[i + d] \in Nat
        /\ PowerOf2[i + d] >= 1
    BY <1>2, <1>6, <1>8
  <2> QED BY <2>1, <2>2
<1> HIDE DEF S
<1>9. Nat \subseteq S
  BY <1>7, <1>8, SetInduction
<1>10. j - i \in S /\ i + (j - i) = j /\ j - i > 0
  BY <1>9
<1> QED BY <1>6, <1>10 DEF S

\* The sizes of k bits.
OfLength(n, k) == n < PowerOf2[k] /\ (k = 0 \/ PowerOf2[k - 1] <= n)

LEMMA LengthIsOne ==
  ASSUME SizeBits \in Nat, NEW n \in Nat, n < PowerOf2[SizeBits]
  PROVE  /\ Len64(n) \in 0 .. SizeBits
         /\ \A k \in 0 .. SizeBits : Len64(n) = k <=> OfLength(n, k)
<1> DEFINE S == {k \in Nat : k <= SizeBits /\ n < PowerOf2[k] => \E j \in 0 .. SizeBits : OfLength(n, j)}
<1>1. 0 \in S
  BY DEF OfLength
<1>2. ASSUME NEW k \in Nat, k \in S PROVE k + 1 \in S
  <2> SUFFICES ASSUME k + 1 <= SizeBits, n < PowerOf2[k + 1]
               PROVE  \E j \in 0 .. SizeBits : OfLength(n, j)
    OBVIOUS
  <2>1. PowerOf2[k] \in Nat
    BY PowersExist
  <2>2. CASE n < PowerOf2[k]
    BY <1>2, <2>2
  <2>3. CASE PowerOf2[k] <= n
    BY <2>3 DEF OfLength
  <2> QED BY <2>1, <2>2, <2>3
<1> HIDE DEF S
<1>3. Nat \subseteq S
  BY <1>1, <1>2, SetInduction
<1>4. PICK j \in 0 .. SizeBits : OfLength(n, j)
  BY <1>3 DEF S
<1>5. Len64(n) \in 0 .. SizeBits /\ OfLength(n, Len64(n))
  BY <1>4 DEF Len64, OfLength
<1>6. ASSUME NEW k \in 0 .. SizeBits, NEW l \in 0 .. SizeBits, OfLength(n, k), OfLength(n, l), k < l
      PROVE  FALSE
  <2>1. PowerOf2[k] \in Nat /\ PowerOf2[l - 1] \in Nat
    BY <1>6, PowersExist
  <2>2. PowerOf2[k] <= PowerOf2[l - 1]
    <3>1. CASE k = l - 1
      BY <2>1, <3>1
    <3>2. CASE k # l - 1
      <4>1. l - 1 \in 0 .. SizeBits /\ k < l - 1
        BY <1>6, <3>2
      <4>2. PowerOf2[k] < PowerOf2[l - 1]
        BY <4>1, PowersGrow
      <4> QED BY <2>1, <4>2
    <3> QED BY <3>1, <3>2
  <2>3. n < PowerOf2[k] /\ PowerOf2[l - 1] <= n
    BY <1>6 DEF OfLength
  <2> QED BY <2>1, <2>2, <2>3
<1>7. ASSUME NEW k \in 0 .. SizeBits, OfLength(n, k) PROVE Len64(n) = k
  <2>1. ~ (Len64(n) < k) /\ ~ (k < Len64(n))
    BY <1>5, <1>6, <1>7
  <2> QED BY <1>5, <2>1
<1> QED BY <1>5, <1>7

\* f takes S, ordered by L, to the whole of T, ordered by M.
Keeps(f, S, L, T, M) ==
  /\ f \in [S -> T] /\ \A y \in T : \E x \in S : f[x] = y
  /\ \A x, y \in S : <<x, y>> \in L => <<f[x], f[y]>> \in M

\* A map that keeps the order takes a sorted list to a sorted list.
LEMMA SortedImage ==
  ASSUME NEW S, IsFiniteSet(S), NEW L, OrdersStrictly(S, L), NEW q, IsSorted(S, L, q),
         NEW T, NEW M, OrdersStrictly(T, M), NEW f, Keeps(f, S, L, T, M)
  PROVE  /\ IsFiniteSet(T) /\ Cardinality(T) = Cardinality(S)
         /\ IsSorted(T, M, [i \in 1 .. Cardinality(S) |-> f[q[i]]])
<1> USE DEF Keeps
<1>1. \A x, y \in S : f[x] = f[y] => x = y
  <2> SUFFICES ASSUME NEW x \in S, NEW y \in S, f[x] = f[y], <<x, y>> \in L PROVE FALSE
    BY DEF OrdersStrictly
  <2>1. <<f[x], f[y]>> \in M /\ f[x] \in T
    OBVIOUS
  <2> QED BY <2>1 DEF OrdersStrictly
<1>2. f \in Injection(S, T) /\ f \in Surjection(S, T)
  BY <1>1, Fun_IsInj, Fun_IsSurj
<1>3. IsFiniteSet(T)
  BY <1>2, FS_Surjection
<1>4. Cardinality(T) = Cardinality(S)
  BY <1>2, <1>3, FS_Injection
<1> DEFINE n == Cardinality(S)
<1>5. n \in Nat
  BY FS_CardinalityType
<1>6. /\ q \in [1 .. n -> S]
      /\ \A i, j \in 1 .. n : i < j => <<q[i], q[j]>> \in L
  BY DEF IsSorted
<1> HIDE DEF n
<1> DEFINE p == [i \in 1 .. n |-> f[q[i]]]
<1>7. p \in [1 .. n -> T]
  BY <1>6
<1>8. ASSUME NEW i \in 1 .. n, NEW j \in 1 .. n, i < j PROVE <<p[i], p[j]>> \in M
  <2>1. <<q[i], q[j]>> \in L /\ q[i] \in S /\ q[j] \in S
    BY <1>6, <1>8
  <2> QED BY <2>1
<1> HIDE DEF p
<1>9. IsSorted(T, M, p)
  BY <1>4, <1>7, <1>8 DEF IsSorted, n
<1> QED BY <1>3, <1>4, <1>9 DEF n, p

\* A bucket of the distribution.
BucketOf(S, k) ==
  [min |-> IF k = 0 THEN 0 ELSE PowerOf2[k - 1], max |-> PowerOf2[k] - 1,
   objects |-> {o \in S : Len64(Size[o]) = k}]

SizesBetween(S, m) == {o \in S : m <= Size[o] /\ Size[o] <= IF m = 0 THEN 0 ELSE 2 * m - 1}
TrueBucket(S, m) ==
  [min |-> m, max |-> IF m = 0 THEN 0 ELSE 2 * m - 1, objects |-> SizesBetween(S, m)]
Minimum(k) == IF k = 0 THEN 0 ELSE PowerOf2[k - 1]

LEMMA BucketIsTrue ==
  ASSUME GraphIsSound, NEW S, S \subseteq Objects, NEW k \in 0 .. SizeBits
  PROVE  /\ BucketOf(S, k) = TrueBucket(S, Minimum(k))
         /\ BucketOf(S, k).min = Minimum(k) /\ Minimum(k) \in Nat
         /\ BucketOf(S, k).objects = {o \in S : Len64(Size[o]) = k}
<1>1. SizeBits \in Nat /\ \A o \in S : Size[o] \in Nat /\ Size[o] < PowerOf2[SizeBits]
  BY DEF GraphIsSound
<1>2. /\ \A j \in 0 .. SizeBits : PowerOf2[j] \in Nat
      /\ PowerOf2[0] = 1 /\ \A j \in 1 .. SizeBits : PowerOf2[j] = 2 * PowerOf2[j - 1]
  BY <1>1, PowersExist
<1>3. \A o \in S : Len64(Size[o]) = k <=> OfLength(Size[o], k)
  BY <1>1, LengthIsOne
<1>4. CASE k = 0
  <2>1. \A o \in S : OfLength(Size[o], 0) <=> Size[o] = 0
    BY <1>1, <1>2 DEF OfLength
  <2>2. SizesBetween(S, 0) = {o \in S : Len64(Size[o]) = 0}
    BY <1>1, <1>3, <1>4, <2>1 DEF SizesBetween
  <2> QED BY <1>2, <1>4, <2>2 DEF BucketOf, TrueBucket, Minimum
<1>5. CASE k # 0
  <2> DEFINE m == PowerOf2[k - 1]
  <2>1. k \in 1 .. SizeBits /\ k - 1 \in 0 .. SizeBits
    BY <1>1, <1>5
  <2>2. m \in Nat /\ PowerOf2[k] = 2 * m
    BY <1>2, <2>1
  <2>3. m # 0
    <3>1. k - 1 < k
      BY <2>1
    <3>2. m >= 1
      BY <1>1, <2>1, <3>1, PowersGrow
    <3> QED BY <3>2
  <2> HIDE DEF m
  <2>4. ASSUME NEW o \in S
        PROVE  Len64(Size[o]) = k <=> m <= Size[o] /\ Size[o] <= 2 * m - 1
    <3>1. OfLength(Size[o], k) <=> Size[o] < 2 * m /\ m <= Size[o]
      BY <1>5, <2>2 DEF OfLength, m
    <3>2. Size[o] \in Nat
      BY <1>1
    <3> QED BY <1>3, <2>2, <3>1, <3>2
  <2>5. SizesBetween(S, m) = {o \in S : Len64(Size[o]) = k}
    BY <2>3, <2>4 DEF SizesBetween
  <2> QED BY <1>5, <2>2, <2>3, <2>5 DEF BucketOf, TrueBucket, Minimum, m
<1> QED BY <1>4, <1>5

LEMMA MinimaGrow ==
  ASSUME GraphIsSound, NEW j \in 0 .. SizeBits, NEW k \in 0 .. SizeBits, j < k
  PROVE  Minimum(j) < Minimum(k)
<1>1. SizeBits \in Nat /\ k # 0 /\ k - 1 \in 0 .. SizeBits /\ k - 1 < k
  BY DEF GraphIsSound
<1>2. PowerOf2[k - 1] >= 1 /\ PowerOf2[k - 1] \in Nat
  BY <1>1, PowersGrow, PowersExist
<1>3. CASE j = 0
  BY <1>1, <1>2, <1>3 DEF Minimum
<1>4. CASE j # 0
  <2>1. j - 1 \in 0 .. SizeBits /\ j - 1 < k - 1
    BY <1>1, <1>4
  <2>2. PowerOf2[j - 1] < PowerOf2[k - 1]
    BY <1>1, <2>1, PowersGrow
  <2> QED BY <1>1, <1>4, <2>2 DEF Minimum
<1> QED BY <1>3, <1>4

\* distribution (objects.go:125): by the lengths of the sizes in binary, hence
\* a bucket for each range of sizes that occurs.
LEMMA DistributionIsTrue ==
  ASSUME GraphIsSound, NEW S, S \subseteq Objects
  PROVE  SizeDistribution(S) = TrueDistribution(S)
<1> DEFINE used == {Len64(Size[o]) : o \in S}
           L == Ascending(used)
           q == Sorted(used, L)
           Buckets == {TrueBucket(S, m) : m \in {0} \cup {PowerOf2[k] : k \in 0 .. SizeBits - 1}}
           M == {p \in Buckets \X Buckets : p[1].min < p[2].min}
           B == {b \in Buckets : b.objects # {}}
           f == [k \in used |-> BucketOf(S, k)]
<1>1. /\ SizeBits \in Nat /\ SizeBits # 0
      /\ \A o \in S : Size[o] \in Nat /\ Size[o] < PowerOf2[SizeBits]
  BY DEF GraphIsSound
<1>2. \A o \in S : Len64(Size[o]) \in 0 .. SizeBits
  BY <1>1, LengthIsOne
<1>3. used \subseteq 0 .. SizeBits
  BY <1>2
<1>4. IsFiniteSet(used) /\ used \subseteq Int
  <2>1. IsFiniteSet(0 .. SizeBits)
    BY <1>1, FS_Interval
  <2>2. used \subseteq Int
    BY <1>3
  <2> HIDE DEF used
  <2>3. IsFiniteSet(used)
    BY <1>3, <2>1, FS_Subset
  <2> QED BY <2>2, <2>3
<1>5. Buckets = {BucketOf(S, k) : k \in 0 .. SizeBits}
  <2>1. ASSUME NEW k \in 0 .. SizeBits PROVE BucketOf(S, k) \in Buckets
    <3>1. BucketOf(S, k) = TrueBucket(S, Minimum(k))
      BY BucketIsTrue
    <3>2. Minimum(k) \in {0} \cup {PowerOf2[j] : j \in 0 .. SizeBits - 1}
      <4>1. k # 0 => k - 1 \in 0 .. SizeBits - 1
        BY <1>1
      <4> QED BY <4>1 DEF Minimum
    <3> QED BY <3>1, <3>2
  <2>2. ASSUME NEW m \in {0} \cup {PowerOf2[k] : k \in 0 .. SizeBits - 1}
        PROVE  \E k \in 0 .. SizeBits : TrueBucket(S, m) = BucketOf(S, k)
    <3>1. CASE m = 0
      <4>1. 0 \in 0 .. SizeBits /\ Minimum(0) = m
        BY <1>1, <3>1 DEF Minimum
      <4> QED BY <4>1, BucketIsTrue
    <3>2. CASE m # 0
      <4>1. PICK k \in 0 .. SizeBits - 1 : m = PowerOf2[k]
        BY <2>2, <3>2
      <4>2. k + 1 \in 0 .. SizeBits /\ Minimum(k + 1) = m
        <5>1. k + 1 # 0 /\ (k + 1) - 1 = k
          BY <1>1
        <5> QED BY <1>1, <4>1, <5>1 DEF Minimum
      <4> QED BY <4>2, BucketIsTrue
    <3> QED BY <3>1, <3>2
  <2> HIDE DEF BucketOf, TrueBucket
  <2> QED BY <2>1, <2>2
<1>6. \A k \in 0 .. SizeBits : BucketOf(S, k).objects # {} <=> k \in used
  BY BucketIsTrue
<1>7. B = {BucketOf(S, k) : k \in used}
  <2> HIDE DEF BucketOf, TrueBucket, used
  <2> QED BY <1>3, <1>5, <1>6
<1>8. SizeDistribution(S) = [i \in DOMAIN q |-> BucketOf(S, q[i])]
  BY DEF SizeDistribution, BucketOf
<1>9. TrueDistribution(S) = InOrder(B, M, 0)
  BY DEF TrueDistribution, TrueBucket, SizesBetween
<1> HIDE DEF M, B, used
<1>10. OrdersStrictly(used, L) /\ IsSorted(used, L, q)
  BY <1>4, AscendingOrders, SortedIsSorted
<1>11. \A j, k \in used : BucketOf(S, j).min < BucketOf(S, k).min <=> j < k
  <2> SUFFICES ASSUME NEW j \in used, NEW k \in used
               PROVE  Minimum(j) < Minimum(k) <=> j < k
    <3> HIDE DEF BucketOf, Minimum, TrueBucket
    <3>1. \A i \in used : i \in 0 .. SizeBits
      BY <1>3
    <3>2. \A i \in used : BucketOf(S, i).min = Minimum(i)
      BY <3>1, BucketIsTrue
    <3> QED BY <3>2
  <2>1. Minimum(j) \in Nat /\ Minimum(k) \in Nat /\ j \in Int /\ k \in Int
    <3> HIDE DEF Minimum, BucketOf, TrueBucket
    <3>1. j \in 0 .. SizeBits /\ k \in 0 .. SizeBits
      BY <1>3
    <3>2. Minimum(j) \in Nat /\ Minimum(k) \in Nat
      BY <3>1, BucketIsTrue
    <3> QED BY <3>1, <3>2
  <2>2. j < k => Minimum(j) < Minimum(k)
    BY <1>3, MinimaGrow
  <2>3. k < j => Minimum(k) < Minimum(j)
    BY <1>3, MinimaGrow
  <2> QED BY <2>1, <2>2, <2>3
<1>12. \A j, k \in used : <<BucketOf(S, j), BucketOf(S, k)>> \in M <=> j < k
  <2>1. \A k \in used : BucketOf(S, k) \in Buckets
    BY <1>3, <1>5
  <2> HIDE DEF Buckets
  <2> QED BY <1>11, <2>1 DEF M
<1> HIDE DEF Buckets
<1>13. OrdersStrictly(B, M)
  <2>1. \A x \in B : \E k \in used : x = BucketOf(S, k)
    BY <1>7
  <2>2. \A k \in used : k \in Int
    BY <1>4
  <2>3. \A x \in B : <<x, x>> \notin M
    BY <1>12, <2>1, <2>2
  <2>4. ASSUME NEW x \in B, NEW y \in B, NEW z \in B, <<x, y>> \in M, <<y, z>> \in M
        PROVE  <<x, z>> \in M
    <3>1. PICK i \in used : x = BucketOf(S, i)
      BY <2>1
    <3>2. PICK j \in used : y = BucketOf(S, j)
      BY <2>1
    <3>3. PICK k \in used : z = BucketOf(S, k)
      BY <2>1
    <3>4. i < j /\ j < k
      BY <1>12, <2>4, <3>1, <3>2, <3>3
    <3> QED BY <1>12, <2>2, <3>1, <3>2, <3>3, <3>4
  <2>5. ASSUME NEW x \in B, NEW y \in B, x # y PROVE <<x, y>> \in M \/ <<y, x>> \in M
    <3>1. PICK i \in used : x = BucketOf(S, i)
      BY <2>1
    <3>2. PICK j \in used : y = BucketOf(S, j)
      BY <2>1
    <3>3. i < j \/ j < i
      BY <2>2, <2>5, <3>1, <3>2
    <3> QED BY <1>12, <3>1, <3>2, <3>3
  <2> QED BY <2>3, <2>4, <2>5 DEF OrdersStrictly
<1>14. f \in [used -> B] /\ \A y \in B : \E x \in used : f[x] = y
  BY <1>7
<1>15. \A x, y \in used : <<x, y>> \in L => <<f[x], f[y]>> \in M
  <2>1. \A x, y \in used : <<x, y>> \in L => x < y
    BY DEF Ascending
  <2> QED BY <1>12, <2>1
<1> DEFINE n == Cardinality(used)
           p == [i \in 1 .. n |-> f[q[i]]]
<1>16. n \in Nat
  BY <1>4, FS_CardinalityType
<1>17. IsFiniteSet(B) /\ Cardinality(B) = n /\ IsSorted(B, M, p)
  <2>1. Keeps(f, used, L, B, M)
    BY <1>14, <1>15 DEF Keeps
  <2> HIDE DEF f, L, q
  <2> QED BY <1>4, <1>10, <1>13, <2>1, SortedImage
<1>18. q \in [1 .. n -> used]
  BY <1>10 DEF IsSorted
<1>19. InOrder(B, M, 0) = Beginning(p, n)
  <2>1. SameOrder(B, M, M) /\ 0 \in Nat
    BY DEF SameOrder
  <2>2. InOrder(B, M, 0) = Beginning(p, Shown(B, 0))
    <3> HIDE DEF p
    <3> QED BY <1>13, <1>17, <2>1, InOrderIsSorted
  <2>3. Shown(B, 0) = n
    BY <1>17 DEF Shown, Cut
  <2> QED BY <2>2, <2>3
<1>20. Beginning(p, n) = [i \in DOMAIN q |-> BucketOf(S, q[i])]
  <2> HIDE DEF BucketOf, q
  <2> QED BY <1>18 DEF Beginning
<1> QED BY <1>8, <1>9, <1>19, <1>20

-----------------------------------------------------------------------------
(* What is said of an object *)

LEMMA GroupsAreTrue ==
  ASSUME NEW a, SoundSource(a), NEW inc \in BOOLEAN, NEW by, NEW o
  PROVE  /\ {v \in Values(a, inc, by) : o \in Walk(RootsOf(a, Group(a, inc, by, v)))}
            = TrueGroups(a, inc, by, o)
         /\ IsFiniteSet(TrueGroups(a, inc, by, o)) /\ TrueGroups(a, inc, by, o) \subseteq Int
<1>1. Values(a, inc, by) = TrueValues(a, inc, by)
  BY ValuesAreTrue
<1>2. \A v : Walk(RootsOf(a, Group(a, inc, by, v))) = ReachedBy(a, Chosen(a, inc, {<<by, v>>}))
  BY GroupIsChosen, OneWalkForAll
<1>3. {v \in Values(a, inc, by) : o \in Walk(RootsOf(a, Group(a, inc, by, v)))}
        = TrueGroups(a, inc, by, o)
  BY <1>1, <1>2 DEF TrueGroups
<1>4. IsFiniteSet(Values(a, inc, by)) /\ \A v \in Values(a, inc, by) : v \in Int
  BY ValuesAreFinite
<1>5. TrueGroups(a, inc, by, o) \subseteq Values(a, inc, by)
  BY <1>1 DEF TrueGroups
<1> QED BY <1>3, <1>4, <1>5, FS_Subset

\* memberships: the names in order up to a limit, the count of them all.
LEMMA MembershipsAreTrue ==
  ASSUME NEW a, SoundSource(a), NEW inc \in BOOLEAN, NEW by, NEW o, NEW limit \in Nat
  PROVE  /\ Limited(ReachingGroups(a, inc, by, o), limit)
            = InOrder(TrueGroups(a, inc, by, o), Upward, limit)
         /\ Len(ReachingGroups(a, inc, by, o)) = Cardinality(TrueGroups(a, inc, by, o))
         /\ IsSorted(TrueGroups(a, inc, by, o), Ascending(TrueGroups(a, inc, by, o)),
                     ReachingGroups(a, inc, by, o))
<1> DEFINE G == TrueGroups(a, inc, by, o)
           M == Ascending(G)
<1>1. ReachingGroups(a, inc, by, o) = Sorted(G, M)
  <2>1. {v \in Values(a, inc, by) : o \in Walk(RootsOf(a, Group(a, inc, by, v)))} = G
    BY GroupsAreTrue
  <2> HIDE DEF G
  <2> QED BY <2>1 DEF ReachingGroups
<1>2. IsFiniteSet(G) /\ G \subseteq Int
  BY GroupsAreTrue
<1> HIDE DEF G
<1>3. OrdersStrictly(G, M) /\ SameOrder(G, M, Upward)
  BY <1>2, AscendingOrders
<1> HIDE DEF M
<1>4. /\ Limited(Sorted(G, M), limit) = InOrder(G, Upward, limit)
      /\ Len(Sorted(G, M)) = Cardinality(G)
  BY <1>2, <1>3, ListIsTrue
<1>5. IsSorted(G, M, Sorted(G, M))
  BY <1>2, <1>3, SortedIsSorted
<1> QED BY <1>1, <1>4, <1>5 DEF G, M

\* objectInfo: whole walks of the other roots classify an object as its
\* definition does, root by root.
LEMMA InfoIsTrue ==
  ASSUME GraphIsSound, NEW a, SoundSource(a), NEW inc \in BOOLEAN, NEW want,
         NEW k, k.groupLimit \in Nat, NEW o \in Objects
  PROVE  ObjectInfo(a, inc, o, Surroundings(a, inc, want), k) = TrueInfo(a, inc, want, k, o)
<1> DEFINE S == Chosen(a, inc, want)
           G == TrueGroups(a, inc, k.by, o)
           list == ReachingGroups(a, inc, k.by, o)
           Outsider(H) == \E g \in H \ S : ReachesFrom(a, g, o)
           in == Surroundings(a, inc, want)
<1>1. /\ Limited(list, k.groupLimit) = InOrder(G, Upward, k.groupLimit)
      /\ Len(list) = Cardinality(G)
  BY MembershipsAreTrue
<1>2. Selected(a, inc, want) = S
  BY SelectedIsChosen
<1>3. a.system \subseteq a.goroutines
  BY DEF SoundSource
<1>4. /\ Walk(RootsOf(a, S)) = ReachedBy(a, S)
      /\ Walk(RootsOf(a, a.system \ S)) = ReachedBy(a, a.system \ S)
      /\ Walk(RootsOf(a, a.goroutines \ (S \cup a.system)))
         = ReachedBy(a, a.goroutines \ (S \cup a.system))
  BY OneWalkForAll
<1>5. /\ o \in in.reachable <=> o \in ReachedBy(a, S)
      /\ o \in in.global <=> GlobalReaches(a, o)
      /\ o \in in.system <=> Outsider(a.system)
      /\ o \in in.other <=> Outsider(a.goroutines \ a.system)
      /\ o \in in.outside <=> o \in in.global \/ o \in in.system \/ o \in in.other
  <2>1. in.reachable = ReachedBy(a, S) /\ in.global = Walk(a.globals)
        /\ in.system = ReachedBy(a, a.system \ S)
        /\ in.other = ReachedBy(a, a.goroutines \ (S \cup a.system))
        /\ in.outside = in.global \cup in.system \cup in.other
    BY <1>2, <1>4 DEF Surroundings
  <2>2. o \in Walk(a.globals) <=> GlobalReaches(a, o)
    BY GlobalWalk
  <2>3. o \in ReachedBy(a, a.system \ S) <=> Outsider(a.system)
    BY DEF ReachedBy
  <2>4. o \in ReachedBy(a, a.goroutines \ (S \cup a.system)) <=> Outsider(a.goroutines \ a.system)
    BY DEF ReachedBy
  <2> HIDE DEF in, Outsider, S
  <2> QED BY <2>1, <2>2, <2>3, <2>4
<1>6. Outsider(a.goroutines) <=> Outsider(a.system) \/ Outsider(a.goroutines \ a.system)
  BY <1>3
<1> HIDE DEF in, Outsider, S, G, list
<1>7. ObjectInfo(a, inc, o, in, k) =
        [object |-> o,
         class |-> IF o \notin in.reachable THEN "not_reachable_from_selection"
                   ELSE IF o \in in.outside THEN "shared" ELSE "exclusive",
         global |-> o \in in.global, system |-> o \in in.system, other |-> o \in in.other,
         groups |-> Limited(list, k.groupLimit), count |-> Len(list),
         truncated |-> Len(list) > k.groupLimit]
  BY DEF ObjectInfo, list
<1>8. TrueInfo(a, inc, want, k, o) =
        [object |-> o,
         class |-> IF o \notin ReachedBy(a, S) THEN "not_reachable_from_selection"
                   ELSE IF GlobalReaches(a, o) \/ Outsider(a.goroutines) THEN "shared"
                   ELSE "exclusive",
         global |-> GlobalReaches(a, o), system |-> Outsider(a.system),
         other |-> Outsider(a.goroutines \ a.system),
         groups |-> InOrder(G, Upward, k.groupLimit),
         count |-> Cardinality(G), truncated |-> Cardinality(G) > k.groupLimit]
  BY DEF TrueInfo, S, Outsider, G
<1>9. (o \in in.outside) <=> (GlobalReaches(a, o) \/ Outsider(a.goroutines))
  BY <1>5, <1>6
<1>10. ObjectInfo(a, inc, o, in, k) = TrueInfo(a, inc, want, k, o)
  <2>1. (IF o \notin in.reachable THEN "not_reachable_from_selection"
         ELSE IF o \in in.outside THEN "shared" ELSE "exclusive")
        = (IF o \notin ReachedBy(a, S) THEN "not_reachable_from_selection"
           ELSE IF GlobalReaches(a, o) \/ Outsider(a.goroutines) THEN "shared" ELSE "exclusive")
    BY <1>5, <1>9
  <2>2. /\ (o \in in.global) = GlobalReaches(a, o)
        /\ (o \in in.system) = Outsider(a.system)
        /\ (o \in in.other) = Outsider(a.goroutines \ a.system)
    <3>1. GlobalReaches(a, o) \in BOOLEAN /\ Outsider(a.system) \in BOOLEAN
          /\ Outsider(a.goroutines \ a.system) \in BOOLEAN
      BY DEF GlobalReaches, Outsider
    <3> QED BY <1>5, <3>1
  <2> DEFINE class == IF o \notin ReachedBy(a, S) THEN "not_reachable_from_selection"
                      ELSE IF GlobalReaches(a, o) \/ Outsider(a.goroutines) THEN "shared"
                      ELSE "exclusive"
  <2> HIDE DEF class
  <2>3. ObjectInfo(a, inc, o, in, k) =
          [object |-> o, class |-> class,
           global |-> GlobalReaches(a, o), system |-> Outsider(a.system),
           other |-> Outsider(a.goroutines \ a.system),
           groups |-> InOrder(G, Upward, k.groupLimit),
           count |-> Cardinality(G), truncated |-> Cardinality(G) > k.groupLimit]
    BY <1>1, <1>7, <2>1, <2>2, Zenon DEF class
  <2>4. TrueInfo(a, inc, want, k, o) =
          [object |-> o, class |-> class,
           global |-> GlobalReaches(a, o), system |-> Outsider(a.system),
           other |-> Outsider(a.goroutines \ a.system),
           groups |-> InOrder(G, Upward, k.groupLimit),
           count |-> Cardinality(G), truncated |-> Cardinality(G) > k.groupLimit]
    BY <1>8 DEF class
  <2> QED BY <2>3, <2>4
<1> QED BY <1>10 DEF in

\* A limited ranking with what is said of each object.
LEMMA RankingIsTrue ==
  ASSUME GraphIsSound, NEW a, SoundSource(a), NEW inc \in BOOLEAN, NEW sort,
         NEW k, k.groupLimit \in Nat, k.limit \in Nat, NEW S, S \subseteq Objects
  PROVE  Infos(a, inc, Limited(RankedIDs(S, sort), k.limit), Surroundings(a, inc, k.want), k)
         = TrueRanking(a, inc, k, S, sort)
<1> DEFINE limit == k.limit
           list == InOrder(S, IF sort = "size" THEN Larger ELSE Upward, limit)
           in == Surroundings(a, inc, k.want)
           n == Shown(S, limit)
<1>1. /\ Limited(RankedIDs(S, sort), limit) = list
      /\ Limited(RankedIDs(S, sort), limit) \in [1 .. n -> S]
  <2>1. limit \in Nat
    OBVIOUS
  <2> HIDE DEF limit
  <2> QED BY <2>1, RankedIsTrue
<1> HIDE DEF list, n
<1>2. \A i \in DOMAIN list : list[i] \in Objects
  BY <1>1
<1>3. \A i \in DOMAIN list : ObjectInfo(a, inc, list[i], in, k) = TrueInfo(a, inc, k.want, k, list[i])
  BY <1>2, InfoIsTrue
<1>4. Infos(a, inc, list, in, k) = [i \in DOMAIN list |-> ObjectInfo(a, inc, list[i], in, k)]
  BY DEF Infos
<1>5. TrueRanking(a, inc, k, S, sort) = [i \in DOMAIN list |-> TrueInfo(a, inc, k.want, k, list[i])]
  BY DEF TrueRanking, list
<1> HIDE DEF in
<1> QED BY <1>1, <1>3, <1>4, <1>5 DEF in

LEMMA CutIsTold ==
  ASSUME GraphIsSound, NEW S, S \subseteq Objects, NEW sort, NEW limit \in Nat
  PROVE  /\ Len(Limited(RankedIDs(S, sort), limit)) < Cardinality(S)
            <=> limit # 0 /\ Cardinality(S) > limit
         /\ Cardinality(S) \in Nat
<1>1. Len(Limited(RankedIDs(S, sort), limit)) = Shown(S, limit) /\ IsFiniteSet(S)
  BY RankedIsTrue
<1>2. Cardinality(S) \in Nat
  BY <1>1, FS_CardinalityType
<1> QED BY <1>1, <1>2 DEF Shown, Cut

\* Objects (objects.go:264): the sets, their distribution and the limited list.
THEOREM ListingIsTrue ==
  ASSUME GraphIsSound, NEW a, SoundSource(a), NEW inc \in BOOLEAN, NEW sort,
         NEW k, k.groupLimit \in Nat, k.limit \in Nat
  PROVE  /\ ObjectList(a, inc, Surroundings(a, inc, k.want), sort, k) = TrueListing(a, inc, k, sort)
         /\ Surroundings(a, inc, k.want).reachable \subseteq Objects
         /\ Surroundings(a, inc, k.want).reachable = TrueInspection(a, inc, k.want).reachable
         /\ (Surroundings(a, inc, k.want).reachable \cap Surroundings(a, inc, k.want).outside)
            = TrueInspection(a, inc, k.want).shared
         /\ (Surroundings(a, inc, k.want).reachable \ Surroundings(a, inc, k.want).outside)
            = TrueInspection(a, inc, k.want).exclusive
<1> DEFINE in == Surroundings(a, inc, k.want)
           sets == Inspect(a, inc, k.want)
           S == in.reachable
           ids == Limited(RankedIDs(S, sort), k.limit)
<1>1. sets = TrueInspection(a, inc, k.want)
  BY InspectionIsTrue DEF SoundSource
<1>2. /\ sets.reachable = S /\ sets.exclusive = S \ in.outside
      /\ sets.shared = S \cap in.outside /\ S \subseteq Objects
  BY DEF Inspect, Surroundings, Walk
<1> HIDE DEF sets, in
<1>3. SizeDistribution(S) = TrueDistribution(S)
  BY <1>2, DistributionIsTrue
<1>4. Infos(a, inc, ids, in, k) = TrueRanking(a, inc, k, S, sort)
  BY <1>2, RankingIsTrue DEF in
<1>5. Len(ids) < Cardinality(S) <=> k.limit # 0 /\ Cardinality(S) > k.limit
  BY <1>2, CutIsTold
<1>6. ObjectList(a, inc, in, sort, k) =
        [sets |-> sets, distribution |-> SizeDistribution(S),
         objects |-> Infos(a, inc, ids, in, k), truncated |-> Len(ids) < Cardinality(S)]
  BY DEF ObjectList, sets
<1>7. TrueListing(a, inc, k, sort) =
        [sets |-> sets, distribution |-> TrueDistribution(S),
         objects |-> TrueRanking(a, inc, k, S, sort),
         truncated |-> k.limit # 0 /\ Cardinality(S) > k.limit]
  BY <1>1, <1>2 DEF TrueListing
<1> HIDE DEF S, ids
<1>8. ObjectList(a, inc, in, sort, k) = TrueListing(a, inc, k, sort)
  BY <1>3, <1>4, <1>5, <1>6, <1>7
<1> QED BY <1>1, <1>2, <1>8 DEF in, S

-----------------------------------------------------------------------------
(* Shortest paths *)

\* A path of n objects from a root in R to o.
Chained(R, o, n) ==
  \E p \in [1 .. n -> Objects] : /\ p[1] \in R /\ p[n] = o
                                 /\ \A i \in 1 .. n - 1 : p[i + 1] \in Children[p[i]]

IsNear(R, f) ==
  f = [n \in 0 .. Cardinality(Objects) |->
         IF n = 0 THEN {}
         ELSE (R \cap Objects) \cup UNION {Children[p] \cap Objects : p \in f[n - 1]}]
Nearby(R) == CHOOSE f : IsNear(R, f)

LEMMA NearbyGrows ==
  ASSUME GraphIsSound, NEW R
  PROVE  /\ Cardinality(Objects) \in Nat
         /\ \A n \in 0 .. Cardinality(Objects) : Nearby(R)[n] \subseteq Objects
         /\ Nearby(R)[0] = {}
         /\ \A n \in 1 .. Cardinality(Objects) :
              Nearby(R)[n] = (R \cap Objects)
                             \cup UNION {Children[p] \cap Objects : p \in Nearby(R)[n - 1]}
<1> DEFINE N == Cardinality(Objects)
           V == SUBSET Objects
           More(X) == (R \cap Objects) \cup UNION {Children[p] \cap Objects : p \in X}
           step == [x \in (1 .. N) \X V |-> More(x[2])]
<1>1. N \in Nat
  BY FS_CardinalityType DEF GraphIsSound
<1>2. step \in [(1 .. N) \X V -> V]
  OBVIOUS
<1>3. \A i \in 1 .. N, X \in V : step[<<i, X>>] = More(X)
  OBVIOUS
<1> HIDE DEF N, V, step, More
<1>4. IsStep(N, V, {}, step)
  BY <1>1, <1>2 DEF IsStep, V
<1>5. PICK g : IsRow(g, N, V, {}, step)
  BY <1>4, RowExists
<1>6. /\ g \in [0 .. N -> V] /\ g[0] = {}
      /\ \A i \in 1 .. N : g[i] = More(g[i - 1])
  <2>1. g \in [0 .. N -> V] /\ g[0] = {} /\ \A i \in 1 .. N : g[i] = step[<<i, g[i - 1]>>]
    BY <1>5 DEF IsRow
  <2>2. \A i \in 1 .. N : g[i - 1] \in V
    BY <1>1, <2>1
  <2> QED BY <1>3, <2>1, <2>2
<1>7. g = [n \in 0 .. N |-> IF n = 0 THEN {} ELSE More(g[n - 1])]
  <2>1. g = [n \in 0 .. N |-> g[n]]
    BY <1>6
  <2>2. \A n \in 0 .. N : g[n] = IF n = 0 THEN {} ELSE More(g[n - 1])
    BY <1>1, <1>6
  <2> QED BY <2>1, <2>2
<1>8. IsNear(R, g)
  BY <1>7, Zenon DEF IsNear, N, More
<1> DEFINE f == Nearby(R)
<1>9. IsNear(R, f)
  BY <1>8, Zenon DEF Nearby
<1>10. f = [n \in 0 .. N |-> IF n = 0 THEN {} ELSE More(f[n - 1])]
  BY <1>9, Zenon DEF IsNear, N, More
<1> HIDE DEF f
<1>11. f[0] = {} /\ \A n \in 1 .. N : f[n] = More(f[n - 1])
  <2> DEFINE body(n) == IF n = 0 THEN {} ELSE More(f[n - 1])
  <2>1. f = [n \in 0 .. N |-> body(n)]
    BY <1>10
  <2>2. body(0) = {} /\ \A n \in 1 .. N : body(n) = More(f[n - 1])
    BY <1>1
  <2> HIDE DEF body
  <2>3. f[0] = body(0) /\ \A n \in 1 .. N : f[n] = body(n)
    BY <1>1, <2>1
  <2> QED BY <2>2, <2>3
<1>12. ASSUME NEW n \in 0 .. N PROVE f[n] \subseteq Objects
  <2>1. CASE n = 0
    BY <1>11, <2>1
  <2>2. CASE n # 0
    <3>1. f[n] = More(f[n - 1])
      BY <1>1, <1>11, <2>2
    <3> QED BY <3>1 DEF More
  <2> QED BY <2>1, <2>2
<1> QED BY <1>1, <1>11, <1>12 DEF f, N, More

\* The objects that a path of at most n objects leads to.
LEMMA NearbyIsChained ==
  ASSUME GraphIsSound, NEW R, NEW n \in 0 .. Cardinality(Objects), NEW o \in Objects
  PROVE  o \in Nearby(R)[n] <=> \E m \in 1 .. n : Chained(R, o, m)
<1> DEFINE N == Cardinality(Objects)
           f == Nearby(R)
           Right(j) == \A x \in Objects : x \in f[j] <=> \E m \in 1 .. j : Chained(R, x, m)
           S == {j \in Nat : j <= N => Right(j)}
<1>1. /\ N \in Nat /\ \A j \in 0 .. N : f[j] \subseteq Objects
      /\ f[0] = {}
      /\ \A j \in 1 .. N : f[j] = (R \cap Objects) \cup UNION {Children[p] \cap Objects : p \in f[j - 1]}
  BY NearbyGrows
<1> HIDE DEF f, N
<1>2. 0 \in S
  BY <1>1
<1>3. ASSUME NEW j \in Nat, j \in S PROVE j + 1 \in S
  <2> SUFFICES ASSUME j + 1 <= N PROVE Right(j + 1)
    <3> HIDE DEF Right
    <3> QED OBVIOUS
  <2>1. Right(j)
    <3> HIDE DEF Right
    <3> QED BY <1>1, <1>3
  <2>2. f[j + 1] = (R \cap Objects) \cup UNION {Children[p] \cap Objects : p \in f[j]}
    BY <1>1
  <2>3. f[j] \subseteq Objects
    BY <1>1
  <2> SUFFICES ASSUME NEW x \in Objects
               PROVE  x \in f[j + 1] <=> \E m \in 1 .. j + 1 : Chained(R, x, m)
    OBVIOUS
  <2>4. ASSUME x \in R PROVE Chained(R, x, 1)
    <3> DEFINE p == [i \in 1 .. 1 |-> x]
    <3>1. p \in [1 .. 1 -> Objects] /\ p[1] = x
      OBVIOUS
    <3> HIDE DEF p
    <3> QED BY <2>4, <3>1 DEF Chained
  <2>5. ASSUME NEW y \in f[j], x \in Children[y] PROVE \E m \in 1 .. j + 1 : Chained(R, x, m)
    <3>1. y \in Objects
      BY <2>3, <2>5
    <3>2. PICK m \in 1 .. j : Chained(R, y, m)
      BY <2>1, <2>5, <3>1
    <3>3. PICK p \in [1 .. m -> Objects] :
            p[1] \in R /\ p[m] = y /\ \A i \in 1 .. m - 1 : p[i + 1] \in Children[p[i]]
      BY <3>2 DEF Chained
    <3> DEFINE q == [i \in 1 .. m + 1 |-> IF i = m + 1 THEN x ELSE p[i]]
    <3>4. q \in [1 .. m + 1 -> Objects] /\ q[1] \in R /\ q[m + 1] = x
      BY <3>3
    <3>5. ASSUME NEW i \in 1 .. (m + 1) - 1 PROVE q[i + 1] \in Children[q[i]]
      <4>1. CASE i = m
        <5>1. q[i + 1] = x /\ q[i] = y
          BY <3>3, <4>1
        <5> QED BY <2>5, <5>1
      <4>2. CASE i # m
        <5>1. i \in 1 .. m - 1 /\ q[i + 1] = p[i + 1] /\ q[i] = p[i]
          BY <3>3, <4>2
        <5> QED BY <3>3, <5>1
      <4> QED BY <4>1, <4>2
    <3> HIDE DEF q
    <3>6. Chained(R, x, m + 1)
      BY <3>4, <3>5 DEF Chained
    <3> QED BY <3>6
  <2>6. ASSUME NEW m \in 1 .. j + 1, Chained(R, x, m) PROVE x \in f[j + 1]
    <3>1. PICK p \in [1 .. m -> Objects] :
            p[1] \in R /\ p[m] = x /\ \A i \in 1 .. m - 1 : p[i + 1] \in Children[p[i]]
      BY <2>6 DEF Chained
    <3>2. CASE m = 1
      BY <2>2, <3>1, <3>2
    <3>3. CASE m # 1
      <4> DEFINE y == p[m - 1]
                 q == [i \in 1 .. m - 1 |-> p[i]]
      <4>1. m - 1 \in 1 .. j /\ y \in Objects /\ x \in Children[y]
        <5>1. m - 1 \in 1 .. m - 1 /\ (m - 1) + 1 = m
          BY <3>3
        <5> QED BY <3>1, <3>3, <5>1
      <4>2. q \in [1 .. m - 1 -> Objects] /\ q[1] \in R /\ q[m - 1] = y
        BY <3>1, <3>3
      <4>3. \A i \in 1 .. (m - 1) - 1 : q[i + 1] \in Children[q[i]]
        BY <3>1
      <4> HIDE DEF q
      <4>4. Chained(R, y, m - 1)
        BY <4>2, <4>3 DEF Chained
      <4>5. y \in f[j]
        BY <2>1, <4>1, <4>4
      <4> QED BY <2>2, <4>1, <4>5
    <3> QED BY <3>2, <3>3
  <2>7. x \in f[j + 1] => \E m \in 1 .. j + 1 : Chained(R, x, m)
    <3> SUFFICES ASSUME x \in f[j + 1] PROVE \E m \in 1 .. j + 1 : Chained(R, x, m)
      OBVIOUS
    <3>1. CASE x \in R
      BY <2>4, <3>1
    <3>2. CASE x \notin R
      BY <2>2, <2>5, <3>2
    <3> QED BY <3>1, <3>2
  <2> QED BY <2>6, <2>7
<1>4. n \in S /\ n <= N
  <2> HIDE DEF S
  <2>1. n \in Nat /\ n <= N
    BY <1>1 DEF N
  <2> QED BY <1>2, <1>3, <2>1, SetInduction
<1> QED BY <1>4 DEF f

\* Who is reached at all is reached in as many steps as there are objects.
LEMMA NearbyIsWalk ==
  ASSUME GraphIsSound, NEW R
  PROVE  Nearby(R)[Cardinality(Objects)] = Walk(R)
<1> DEFINE N == Cardinality(Objects)
           f == Nearby(R)
           Whole(X) == R \cap Objects \subseteq X /\ X \in ClosedSets
           S == {j \in Nat : j <= N => f[j] \subseteq Walk(R) /\ (Whole(f[j]) \/ Cardinality(f[j]) >= j)}
<1>1. /\ N \in Nat /\ \A j \in 0 .. N : f[j] \subseteq Objects
      /\ f[0] = {}
      /\ \A j \in 1 .. N : f[j] = (R \cap Objects) \cup UNION {Children[p] \cap Objects : p \in f[j - 1]}
  BY NearbyGrows
<1>2. \A j \in 0 .. N : \A x \in Objects : x \in f[j] <=> \E m \in 1 .. j : Chained(R, x, m)
  BY NearbyIsChained
<1>3. IsFiniteSet(Objects)
  BY DEF GraphIsSound
<1> HIDE DEF f
<1>4. \A j \in 0 .. N : IsFiniteSet(f[j]) /\ Cardinality(f[j]) \in Nat
  <2> HIDE DEF N
  <2> QED BY <1>1, <1>3, FS_Subset, FS_CardinalityType
<1> HIDE DEF N
<1>5. 0 \in S
  <2>1. Cardinality(f[0]) \in Nat
    BY <1>1, <1>4
  <2> QED BY <1>1, <2>1
<1>6. ASSUME NEW j \in Nat, j \in S PROVE j + 1 \in S
  <2> SUFFICES ASSUME j + 1 <= N
               PROVE  f[j + 1] \subseteq Walk(R) /\ (Whole(f[j + 1]) \/ Cardinality(f[j + 1]) >= j + 1)
    <3> HIDE DEF Whole
    <3> QED OBVIOUS
  <2>0. j \in 0 .. N /\ j + 1 \in 0 .. N /\ j + 1 \in 1 .. N /\ (j + 1) - 1 = j
    BY <1>1
  <2>1. f[j] \subseteq Walk(R) /\ (Whole(f[j]) \/ Cardinality(f[j]) >= j)
    <3> HIDE DEF Whole
    <3> QED BY <1>6, <2>0
  <2>2. f[j + 1] = (R \cap Objects) \cup UNION {Children[p] \cap Objects : p \in f[j]}
    BY <1>1, <2>0
  <2>3. f[j] \subseteq f[j + 1]
    <3>1. \A m \in 1 .. j : m \in 1 .. j + 1
      OBVIOUS
    <3>2. f[j] \subseteq Objects
      BY <1>1, <2>0
    <3> QED BY <1>2, <2>0, <3>1, <3>2
  <2>4. f[j + 1] \subseteq Walk(R)
    <3>1. R \cap Objects \subseteq Walk(R) /\ Walk(R) \in ClosedSets
      BY WalkContainsRoots, WalkClosed
    <3> QED BY <2>1, <2>2, <3>1 DEF ClosedSets
  <2>5. CASE f[j + 1] = f[j]
    <3>1. Whole(f[j + 1])
      <4>1. f[j + 1] \subseteq Objects
        BY <1>1, <2>0
      <4> QED BY <2>2, <2>5, <4>1 DEF ClosedSets
    <3> QED BY <2>4, <3>1
  <2>6. CASE f[j + 1] # f[j]
    <3>1. ~ Whole(f[j])
      BY <2>2, <2>3, <2>6 DEF ClosedSets
    <3>2. Cardinality(f[j]) >= j
      BY <2>1, <3>1
    <3>3. IsFiniteSet(f[j + 1]) /\ Cardinality(f[j]) \in Nat /\ Cardinality(f[j + 1]) \in Nat
      BY <1>4, <2>0
    <3>4. Cardinality(f[j]) <= Cardinality(f[j + 1]) /\ Cardinality(f[j]) # Cardinality(f[j + 1])
      BY <2>3, <2>6, <3>3, FS_Subset
    <3>5. Cardinality(f[j + 1]) >= j + 1
      BY <3>2, <3>3, <3>4
    <3> QED BY <2>4, <3>5
  <2> QED BY <2>5, <2>6
<1>7. N \in S
  <2> HIDE DEF S
  <2> QED BY <1>1, <1>5, <1>6, SetInduction
<1>8. f[N] \subseteq Walk(R) /\ (Whole(f[N]) \/ Cardinality(f[N]) >= N)
  <2> HIDE DEF Whole
  <2> QED BY <1>1, <1>7
<1>9. Walk(R) \subseteq f[N]
  <2>1. CASE Whole(f[N])
    BY <2>1, WalkLeast
  <2>2. CASE Cardinality(f[N]) >= N
    <3>1. f[N] \subseteq Objects /\ Cardinality(f[N]) \in Nat
      BY <1>1, <1>4
    <3>2. Cardinality(f[N]) <= N
      BY <1>3, <3>1, FS_Subset DEF N
    <3>3. Cardinality(f[N]) = N
      BY <1>1, <2>2, <3>1, <3>2
    <3>4. f[N] = Objects
      BY <1>3, <3>1, <3>3, FS_Subset DEF N
    <3> QED BY <3>4 DEF Walk
  <2> QED BY <1>8, <2>1, <2>2
<1> QED BY <1>8, <1>9 DEF f, N

LEMMA LeastExists ==
  ASSUME NEW S, S \subseteq Nat, NEW m \in S
  PROVE  \E n \in S : \A j \in S : n <= j
<1> DEFINE T == {k \in Nat : (\E j \in S : j <= k) => \E n \in S : \A j \in S : n <= j}
<1>1. 0 \in T
  OBVIOUS
<1>2. ASSUME NEW k \in Nat, k \in T PROVE k + 1 \in T
  <2> SUFFICES ASSUME NEW i \in S, i <= k + 1 PROVE \E n \in S : \A j \in S : n <= j
    OBVIOUS
  <2>1. CASE \E j \in S : j <= k
    BY <1>2, <2>1
  <2>2. CASE \A j \in S : ~ (j <= k)
    <3>1. \A j \in S : i <= j
      BY <2>2
    <3> QED BY <3>1
  <2> QED BY <2>1, <2>2
<1> HIDE DEF T
<1>3. m \in T
  BY <1>1, <1>2, SetInduction
<1>4. m \in Nat /\ m <= m
  OBVIOUS
<1> QED BY <1>3, <1>4 DEF T

\* FindPath (snapshotgraph/path.go:19), called without a limit by path
\* (explain.go:122), finds exactly the objects that the walk finds, each by a
\* path that none is shorter than.
THEOREM DistanceIsTrue ==
  ASSUME GraphIsSound, NEW R, NEW o \in Objects
  PROVE  /\ PathLength(R, o) = TrueDistance(R, o) /\ TrueDistance(R, o) \in Nat
         /\ TrueDistance(R, o) = 0 <=> o \notin Walk(R)
<1> DEFINE N == Cardinality(Objects)
           near == {n \in 1 .. N : o \in Nearby(R)[n]}
           lengths == {n \in 1 .. N : Chained(R, o, n)}
           a == CHOOSE n \in near : \A m \in near : n <= m
           b == CHOOSE n \in lengths : \A m \in lengths : n <= m
<1>1. N \in Nat
  BY NearbyGrows
<1>2. PathLength(R, o) = IF near = {} THEN 0 ELSE a
  BY DEF PathLength, Nearby, IsNear
<1>3. TrueDistance(R, o) = IF lengths = {} THEN 0 ELSE b
  BY DEF TrueDistance, Chained, Min
<1>4. \A n \in 0 .. N : o \in Nearby(R)[n] <=> \E m \in 1 .. n : Chained(R, o, m)
  BY NearbyIsChained
<1>5. Nearby(R)[N] = Walk(R)
  BY NearbyIsWalk
<1> HIDE DEF N
<1>6. lengths \subseteq near
  BY <1>1, <1>4
<1>7. \A n \in near : \E m \in lengths : m <= n
  BY <1>1, <1>4
<1>8. near \subseteq Nat /\ lengths \subseteq Nat \ {0}
  BY <1>1
<1>9. lengths = {} <=> o \notin Walk(R)
  <2>1. o \in Walk(R) <=> \E m \in 1 .. N : Chained(R, o, m)
    BY <1>1, <1>4, <1>5
  <2> QED BY <2>1
<1>10. CASE lengths = {}
  BY <1>2, <1>3, <1>7, <1>9, <1>10
<1>11. CASE lengths # {}
  <2> HIDE DEF near, lengths
  <2>1. \E n \in near : \A m \in near : n <= m
    BY <1>6, <1>8, <1>11, LeastExists
  <2>2. \E n \in lengths : \A m \in lengths : n <= m
    <3>1. lengths \subseteq Nat
      BY <1>8
    <3> QED BY <1>11, <3>1, LeastExists
  <2>3. a \in near /\ \A m \in near : a <= m
    BY <2>1
  <2>4. b \in lengths /\ \A m \in lengths : b <= m
    BY <2>2
  <2> HIDE DEF a, b
  <2>5. a = b
    <3>1. a <= b
      BY <1>6, <2>3, <2>4
    <3>2. PICK m \in lengths : m <= a
      BY <1>7, <2>3
    <3>3. b <= m
      BY <2>4, <3>2
    <3>4. a \in Nat /\ b \in Nat /\ m \in Nat
      BY <1>8, <2>3, <2>4, <3>2
    <3> QED BY <3>1, <3>2, <3>3, <3>4
  <2>6. near # {}
    BY <2>3
  <2> QED BY <1>2, <1>3, <1>8, <1>9, <1>11, <2>4, <2>5, <2>6
<1> QED BY <1>10, <1>11

-----------------------------------------------------------------------------
(* Explanations *)

Traces(s, o, k) == [i \in DOMAIN s |-> Path(s[i], o, k)]
IsOver(S, s) == s \in Seq(S)
PathsOver(S, o, k) == {Path(x, o, k) : x \in S}

TracedAs(category, name, R, o, k) ==
  LET n == TrueDistance(R, o)
  IN [category |-> category, name |-> name, status |-> "found", total |-> n,
      steps |-> Min({n, k.maxSteps}), truncated |-> n > k.maxSteps]

LEMMA MinOfPair ==
  ASSUME NEW m \in Int, NEW n \in Int
  PROVE  Min({m, n}) = IF m > n THEN n ELSE m
<1> DEFINE b == IF m > n THEN n ELSE m
           S == {m, n}
<1>1. b \in S /\ \A y \in S : b <= y
  OBVIOUS
<1>2. \A x \in S : (\A y \in S : x <= y) => x = b
  OBVIOUS
<1>3. Min(S) = CHOOSE x \in S : \A y \in S : x <= y
  BY DEF Min
<1> HIDE DEF b, S
<1>4. Min(S) \in S /\ \A y \in S : Min(S) <= y
  BY <1>1, <1>3
<1>5. Min(S) = b
  BY <1>2, <1>4
<1> QED BY <1>5 DEF b, S

LEMMA PathIsTrue ==
  ASSUME GraphIsSound, NEW R, NEW o \in Objects, o \in Walk(R), NEW k, k.maxSteps \in Nat,
         NEW category, NEW name
  PROVE  Path(PathSource(category, name, R), o, k) = TracedAs(category, name, R, o, k)
<1> DEFINE n == TrueDistance(R, o)
           src == PathSource(category, name, R)
           m == k.maxSteps
<1>1. PathLength(R, o) = n /\ n \in Nat /\ n # 0
  BY DistanceIsTrue
<1>2. src.category = category /\ src.name = name /\ src.roots = R
  BY DEF PathSource
<1>3. m \in Nat
  OBVIOUS
<1> HIDE DEF n, src, m
<1>4. Path(src, o, k) = [category |-> category, name |-> name,
          status |-> IF n = 0 THEN "not_reachable" ELSE "found", total |-> n,
          steps |-> IF n > m THEN m ELSE n, truncated |-> n > m]
  BY <1>1, <1>2, Zenon DEF Path, m
<1>5. TracedAs(category, name, R, o, k) =
        [category |-> category, name |-> name, status |-> "found", total |-> n,
         steps |-> Min({n, m}), truncated |-> n > m]
  BY DEF TracedAs, n, m
<1>6. Min({n, m}) = IF n > m THEN m ELSE n
  BY <1>1, <1>3, MinOfPair
<1>7. (IF n = 0 THEN "not_reachable" ELSE "found") = "found"
  BY <1>1
<1>8. Path(src, o, k) = TracedAs(category, name, R, o, k)
  BY <1>4, <1>5, <1>6, <1>7, Zenon
<1> QED BY <1>8 DEF src

\* Lists of sources and of their paths.
LEMMA TracesTogether ==
  ASSUME NEW S, NEW s, NEW t, IsOver(S, s), IsOver(S, t), NEW o, NEW k
  PROVE  /\ Traces(s \o t, o, k) = Traces(s, o, k) \o Traces(t, o, k)
         /\ IsOver(PathsOver(S, o, k), Traces(s, o, k))
         /\ Len(Traces(s, o, k)) = Len(s)
<1> DEFINE V == PathsOver(S, o, k)
<1>1. ASSUME NEW u \in Seq(S)
      PROVE  /\ Traces(u, o, k) \in Seq(V) /\ Len(Traces(u, o, k)) = Len(u)
             /\ \A i \in 1 .. Len(u) : Traces(u, o, k)[i] = Path(u[i], o, k)
  <2>1. Len(u) \in Nat /\ DOMAIN u = 1 .. Len(u) /\ \A i \in 1 .. Len(u) : u[i] \in S
    BY LenProperties
  <2>2. \A i \in 1 .. Len(u) : Path(u[i], o, k) \in V
    BY <2>1 DEF PathsOver
  <2> HIDE DEF V
  <2>3. Traces(u, o, k) = [i \in 1 .. Len(u) |-> Path(u[i], o, k)]
    BY <2>1 DEF Traces
  <2>4. Traces(u, o, k) \in [1 .. Len(u) -> V]
    BY <2>2, <2>3
  <2>5. Traces(u, o, k) \in Seq(V)
    BY <2>1, <2>4, IsASeq
  <2>6. DOMAIN Traces(u, o, k) = 1 .. Len(u)
    BY <2>3
  <2>7. Len(Traces(u, o, k)) = Len(u)
    BY <2>1, <2>5, <2>6, LenProperties
  <2> QED BY <2>3, <2>5, <2>7
<1>0. s \in Seq(S) /\ t \in Seq(S)
  BY DEF IsOver
<1> HIDE DEF V
<1>2. /\ s \o t \in Seq(S) /\ Len(s \o t) = Len(s) + Len(t)
      /\ \A i \in 1 .. Len(s) + Len(t) : (s \o t)[i] = IF i <= Len(s) THEN s[i] ELSE t[i - Len(s)]
  BY <1>0, ConcatProperties
<1>3. /\ Traces(s, o, k) \o Traces(t, o, k) \in Seq(V)
      /\ Len(Traces(s, o, k) \o Traces(t, o, k)) = Len(s) + Len(t)
      /\ \A i \in 1 .. Len(s) + Len(t) : (Traces(s, o, k) \o Traces(t, o, k))[i]
           = IF i <= Len(s) THEN Traces(s, o, k)[i] ELSE Traces(t, o, k)[i - Len(s)]
  <2>1. /\ Traces(s, o, k) \in Seq(V) /\ Traces(t, o, k) \in Seq(V)
        /\ Len(Traces(s, o, k)) = Len(s) /\ Len(Traces(t, o, k)) = Len(t)
    BY <1>0, <1>1
  <2> DEFINE x == Traces(s, o, k)
             y == Traces(t, o, k)
  <2>2. x \in Seq(V) /\ y \in Seq(V) /\ Len(x) = Len(s) /\ Len(y) = Len(t)
    BY <2>1
  <2> HIDE DEF x, y
  <2>3. /\ x \o y \in Seq(V) /\ Len(x \o y) = Len(x) + Len(y)
        /\ \A i \in 1 .. Len(x) + Len(y) :
             (x \o y)[i] = IF i <= Len(x) THEN x[i] ELSE y[i - Len(x)]
    BY <2>2, ConcatProperties
  <2>4. /\ x \o y \in Seq(V) /\ Len(x \o y) = Len(s) + Len(t)
        /\ \A i \in 1 .. Len(s) + Len(t) :
             (x \o y)[i] = IF i <= Len(s) THEN x[i] ELSE y[i - Len(s)]
    BY <2>2, <2>3, Zenon
  <2> QED BY <2>4 DEF x, y
<1>4. /\ Traces(s \o t, o, k) \in Seq(V) /\ Len(Traces(s \o t, o, k)) = Len(s) + Len(t)
      /\ \A i \in 1 .. Len(s) + Len(t) : Traces(s \o t, o, k)[i] = Path((s \o t)[i], o, k)
  BY <1>1, <1>2
<1>5. Len(s) \in Nat /\ Len(t) \in Nat
  BY <1>0, LenProperties
<1>6. ASSUME NEW i \in 1 .. Len(s) + Len(t)
      PROVE  Traces(s \o t, o, k)[i] = (Traces(s, o, k) \o Traces(t, o, k))[i]
  <2>1. CASE i <= Len(s)
    <3>1. i \in 1 .. Len(s)
      BY <1>5, <2>1
    <3>2. (s \o t)[i] = s[i] /\ (Traces(s, o, k) \o Traces(t, o, k))[i] = Traces(s, o, k)[i]
      BY <1>2, <1>3, <2>1
    <3>3. Traces(s, o, k)[i] = Path(s[i], o, k)
      BY <1>0, <1>1, <3>1
    <3> QED BY <1>4, <3>2, <3>3
  <2>2. CASE ~(i <= Len(s))
    <3>1. i - Len(s) \in 1 .. Len(t)
      BY <1>5, <2>2
    <3>2. /\ (s \o t)[i] = t[i - Len(s)]
          /\ (Traces(s, o, k) \o Traces(t, o, k))[i] = Traces(t, o, k)[i - Len(s)]
      BY <1>2, <1>3, <2>2
    <3>3. Traces(t, o, k)[i - Len(s)] = Path(t[i - Len(s)], o, k)
      BY <1>0, <1>1, <3>1
    <3> QED BY <1>4, <3>2, <3>3
  <2> QED BY <2>1, <2>2
<1>7. Traces(s \o t, o, k) = Traces(s, o, k) \o Traces(t, o, k)
  BY <1>3, <1>4, <1>6, SeqEqual
<1> QED BY <1>0, <1>1, <1>7 DEF V, IsOver

\* explainObject keeps the groups there is room for, counts the others, and
\* prints the first sources of them all.
Room(e, m) == m - Len(e)
KeptSources(e, g, m) == e \o (IF Room(e, m) > 0 THEN Limited(g, Room(e, m)) ELSE <<>>)
DroppedSources(e, g, m) ==
  IF Room(e, m) > 0 THEN Len(g) - Len(Limited(g, Room(e, m))) ELSE Len(g)

LEMMA KeptAndPrinted ==
  ASSUME NEW S, NEW e \in Seq(S), NEW g \in Seq(S), NEW m \in Nat \ {0}
  PROVE  /\ DroppedSources(e, g, m) + Len(KeptSources(e, g, m)) = Len(e \o g)
         /\ Limited(KeptSources(e, g, m), m) = Beginning(e \o g, Cut(Len(e \o g), m))
         /\ Len(Limited(KeptSources(e, g, m), m)) = Cut(Len(e \o g), m)
<1> DEFINE a == Len(e)
           b == Len(g)
           r == Room(e, m)
           kept == KeptSources(e, g, m)
           n == Len(e \o g)
<1>1. /\ a \in Nat /\ b \in Nat
      /\ e \in [1 .. a -> S] /\ g \in [1 .. b -> S]
  BY LenProperties
<1>2. /\ e \o g \in Seq(S) /\ n = a + b
      /\ \A i \in 1 .. a + b : (e \o g)[i] = IF i <= a THEN e[i] ELSE g[i - a]
  BY ConcatProperties
<1>3. r = m - a /\ r \in Int /\ n \in Nat /\ m \in Nat /\ m # 0
  BY <1>1, <1>2 DEF Room
<1> HIDE DEF r, n, a, b, kept
<1>4. e \o g \in [1 .. n -> S]
  BY <1>2, LenProperties DEF n
<1>5. CASE ~(r > 0)
  <2>1. kept = e
    BY <1>5, ConcatEmptySeq DEF KeptSources, r, kept
  <2>2. DroppedSources(e, g, m) = b
    BY <1>5 DEF DroppedSources, r, b
  <2>3. /\ Limited(e, m) = Beginning(e, Cut(a, m)) /\ Len(Limited(e, m)) = Cut(a, m)
    <3>1. a \in Nat /\ e \in [1 .. a -> S] /\ m \in Nat
      BY <1>1
    <3> QED BY <3>1, LimitedList, Zenon
  <2>4. Cut(a, m) = m /\ Cut(n, m) = m /\ m <= a
    BY <1>1, <1>2, <1>3, <1>5 DEF Cut
  <2>5. \A i \in 1 .. m : (e \o g)[i] = e[i]
    BY <1>1, <1>2, <2>4
  <2>6. Beginning(e \o g, m) = Beginning(e, m)
    BY <2>5 DEF Beginning
  <2>7. DroppedSources(e, g, m) + Len(kept) = n
    BY <1>1, <1>2, <2>1, <2>2
  <2> QED BY <2>1, <2>3, <2>4, <2>6, <2>7 DEF n, kept
<1>6. CASE r > 0
  <2> DEFINE c == Cut(b, r)
             h == Limited(g, r)
  <2>1. r \in Nat /\ r # 0
    BY <1>3, <1>6
  <2>2. h = Beginning(g, c) /\ Len(h) = c
    <3>1. b \in Nat /\ g \in [1 .. b -> S] /\ r \in Nat
      BY <1>1, <2>1
    <3> QED BY <3>1, LimitedList, Zenon
  <2>3. c \in 0 .. b /\ c <= r /\ c = (IF b < r THEN b ELSE r)
    BY <1>1, <2>1 DEF Cut
  <2> HIDE DEF h, c
  <2>4. h \in Seq(S)
    <3>1. h \in [1 .. c -> S]
      BY <1>1, <2>2, <2>3 DEF Beginning
    <3> QED BY <2>3, <3>1, IsASeq
  <2>5. kept = e \o h /\ DroppedSources(e, g, m) = b - c
    BY <1>6, <2>2 DEF KeptSources, DroppedSources, r, h, b, kept
  <2>6. /\ e \o h \in Seq(S) /\ Len(e \o h) = a + c
        /\ \A i \in 1 .. a + c : (e \o h)[i] = IF i <= a THEN e[i] ELSE h[i - a]
    BY <2>2, <2>4, ConcatProperties DEF a
  <2>7. a + c = Cut(n, m) /\ a + c \in Nat /\ a + c <= m
    BY <1>1, <1>2, <1>3, <2>3 DEF Cut
  <2>8. Cut(a + c, m) = a + c
    BY <2>7, <1>3 DEF Cut
  <2>9. e \o h \in [1 .. a + c -> S]
    BY <2>6, LenProperties
  <2>10. /\ Limited(e \o h, m) = Beginning(e \o h, a + c)
         /\ Len(Limited(e \o h, m)) = a + c
    <3> DEFINE l == a + c
    <3>1. l \in Nat /\ e \o h \in [1 .. l -> S]
      BY <2>7, <2>9
    <3>2. Cut(l, m) = l
      BY <2>8
    <3> HIDE DEF l
    <3>3. Limited(e \o h, m) = Beginning(e \o h, l) /\ Len(Limited(e \o h, m)) = l
      <4>1. m \in Nat
        OBVIOUS
      <4>2. /\ Limited(e \o h, m) = Beginning(e \o h, Cut(l, m))
            /\ Len(Limited(e \o h, m)) = Cut(l, m)
        BY <4>1, <3>1, LimitedList, Zenon
      <4> QED BY <4>2, <3>2
    <3> QED BY <3>3 DEF l
  <2>11. ASSUME NEW i \in 1 .. a + c PROVE (e \o h)[i] = (e \o g)[i]
    <3>1. i \in 1 .. a + b
      BY <1>1, <2>3
    <3>2. i > a => i - a \in 1 .. c
      <4>1. a \in Nat /\ c \in Nat
        BY <1>1, <2>3
      <4> QED BY <4>1
    <3>3. \A j \in 1 .. c : h[j] = g[j]
      BY <2>2 DEF Beginning
    <3> QED BY <1>1, <1>2, <2>6, <3>1, <3>2, <3>3
  <2>12. Beginning(e \o h, a + c) = Beginning(e \o g, a + c)
    BY <2>11 DEF Beginning
  <2>13. DroppedSources(e, g, m) + Len(kept) = n
    BY <1>1, <1>2, <2>3, <2>5, <2>6
  <2> QED BY <2>5, <2>7, <2>10, <2>12, <2>13 DEF n, kept
<1> QED BY <1>5, <1>6

AskedSource(a, inc, s) == PathSource("selection", s, RootsOf(a, Selected(a, inc, s)))
GroupSource(a, inc, by, v) == PathSource("group", {<<by, v>>}, RootsOf(a, Group(a, inc, by, v)))
KindSource(category, R, o) == IF o \in Walk(R) THEN <<PathSource(category, {}, R)>> ELSE <<>>

AskedPath(a, inc, s, o, k) == TracedAs("selection", s, RootsOf(a, Chosen(a, inc, s)), o, k)
GroupPath(a, inc, by, v, o, k) ==
  TracedAs("group", {<<by, v>>}, RootsOf(a, Chosen(a, inc, {<<by, v>>})), o, k)
KindPath(category, R, o, k) ==
  IF TrueDistance(R, o) = 0 THEN <<>> ELSE <<TracedAs(category, {}, R, o, k)>>

LEMMA JoinedLeftToRight ==
  ASSUME NEW S, NEW s, NEW t, NEW u, IsOver(S, s), IsOver(S, t), IsOver(S, u)
  PROVE  (s \o t) \o u = s \o (t \o u)
BY ConcatAssociative DEF IsOver

\* The members of a list are a set it is over.
Members(s) == {s[i] : i \in DOMAIN s}

LEMMA ListIsSeq ==
  ASSUME NEW n \in Nat, NEW s, DOMAIN s = 1 .. n, s = [i \in 1 .. n |-> s[i]]
  PROVE  s \in Seq(Members(s)) /\ Len(s) = n
<1>1. \A i \in 1 .. n : s[i] \in Members(s)
  BY DEF Members
<1> DEFINE V == Members(s)
<1> HIDE DEF V
<1>2. s \in [1 .. n -> V]
  BY <1>1 DEF V
<1>3. s \in Seq(V)
  BY <1>2
<1>4. Len(s) = n
  BY <1>2, <1>3, LenProperties
<1> QED BY <1>3, <1>4 DEF V

LEMMA KindIsTraced ==
  ASSUME GraphIsSound, NEW R, NEW o \in Objects, NEW k, k.maxSteps \in Nat, NEW category
  PROVE  /\ Traces(KindSource(category, R, o), o, k) = KindPath(category, R, o, k)
         /\ KindSource(category, R, o) \in Seq({PathSource(category, {}, R)})
<1> DEFINE p == PathSource(category, {}, R)
<1>1. TrueDistance(R, o) = 0 <=> o \notin Walk(R)
  BY DistanceIsTrue
<1>2. CASE o \in Walk(R)
  <2>1. KindSource(category, R, o) = <<p>>
    BY <1>2 DEF KindSource
  <2>2. KindPath(category, R, o, k) = <<TracedAs(category, {}, R, o, k)>>
    BY <1>1, <1>2 DEF KindPath
  <2>3. Path(p, o, k) = TracedAs(category, {}, R, o, k)
    BY <1>2, PathIsTrue
  <2> HIDE DEF p
  <2>4. Traces(<<p>>, o, k) = <<Path(p, o, k)>>
    BY DEF Traces
  <2> QED BY <2>1, <2>2, <2>3, <2>4 DEF p
<1>3. CASE o \notin Walk(R)
  <2>1. KindSource(category, R, o) = <<>> /\ KindPath(category, R, o, k) = <<>>
    BY <1>1, <1>3 DEF KindSource, KindPath
  <2>2. Traces(<<>>, o, k) = <<>>
    BY DEF Traces
  <2> QED BY <2>1, <2>2
<1> QED BY <1>2, <1>3

\* The groups that reach the object, in order of their names.
LEMMA GroupsAreTraced ==
  ASSUME GraphIsSound, NEW a, SoundSource(a), NEW inc \in BOOLEAN, NEW by, NEW o \in Objects,
         NEW k, k.maxSteps \in Nat,
         NEW values, values = ReachingGroups(a, inc, by, o),
         NEW named, named = InOrder(TrueGroups(a, inc, by, o), Upward, 0),
         NEW s, s = [i \in DOMAIN values |-> GroupSource(a, inc, by, values[i])]
  PROVE  /\ Traces(s, o, k) = [i \in DOMAIN named |-> GroupPath(a, inc, by, named[i], o, k)]
         /\ s \in Seq(Members(s))
<1> DEFINE G == TrueGroups(a, inc, by, o)
           n == Cardinality(G)
<1>1. Limited(values, 0) = named /\ IsSorted(G, Ascending(G), values)
  BY MembershipsAreTrue
<1>2. values = named
  BY <1>1 DEF Limited
<1>3. IsFiniteSet(G)
  BY GroupsAreTrue
<1>4. n \in Nat /\ values \in [1 .. n -> G]
  BY <1>1, <1>3, FS_CardinalityType DEF IsSorted
<1>5. ASSUME NEW i \in 1 .. n
      PROVE  Path(s[i], o, k) = GroupPath(a, inc, by, values[i], o, k)
  <2> DEFINE R == RootsOf(a, Chosen(a, inc, {<<by, values[i]>>}))
  <2>1. values[i] \in G
    BY <1>4
  <2>2. o \in ReachedBy(a, Chosen(a, inc, {<<by, values[i]>>}))
    BY <2>1 DEF TrueGroups
  <2>3. o \in Walk(R)
    BY <2>2, OneWalkForAll
  <2>4. s[i] = PathSource("group", {<<by, values[i]>>}, R)
    <3>1. s[i] = GroupSource(a, inc, by, values[i])
      BY <1>4
    <3>2. Group(a, inc, by, values[i]) = Chosen(a, inc, {<<by, values[i]>>})
      BY GroupIsChosen
    <3> QED BY <3>1, <3>2 DEF GroupSource
  <2> HIDE DEF R
  <2>5. Path(s[i], o, k) = TracedAs("group", {<<by, values[i]>>}, R, o, k)
    BY <2>3, <2>4, PathIsTrue
  <2> QED BY <2>5 DEF GroupPath, R
<1>6. DOMAIN values = 1 .. n
  BY <1>4
<1> HIDE DEF n
<1>7. DOMAIN s = 1 .. n /\ s = [i \in 1 .. n |-> s[i]]
  BY <1>6
<1>8. s \in Seq(Members(s))
  BY <1>4, <1>7, ListIsSeq
<1>9. Traces(s, o, k) = [i \in 1 .. n |-> GroupPath(a, inc, by, values[i], o, k)]
  BY <1>5, <1>7, Zenon DEF Traces
<1> QED BY <1>2, <1>6, <1>8, <1>9

IsList(s) == \E m \in Nat : DOMAIN s = 1 .. m
Answering(a, inc, selectors, o) ==
  {i \in DOMAIN selectors : o \in ReachedBy(a, Chosen(a, inc, selectors[i]))}
AskedSources(a, inc, selectors, order) ==
  [i \in DOMAIN order |-> AskedSource(a, inc, selectors[order[i]])]
AskedPaths(a, inc, selectors, first, o, k) ==
  [i \in DOMAIN first |-> AskedPath(a, inc, selectors[first[i]], o, k)]

\* The selections that reach the object, in the order they were asked for.
LEMMA AskedAreTraced ==
  ASSUME GraphIsSound, NEW a, SoundSource(a), NEW inc \in BOOLEAN, NEW o \in Objects,
         NEW k, k.maxSteps \in Nat, NEW selectors, IsList(selectors),
         NEW S, S = Answering(a, inc, selectors, o),
         NEW order, order = Sorted(S, Ascending(S)), NEW first, first = InOrder(S, Upward, 0)
  PROVE  /\ Traces(AskedSources(a, inc, selectors, order), o, k)
            = AskedPaths(a, inc, selectors, first, o, k)
         /\ AskedSources(a, inc, selectors, order)
            \in Seq(Members(AskedSources(a, inc, selectors, order)))
<1> DEFINE s == AskedSources(a, inc, selectors, order)
           M == Ascending(S)
           n == Cardinality(S)
<1>1. IsFiniteSet(S) /\ S \subseteq Int
  <2>0. PICK m \in Nat : DOMAIN selectors = 1 .. m
    BY DEF IsList
  <2>1. IsFiniteSet(1 .. m) /\ S \subseteq 1 .. m
    BY <2>0, FS_Interval DEF Answering
  <2> QED BY <2>1, FS_Subset
<1>2. OrdersStrictly(S, M) /\ SameOrder(S, M, Upward)
  BY <1>1, AscendingOrders
<1> HIDE DEF M
<1>3. Limited(order, 0) = first /\ IsSorted(S, M, order)
  <2>1. order = Sorted(S, M)
    BY DEF M
  <2>2. Limited(Sorted(S, M), 0) = InOrder(S, Upward, 0) /\ IsSorted(S, M, Sorted(S, M))
    BY <1>1, <1>2, ListIsTrue, SortedIsSorted
  <2> QED BY <2>1, <2>2
<1>4. order = first
  BY <1>3 DEF Limited
<1>5. n \in Nat /\ order \in [1 .. n -> S]
  BY <1>1, <1>3, FS_CardinalityType DEF IsSorted
<1>6. s = [i \in DOMAIN order |-> AskedSource(a, inc, selectors[order[i]])]
  BY DEF AskedSources
<1> HIDE DEF n, s
<1>7. ASSUME NEW i \in 1 .. n
      PROVE  Path(s[i], o, k) = AskedPath(a, inc, selectors[order[i]], o, k)
  <2> DEFINE e == selectors[order[i]]
             R == RootsOf(a, Chosen(a, inc, e))
  <2>1. order[i] \in S
    BY <1>5
  <2>2. o \in ReachedBy(a, Chosen(a, inc, e))
    BY <2>1 DEF Answering
  <2>3. o \in Walk(R)
    BY <2>2, OneWalkForAll
  <2>4. s[i] = PathSource("selection", e, R)
    <3>1. s[i] = AskedSource(a, inc, e)
      BY <1>5, <1>6
    <3>2. Selected(a, inc, e) = Chosen(a, inc, e)
      BY SelectedIsChosen
    <3> QED BY <3>1, <3>2 DEF AskedSource
  <2> HIDE DEF R, e
  <2>5. Path(s[i], o, k) = TracedAs("selection", e, R, o, k)
    BY <2>3, <2>4, PathIsTrue
  <2> QED BY <2>5 DEF AskedPath, R, e
<1>8. DOMAIN s = 1 .. n /\ s = [i \in 1 .. n |-> s[i]]
  BY <1>5, <1>6
<1>9. s \in Seq(Members(s))
  BY <1>5, <1>8, ListIsSeq
<1>10. Traces(s, o, k) = [i \in 1 .. n |-> AskedPath(a, inc, selectors[order[i]], o, k)]
  BY <1>7, <1>8, Zenon DEF Traces
<1> QED BY <1>4, <1>5, <1>9, <1>10 DEF AskedPaths, s

\* explainObject (explain.go:176): every source that reaches the object is
\* counted, and the paths of the first of them are the shortest there are.
THEOREM ExplanationIsTrue ==
  ASSUME GraphIsSound, NEW a, SoundSource(a), NEW inc \in BOOLEAN, NEW o \in Objects,
         NEW k, PathLimits(k),
         NEW selectors, IsList(selectors)
  PROVE  ExplainObject(a, inc, o, selectors, Surroundings(a, inc, selectors[1]), k)
         = TrueExplanation(a, inc, k, o, selectors)
<1> DEFINE in == Surroundings(a, inc, selectors[1])
           info == ObjectInfo(a, inc, o, in, k)
           others == a.goroutines \ in.goroutines
           asked == [i \in DOMAIN selectors |->
                       PathSource("selection", selectors[i],
                                  RootsOf(a, Selected(a, inc, selectors[i])))]
           reaching == {i \in DOMAIN asked : o \in Walk(asked[i].roots)}
           order == Sorted(reaching, Ascending(reaching))
           explicit == [i \in DOMAIN order |-> asked[order[i]]]
           kindG == IF info.global THEN <<PathSource("global", {}, a.globals)>> ELSE <<>>
           kindS == IF info.system
                    THEN <<PathSource("other_system", {}, RootsOf(a, others \cap a.system))>>
                    ELSE <<>>
           kindO == IF info.other
                    THEN <<PathSource("other_goroutines", {}, RootsOf(a, others \ a.system))>>
                    ELSE <<>>
           kinds == kindG \o kindS \o kindO
           values == ReachingGroups(a, inc, k.by, o)
           groups == [i \in DOMAIN values |->
                        PathSource("group", {<<k.by, values[i]>>},
                                   RootsOf(a, Group(a, inc, k.by, values[i])))]
           room == k.maxPaths - Len(explicit \o kinds)
           kept == explicit \o kinds \o (IF room > 0 THEN Limited(groups, room) ELSE <<>>)
           dropped == IF room > 0 THEN Len(groups) - Len(Limited(groups, room)) ELSE Len(groups)
           printed == Limited(kept, k.maxPaths)
           told == [i \in DOMAIN selectors |->
                      [goroutines |-> Cardinality(Selected(a, inc, selectors[i])),
                       reachable |-> o \in Walk(asked[i].roots)]]
<1>1. ExplainObject(a, inc, o, selectors, in, k) =
        [info |-> info, selections |-> told, sources |-> dropped + Len(kept),
         paths |-> [i \in DOMAIN printed |-> Path(printed[i], o, k)],
         truncated |-> dropped + Len(kept) > Len(printed)]
  <2> HIDE DEF in
  <2> QED BY DEF ExplainObject
<1> DEFINE S == Chosen(a, inc, selectors[1])
           wanted == [i \in DOMAIN selectors |-> Chosen(a, inc, selectors[i])]
           meant == {i \in DOMAIN selectors : o \in ReachedBy(a, wanted[i])}
           first == InOrder(meant, Upward, 0)
           named == InOrder(TrueGroups(a, inc, k.by, o), Upward, 0)
           pathsA == [i \in DOMAIN first |->
                        AskedPath(a, inc, selectors[first[i]], o, k)]
           pathG == KindPath("global", a.globals, o, k)
           pathS == KindPath("other_system", RootsOf(a, a.system \ S), o, k)
           pathO == KindPath("other_goroutines", RootsOf(a, a.goroutines \ (S \cup a.system)), o, k)
           pathsV == [i \in DOMAIN named |-> GroupPath(a, inc, k.by, named[i], o, k)]
           askedPaths == [i \in DOMAIN first |->
                            TracedAs("selection", selectors[first[i]],
                                     RootsOf(a, wanted[first[i]]), o, k)]
           all == pathsA \o pathG \o pathS \o pathO \o pathsV
           said == [i \in DOMAIN selectors |->
                      [goroutines |-> Cardinality(wanted[i]), reachable |-> i \in meant]]
<1>0. PICK m \in Nat : DOMAIN selectors = 1 .. m
  BY DEF IsList
<1> k.groupLimit \in Nat /\ k.maxPaths \in Nat \ {0} /\ k.maxSteps \in Nat
  BY DEF PathLimits
<1>2. TrueExplanation(a, inc, k, o, selectors) =
        [info |-> TrueInfo(a, inc, selectors[1], k, o), selections |-> said,
         sources |-> Len(all), paths |-> SubSeq(all, 1, Min({k.maxPaths, Len(all)})),
         truncated |-> Len(all) > k.maxPaths]
  <2> DEFINE every == askedPaths \o pathG \o pathS \o pathO \o pathsV
  <2>1. TrueExplanation(a, inc, k, o, selectors) =
          [info |-> TrueInfo(a, inc, selectors[1], k, o), selections |-> said,
           sources |-> Len(every), paths |-> SubSeq(every, 1, Min({k.maxPaths, Len(every)})),
           truncated |-> Len(every) > k.maxPaths]
    BY DEF TrueExplanation, TracedAs, KindPath, GroupPath
  <2>2. IsFiniteSet(meant) /\ meant \subseteq Int
    <3>1. IsFiniteSet(1 .. m) /\ meant \subseteq 1 .. m
      BY <1>0, FS_Interval
    <3>2. 1 .. m \subseteq Int
      OBVIOUS
    <3> HIDE DEF meant
    <3> QED BY <3>1, <3>2, FS_Subset
  <2>3. \A i \in DOMAIN first : first[i] \in DOMAIN selectors
    <3> DEFINE L == Ascending(meant)
    <3>1. meant \subseteq DOMAIN selectors
      OBVIOUS
    <3> HIDE DEF meant
    <3>2. OrdersStrictly(meant, L) /\ SameOrder(meant, L, Upward)
      BY <2>2, AscendingOrders
    <3> HIDE DEF L
    <3>3. first \in [1 .. Shown(meant, 0) -> meant]
      BY <2>2, <3>2, ListIsTrue
    <3> HIDE DEF first
    <3> QED BY <3>1, <3>3
  <2> HIDE DEF first
  <2>4. \A i \in DOMAIN first : wanted[first[i]] = Chosen(a, inc, selectors[first[i]])
    BY <2>3
  <2> HIDE DEF wanted
  <2>5. askedPaths = pathsA
    BY <2>4, Zenon DEF AskedPath
  <2> HIDE DEF askedPaths, pathsA, pathG, pathS, pathO, pathsV, said
  <2> QED BY <2>1, <2>5
<1>3. Selected(a, inc, selectors[1]) = S /\ in.goroutines = S
  BY SelectedIsChosen DEF Surroundings
<1>4. a.system \subseteq a.goroutines
  BY DEF SoundSource
<1>5. /\ others \cap a.system = a.system \ S
      /\ others \ a.system = a.goroutines \ (S \cup a.system)
  BY <1>3, <1>4
<1>6. /\ in.global = Walk(a.globals)
      /\ in.system = Walk(RootsOf(a, a.system \ S))
      /\ in.other = Walk(RootsOf(a, a.goroutines \ (S \cup a.system)))
  BY <1>3 DEF Surroundings
<1>7. /\ info.global <=> o \in in.global
      /\ info.system <=> o \in in.system
      /\ info.other <=> o \in in.other
  <2> HIDE DEF in
  <2> QED BY DEF ObjectInfo
<1> DEFINE sourceG == KindSource("global", a.globals, o)
           sourceS == KindSource("other_system", RootsOf(a, a.system \ S), o)
           sourceO == KindSource("other_goroutines", RootsOf(a, a.goroutines \ (S \cup a.system)), o)
<1>8. kindG = sourceG /\ kindS = sourceS /\ kindO = sourceO
  <2> HIDE DEF in, info, S, others
  <2>1. kindG = sourceG
    BY <1>6, <1>7 DEF KindSource
  <2>2. kindS = sourceS
    BY <1>5, <1>6, <1>7 DEF KindSource
  <2>3. kindO = sourceO
    BY <1>5, <1>6, <1>7 DEF KindSource
  <2> QED BY <2>1, <2>2, <2>3
<1>9. /\ Traces(sourceG, o, k) = pathG /\ Traces(sourceS, o, k) = pathS
      /\ Traces(sourceO, o, k) = pathO
  BY KindIsTraced
<1> DEFINE groupSources == [i \in DOMAIN values |-> GroupSource(a, inc, k.by, values[i])]
<1>10. groups = groupSources
  BY DEF GroupSource
<1>11. Traces(groups, o, k) = pathsV /\ groups \in Seq(Members(groups))
  <2> DEFINE by == k.by
             list == [i \in DOMAIN values |-> GroupSource(a, inc, by, values[i])]
  <2>1. values = ReachingGroups(a, inc, by, o) /\ named = InOrder(TrueGroups(a, inc, by, o), Upward, 0)
    OBVIOUS
  <2>2. groups = list
    BY <1>10
  <2>3. list = [i \in DOMAIN values |-> GroupSource(a, inc, by, values[i])]
    OBVIOUS
  <2> HIDE DEF values, named, by, list
  <2>4. /\ Traces(list, o, k) = [i \in DOMAIN named |-> GroupPath(a, inc, by, named[i], o, k)]
        /\ list \in Seq(Members(list))
    BY <2>1, <2>3, GroupsAreTraced
  <2> QED BY <2>2, <2>4 DEF by
<1>12. asked = [i \in DOMAIN selectors |-> AskedSource(a, inc, selectors[i])]
  BY DEF AskedSource
<1>13. reaching = meant
  <2>1. \A i \in DOMAIN selectors : o \in Walk(asked[i].roots) <=> o \in ReachedBy(a, Chosen(a, inc, selectors[i]))
    <3> TAKE i \in DOMAIN selectors
    <3>1. asked[i].roots = RootsOf(a, Selected(a, inc, selectors[i]))
      BY DEF PathSource
    <3>2. Selected(a, inc, selectors[i]) = Chosen(a, inc, selectors[i])
      BY SelectedIsChosen
    <3>3. Walk(RootsOf(a, Chosen(a, inc, selectors[i]))) = ReachedBy(a, Chosen(a, inc, selectors[i]))
      BY OneWalkForAll
    <3> QED BY <3>1, <3>2, <3>3
  <2>2. DOMAIN asked = DOMAIN selectors
    OBVIOUS
  <2>3. \A i \in DOMAIN selectors : wanted[i] = Chosen(a, inc, selectors[i])
    OBVIOUS
  <2> HIDE DEF asked, wanted
  <2> QED BY <2>1, <2>2, <2>3
<1>14. Traces(explicit, o, k) = pathsA /\ explicit \in Seq(Members(explicit))
  <2> DEFINE list == [i \in DOMAIN Sorted(meant, Ascending(meant)) |->
                        AskedSource(a, inc, selectors[Sorted(meant, Ascending(meant))[i]])]
  <2>1. meant = Answering(a, inc, selectors, o) /\ IsList(selectors)
    BY DEF Answering
  <2>2. list = [i \in DOMAIN Sorted(meant, Ascending(meant)) |->
                  AskedSource(a, inc, selectors[Sorted(meant, Ascending(meant))[i]])]
    OBVIOUS
  <2>3. explicit = list
    <3>1. order = Sorted(meant, Ascending(meant))
      BY <1>13
    <3>2. IsFiniteSet(meant) /\ meant \subseteq Int
      <4>1. IsFiniteSet(1 .. m) /\ meant \subseteq 1 .. m
        BY <1>0, FS_Interval
      <4>2. 1 .. m \subseteq Int
        OBVIOUS
      <4> HIDE DEF meant
      <4> QED BY <4>1, <4>2, FS_Subset
    <3>3. meant \subseteq DOMAIN selectors
      OBVIOUS
    <3> HIDE DEF meant
    <3>4. OrdersStrictly(meant, Ascending(meant))
      BY <3>2, AscendingOrders
    <3>5. Sorted(meant, Ascending(meant)) \in [1 .. Cardinality(meant) -> meant]
      BY <3>2, <3>4, SortedIsSorted DEF IsSorted
    <3> HIDE DEF order
    <3>6. \A i \in DOMAIN order : order[i] \in DOMAIN selectors
      BY <3>1, <3>3, <3>5
    <3>7. \A i \in DOMAIN order : asked[order[i]] = AskedSource(a, inc, selectors[order[i]])
      BY <1>12, <3>6
    <3> HIDE DEF asked
    <3> QED BY <3>1, <3>7
  <2> DEFINE row == Sorted(meant, Ascending(meant))
  <2>4. list = AskedSources(a, inc, selectors, row)
    BY DEF AskedSources
  <2>5. row = Sorted(meant, Ascending(meant)) /\ first = InOrder(meant, Upward, 0)
    OBVIOUS
  <2>6. pathsA = AskedPaths(a, inc, selectors, first, o, k)
    BY DEF AskedPaths
  <2> HIDE DEF meant, list, row, first, pathsA
  <2>7. /\ Traces(AskedSources(a, inc, selectors, row), o, k) = AskedPaths(a, inc, selectors, first, o, k)
        /\ AskedSources(a, inc, selectors, row) \in Seq(Members(AskedSources(a, inc, selectors, row)))
    BY <2>1, <2>5, AskedAreTraced
  <2> HIDE DEF explicit
  <2> QED BY <2>3, <2>4, <2>6, <2>7
<1>15. told = said
  <2>1. \A i \in DOMAIN selectors : Selected(a, inc, selectors[i]) = wanted[i]
    BY SelectedIsChosen
  <2>2. \A i \in DOMAIN selectors : (o \in Walk(asked[i].roots)) = (i \in meant)
    <3>1. \A i \in DOMAIN selectors : i \in reaching <=> o \in Walk(asked[i].roots)
      OBVIOUS
    <3> HIDE DEF reaching, meant, asked
    <3>2. \A i \in DOMAIN selectors : i \in meant <=> o \in Walk(asked[i].roots)
      BY <1>13, <3>1
    <3> QED BY <3>2
  <2> HIDE DEF wanted, meant, asked
  <2> QED BY <2>1, <2>2, Zenon
<1> DEFINE U == Members(explicit) \cup Members(groups) \cup
                ({PathSource("global", {}, a.globals)}
                 \cup {PathSource("other_system", {}, RootsOf(a, a.system \ S))}
                 \cup {PathSource("other_goroutines", {}, RootsOf(a, a.goroutines \ (S \cup a.system)))})
<1>16. /\ explicit \in Seq(U) /\ groups \in Seq(U)
       /\ kindG \in Seq(U) /\ kindS \in Seq(U) /\ kindO \in Seq(U)
  <2>1. /\ sourceG \in Seq({PathSource("global", {}, a.globals)})
        /\ sourceS \in Seq({PathSource("other_system", {}, RootsOf(a, a.system \ S))})
        /\ sourceO \in Seq({PathSource("other_goroutines", {}, RootsOf(a, a.goroutines \ (S \cup a.system)))})
    BY KindIsTraced
  <2>2. /\ {PathSource("global", {}, a.globals)} \subseteq U
        /\ {PathSource("other_system", {}, RootsOf(a, a.system \ S))} \subseteq U
        /\ {PathSource("other_goroutines", {}, RootsOf(a, a.goroutines \ (S \cup a.system)))} \subseteq U
        /\ Members(explicit) \subseteq U /\ Members(groups) \subseteq U
    <3> HIDE DEF explicit, groups, S
    <3> QED OBVIOUS
  <2> HIDE DEF U, explicit, groups, kindG, kindS, kindO, sourceG, sourceS, sourceO, S
  <2>3. explicit \in Seq(U) /\ groups \in Seq(U)
    BY <1>11, <1>14, <2>2, SeqMonotonic
  <2>4. sourceG \in Seq(U) /\ sourceS \in Seq(U) /\ sourceO \in Seq(U)
    BY <2>1, <2>2, SeqMonotonic
  <2> QED BY <1>8, <2>3, <2>4
<1> DEFINE e == explicit \o kinds
           mp == k.maxPaths
           V == PathsOver(U, o, k)
<1>17. kept = KeptSources(e, groups, mp) /\ dropped = DroppedSources(e, groups, mp)
  <2> HIDE DEF explicit, kinds, groups
  <2> QED BY DEF KeptSources, DroppedSources, Room
<1>18. Traces(kindG, o, k) = pathG /\ Traces(kindS, o, k) = pathS /\ Traces(kindO, o, k) = pathO
  <2> HIDE DEF kindG, kindS, kindO, sourceG, sourceS, sourceO
  <2> QED BY <1>8, <1>9
<1> HIDE DEF U, explicit, groups, kindG, kindS, kindO, pathsA, pathG, pathS, pathO, pathsV
<1>19. kindG \o kindS \in Seq(U) /\ kinds \in Seq(U) /\ e \in Seq(U) /\ e \o groups \in Seq(U)
  <2>1. kindG \o kindS \in Seq(U)
    BY <1>16, ConcatProperties
  <2>2. kinds \in Seq(U)
    BY <1>16, <2>1, ConcatProperties
  <2> HIDE DEF kinds
  <2>3. e \in Seq(U)
    BY <1>16, <2>2, ConcatProperties
  <2> HIDE DEF e
  <2>4. e \o groups \in Seq(U)
    BY <1>16, <2>3, ConcatProperties
  <2> QED BY <2>1, <2>2, <2>3, <2>4
<1>20. Traces(e \o groups, o, k) = (pathsA \o ((pathG \o pathS) \o pathO)) \o pathsV
       /\ Len(Traces(e \o groups, o, k)) = Len(e \o groups)
  <2>0. /\ IsOver(U, explicit) /\ IsOver(U, groups) /\ IsOver(U, kindG) /\ IsOver(U, kindS)
        /\ IsOver(U, kindO) /\ IsOver(U, kindG \o kindS) /\ IsOver(U, kinds) /\ IsOver(U, e)
        /\ IsOver(U, e \o groups)
    BY <1>16, <1>19 DEF IsOver
  <2>1. Traces(kindG \o kindS, o, k) = pathG \o pathS
    <3>1. Traces(kindG \o kindS, o, k) = Traces(kindG, o, k) \o Traces(kindS, o, k)
      <4>1. IsOver(U, kindG) /\ IsOver(U, kindS)
        BY <2>0
      <4> QED BY <4>1, TracesTogether
    <3> QED BY <1>18, <3>1
  <2>2. Traces(kinds, o, k) = (pathG \o pathS) \o pathO
    <3>1. Traces((kindG \o kindS) \o kindO, o, k) = Traces(kindG \o kindS, o, k) \o Traces(kindO, o, k)
      <4>1. IsOver(U, kindG \o kindS) /\ IsOver(U, kindO)
        BY <2>0
      <4> QED BY <4>1, TracesTogether
    <3> QED BY <1>18, <2>1, <3>1
  <2> HIDE DEF kinds
  <2>3. Traces(e, o, k) = pathsA \o ((pathG \o pathS) \o pathO)
    <3>1. Traces(explicit \o kinds, o, k) = Traces(explicit, o, k) \o Traces(kinds, o, k)
      <4>1. IsOver(U, explicit) /\ IsOver(U, kinds)
        BY <2>0
      <4> QED BY <4>1, TracesTogether
    <3> QED BY <1>14, <2>2, <3>1
  <2> HIDE DEF e
  <2>4. Traces(e \o groups, o, k) = (pathsA \o ((pathG \o pathS) \o pathO)) \o pathsV
    <3>1. Traces(e \o groups, o, k) = Traces(e, o, k) \o Traces(groups, o, k)
      <4>1. IsOver(U, e) /\ IsOver(U, groups)
        BY <2>0
      <4> QED BY <4>1, TracesTogether
    <3> QED BY <1>11, <2>3, <3>1
  <2>5. Len(Traces(e \o groups, o, k)) = Len(e \o groups)
    <3> DEFINE y == e \o groups
    <3>1. IsOver(U, y)
      BY <2>0
    <3> HIDE DEF y
    <3>2. Len(Traces(y, o, k)) = Len(y)
      BY <3>1, TracesTogether
    <3> QED BY <3>2 DEF y
  <2> QED BY <2>4, <2>5
<1>21. /\ pathsA \in Seq(V) /\ pathG \in Seq(V) /\ pathS \in Seq(V) /\ pathO \in Seq(V)
  <2>1. /\ Traces(explicit, o, k) \in Seq(V) /\ Traces(kindG, o, k) \in Seq(V)
        /\ Traces(kindS, o, k) \in Seq(V) /\ Traces(kindO, o, k) \in Seq(V)
    <3>1. IsOver(U, explicit) /\ IsOver(U, kindG) /\ IsOver(U, kindS) /\ IsOver(U, kindO)
      BY <1>16 DEF IsOver
    <3>2. /\ IsOver(PathsOver(U, o, k), Traces(explicit, o, k))
          /\ IsOver(PathsOver(U, o, k), Traces(kindG, o, k))
          /\ IsOver(PathsOver(U, o, k), Traces(kindS, o, k))
          /\ IsOver(PathsOver(U, o, k), Traces(kindO, o, k))
      BY <3>1, TracesTogether, Zenon
    <3> QED BY <3>2 DEF IsOver
  <2> QED BY <1>14, <1>18, <2>1
<1> HIDE DEF V
<1>22. pathsA \o ((pathG \o pathS) \o pathO) = ((pathsA \o pathG) \o pathS) \o pathO
  <2>1. pathG \o pathS \in Seq(V)
    BY <1>21, ConcatProperties
  <2>0. /\ IsOver(V, pathsA) /\ IsOver(V, pathG) /\ IsOver(V, pathS) /\ IsOver(V, pathO)
        /\ IsOver(V, pathG \o pathS)
    BY <1>21, <2>1 DEF IsOver
  <2>2. pathsA \o ((pathG \o pathS) \o pathO) = (pathsA \o (pathG \o pathS)) \o pathO
    <3> DEFINE both == pathG \o pathS
    <3>1. IsOver(V, pathsA) /\ IsOver(V, both) /\ IsOver(V, pathO)
      BY <2>0
    <3> HIDE DEF both
    <3>2. (pathsA \o both) \o pathO = pathsA \o (both \o pathO)
      BY <3>1, JoinedLeftToRight
    <3> QED BY <3>2 DEF both
  <2>3. pathsA \o (pathG \o pathS) = (pathsA \o pathG) \o pathS
    <3>1. (pathsA \o pathG) \o pathS = pathsA \o (pathG \o pathS)
      <4>1. IsOver(V, pathsA) /\ IsOver(V, pathG) /\ IsOver(V, pathS)
        BY <2>0
      <4> QED BY <4>1, JoinedLeftToRight
    <3> QED BY <3>1
  <2> QED BY <2>2, <2>3
<1>23. Traces(e \o groups, o, k) = all /\ Len(all) = Len(e \o groups)
  BY <1>20, <1>22
<1> HIDE DEF e, kinds
<1> DEFINE n == Len(e \o groups)
           c == Cut(n, mp)
           x == e \o groups
<1>24. /\ dropped + Len(kept) = n
       /\ printed = Beginning(x, c) /\ Len(printed) = c
  <2>1. e \in Seq(U) /\ groups \in Seq(U) /\ mp \in Nat \ {0}
    BY <1>16, <1>19
  <2> HIDE DEF kept, dropped, mp
  <2>2. /\ DroppedSources(e, groups, mp) + Len(KeptSources(e, groups, mp)) = Len(e \o groups)
        /\ Limited(KeptSources(e, groups, mp), mp) = Beginning(e \o groups, Cut(Len(e \o groups), mp))
        /\ Len(Limited(KeptSources(e, groups, mp), mp)) = Cut(Len(e \o groups), mp)
    BY <2>1, KeptAndPrinted, Zenon
  <2>3. printed = Limited(kept, mp)
    BY DEF mp
  <2> HIDE DEF printed
  <2> QED BY <1>17, <2>2, <2>3
<1> HIDE DEF all, x, kept, dropped, printed
<1>25. n \in Nat /\ mp \in Nat /\ mp # 0 /\ c \in 0 .. n /\ c = (IF mp > n THEN n ELSE mp)
       /\ x \in [1 .. n -> U] /\ x \in Seq(U)
  <2>1. n \in Nat /\ x \in [1 .. n -> U] /\ x \in Seq(U)
    BY <1>19, LenProperties DEF x
  <2>2. mp \in Nat /\ mp # 0
    OBVIOUS
  <2> HIDE DEF n, mp
  <2>3. c \in 0 .. n /\ c = (IF mp > n THEN n ELSE mp)
    BY <2>1, <2>2 DEF Cut
  <2> QED BY <2>1, <2>2, <2>3
<1>26. all = Traces(x, o, k) /\ Len(all) = n
  BY <1>23 DEF x
<1> HIDE DEF n, c, mp
<1>27. [i \in DOMAIN printed |-> Path(printed[i], o, k)] = SubSeq(all, 1, Min({mp, Len(all)}))
  <2>1. Min({mp, Len(all)}) = c
    <3>1. Min({mp, n}) = IF mp > n THEN n ELSE mp
      BY <1>25, MinOfPair
    <3> QED BY <1>25, <1>26, <3>1
  <2>2. all = [i \in 1 .. n |-> Path(x[i], o, k)]
    <3>1. DOMAIN x = 1 .. n
      BY <1>25
    <3> QED BY <1>26, <3>1 DEF Traces
  <2>3. SubSeq(all, 1, c) = [i \in 1 .. c |-> Path(x[i], o, k)]
    <3>1. all \in Seq(PathsOver(U, o, k))
      <4>1. IsOver(U, x)
        BY <1>25 DEF IsOver
      <4>2. IsOver(PathsOver(U, o, k), Traces(x, o, k))
        BY <4>1, TracesTogether, Zenon
      <4> QED BY <1>26, <4>2 DEF IsOver
    <3>2. SubSeq(all, 1, c) = [i \in 1 .. c |-> all[i]]
      BY <1>25, <1>26, <3>1
    <3>3. \A i \in 1 .. c : all[i] = Path(x[i], o, k)
      BY <1>25, <2>2
    <3> QED BY <3>2, <3>3
  <2>4. DOMAIN printed = 1 .. c /\ \A i \in 1 .. c : printed[i] = x[i]
    BY <1>24 DEF Beginning
  <2>5. [i \in DOMAIN printed |-> Path(printed[i], o, k)] = [i \in 1 .. c |-> Path(x[i], o, k)]
    BY <2>4
  <2> QED BY <2>1, <2>3, <2>5
<1>28. (dropped + Len(kept) > Len(printed)) = (Len(all) > mp)
  <2>1. dropped + Len(kept) = n /\ Len(printed) = c /\ Len(all) = n
    BY <1>24, <1>26
  <2>2. n > c <=> n > mp
    BY <1>25
  <2> QED BY <2>1, <2>2
<1>29. info = TrueInfo(a, inc, selectors[1], k, o)
  BY InfoIsTrue
<1> HIDE DEF info, told, said, in
<1>30. ExplainObject(a, inc, o, selectors, in, k) = TrueExplanation(a, inc, k, o, selectors)
  <2>1. TrueExplanation(a, inc, k, o, selectors) =
        [info |-> TrueInfo(a, inc, selectors[1], k, o), selections |-> said,
         sources |-> Len(all), paths |-> SubSeq(all, 1, Min({mp, Len(all)})),
         truncated |-> Len(all) > mp]
    BY <1>2 DEF mp
  <2>2. dropped + Len(kept) = Len(all)
    BY <1>24, <1>26
  <2> QED BY <1>1, <1>15, <1>27, <1>28, <1>29, <2>1, <2>2, Zenon
<1> QED BY <1>30 DEF in

-----------------------------------------------------------------------------
(* Representatives: the rows of three lists in turn *)

AreLists(lists, limit) ==
  limit \in Nat /\ \A c \in 1 .. 3 : \E n \in 0 .. limit : lists[c] \in [1 .. n -> Objects]

PlacesOf(lists, limit) == {q \in (1 .. limit) \X (1 .. 3) : q[1] \in DOMAIN lists[q[2]]}
CandidatesOf(lists, limit) == {lists[q[2]][q[1]] : q \in PlacesOf(lists, limit)}
NumbersOf(lists, limit, o) ==
  {3 * q[1] + q[2] : q \in {p \in PlacesOf(lists, limit) : lists[p[2]][p[1]] = o}}
PlaceOf(lists, limit, o) == Min(NumbersOf(lists, limit, o))
PlacedBefore(lists, limit) ==
  {p \in CandidatesOf(lists, limit) \X CandidatesOf(lists, limit) :
     PlaceOf(lists, limit, p[1]) < PlaceOf(lists, limit, p[2])}

\* A candidate stands at the number of a row and a list, its place, and at no
\* smaller number.
Stands(lists, limit, o, i, c) ==
  /\ i \in 1 .. limit /\ c \in 1 .. 3 /\ i \in DOMAIN lists[c] /\ lists[c][i] = o

LEMMA StandingIsPlace ==
  ASSUME NEW lists, NEW limit, NEW o, NEW i, NEW c
  PROVE  Stands(lists, limit, o, i, c)
         <=> <<i, c>> \in PlacesOf(lists, limit) /\ lists[c][i] = o
BY DEF Stands, PlacesOf

LEMMA FirstPlace ==
  ASSUME NEW lists, NEW limit, AreLists(lists, limit), NEW o \in CandidatesOf(lists, limit)
  PROVE  /\ PlaceOf(lists, limit, o) \in Nat
         /\ \E i, c : Stands(lists, limit, o, i, c) /\ PlaceOf(lists, limit, o) = 3 * i + c
         /\ \A i, c : Stands(lists, limit, o, i, c) => PlaceOf(lists, limit, o) <= 3 * i + c
<1> DEFINE P == PlacesOf(lists, limit)
           N == NumbersOf(lists, limit, o)
           b == PlaceOf(lists, limit, o)
<1>1. limit \in Nat
  BY DEF AreLists
<1>2. \A q \in P : q \in Nat \X (1 .. 3) /\ 3 * q[1] + q[2] \in Nat
  BY <1>1 DEF PlacesOf
<1>3. \A q \in P : q = <<q[1], q[2]>>
  BY DEF PlacesOf
<1> HIDE DEF P
<1>4. N \subseteq Nat
  BY <1>2 DEF NumbersOf, P
<1>5. \E x : x \in N
  <2>1. PICK q \in P : lists[q[2]][q[1]] = o
    BY DEF CandidatesOf, P
  <2>2. 3 * q[1] + q[2] \in N
    BY <2>1 DEF NumbersOf, P
  <2> QED BY <2>2
<1>6. \A q \in P : lists[q[2]][q[1]] = o => 3 * q[1] + q[2] \in N
  BY DEF NumbersOf, P
<1>7. \A x \in N : \E q \in P : lists[q[2]][q[1]] = o /\ x = 3 * q[1] + q[2]
  BY DEF NumbersOf, P
<1>8. b = CHOOSE x \in N : \A y \in N : x <= y
  BY DEF PlaceOf, Min
<1> HIDE DEF N, b
<1>9. \E x \in N : \A y \in N : x <= y
  BY <1>4, <1>5, LeastExists
<1>10. b \in N /\ \A y \in N : b <= y
  BY <1>8, <1>9
<1>11. \E i, c : Stands(lists, limit, o, i, c) /\ b = 3 * i + c
  <2>1. PICK q \in P : lists[q[2]][q[1]] = o /\ b = 3 * q[1] + q[2]
    BY <1>7, <1>10
  <2>2. <<q[1], q[2]>> \in PlacesOf(lists, limit)
    BY <1>3 DEF P
  <2>3. Stands(lists, limit, o, q[1], q[2])
    BY <2>1, <2>2, StandingIsPlace
  <2> QED BY <2>1, <2>3
<1>12. ASSUME NEW i, NEW c, Stands(lists, limit, o, i, c) PROVE b <= 3 * i + c
  <2>1. <<i, c>> \in P /\ lists[c][i] = o
    BY <1>12, StandingIsPlace DEF P
  <2>2. 3 * i + c \in N
    <3> DEFINE q == <<i, c>>
    <3>1. q[1] = i /\ q[2] = c
      OBVIOUS
    <3> HIDE DEF q
    <3>2. q \in P
      BY <2>1 DEF q
    <3> QED BY <1>6, <2>1, <3>1, <3>2
  <2> QED BY <1>10, <2>2
<1> QED BY <1>4, <1>10, <1>11, <1>12 DEF b

\* A number is of one row and one list.
LEMMA StandsAlone ==
  ASSUME NEW lists, NEW limit, limit \in Nat, NEW o, NEW p, NEW i, NEW c, NEW j, NEW d,
         Stands(lists, limit, o, i, c), Stands(lists, limit, p, j, d), 3 * i + c = 3 * j + d
  PROVE  o = p
<1>1. i \in Nat /\ j \in Nat /\ c \in 1 .. 3 /\ d \in 1 .. 3
  BY DEF Stands
<1>2. i = j /\ c = d
  BY <1>1
<1> QED BY <1>2 DEF Stands

LEMMA StandsIsCandidate ==
  ASSUME NEW lists, NEW limit, NEW o, NEW i, NEW c, Stands(lists, limit, o, i, c)
  PROVE  o \in CandidatesOf(lists, limit)
<1>1. <<i, c>> \in PlacesOf(lists, limit) /\ lists[c][i] = o
  BY StandingIsPlace
<1> DEFINE q == <<i, c>>
<1>2. q[1] = i /\ q[2] = c
  OBVIOUS
<1> HIDE DEF q
<1>3. q \in PlacesOf(lists, limit)
  BY <1>1 DEF q
<1> QED BY <1>1, <1>2, <1>3 DEF CandidatesOf

LEMMA CandidatesAreObjects ==
  ASSUME NEW lists, NEW limit, AreLists(lists, limit)
  PROVE  CandidatesOf(lists, limit) \subseteq Objects
<1> SUFFICES ASSUME NEW o \in CandidatesOf(lists, limit) PROVE o \in Objects
  OBVIOUS
<1>1. PICK i, c : Stands(lists, limit, o, i, c)
  BY FirstPlace
<1>2. c \in 1 .. 3 /\ i \in DOMAIN lists[c] /\ lists[c][i] = o
  BY <1>1 DEF Stands
<1>3. PICK n \in 0 .. limit : lists[c] \in [1 .. n -> Objects]
  BY <1>2 DEF AreLists
<1> QED BY <1>2, <1>3

LEMMA PlacesOrder ==
  ASSUME NEW lists, NEW limit, AreLists(lists, limit)
  PROVE  /\ OrdersStrictly(CandidatesOf(lists, limit), PlacedBefore(lists, limit))
         /\ \A o, p \in CandidatesOf(lists, limit) :
              <<o, p>> \in PlacedBefore(lists, limit)
              <=> PlaceOf(lists, limit, o) < PlaceOf(lists, limit, p)
         /\ \A o, p \in CandidatesOf(lists, limit) :
              PlaceOf(lists, limit, o) = PlaceOf(lists, limit, p) => o = p
<1> DEFINE C == CandidatesOf(lists, limit)
           B == PlacedBefore(lists, limit)
           place(o) == PlaceOf(lists, limit, o)
<1>1. \A o \in C : place(o) \in Nat
  BY FirstPlace
<1>2. \A o, p \in C : <<o, p>> \in B <=> place(o) < place(p)
  BY DEF PlacedBefore
<1>3. ASSUME NEW o \in C, NEW p \in C, place(o) = place(p) PROVE o = p
  <2>1. PICK i, c : Stands(lists, limit, o, i, c) /\ place(o) = 3 * i + c
    BY FirstPlace
  <2>2. PICK j, d : Stands(lists, limit, p, j, d) /\ place(p) = 3 * j + d
    BY FirstPlace
  <2>3. limit \in Nat /\ 3 * i + c = 3 * j + d
    BY <1>3, <2>1, <2>2 DEF AreLists
  <2> HIDE DEF C, place
  <2> QED BY <2>1, <2>2, <2>3, StandsAlone
<1> HIDE DEF C, B, place
<1>4. \A o \in C : <<o, o>> \notin B
  BY <1>1, <1>2
<1>5. \A x, y, z \in C : <<x, y>> \in B /\ <<y, z>> \in B => <<x, z>> \in B
  BY <1>1, <1>2
<1>6. \A x, y \in C : x # y => <<x, y>> \in B \/ <<y, x>> \in B
  BY <1>1, <1>2, <1>3
<1>7. OrdersStrictly(C, B)
  BY <1>4, <1>5, <1>6 DEF OrdersStrictly
<1> QED BY <1>2, <1>3, <1>7 DEF C, B, place

-----------------------------------------------------------------------------
(* What has been visited up to a number *)

Gathered(lists, limit, seen, t) ==
  /\ seen \in Seq(Objects)
  /\ \A o : o \in Range(seen)
            <=> o \in CandidatesOf(lists, limit) /\ PlaceOf(lists, limit, o) <= t
  /\ \A i, j \in 1 .. Len(seen) :
       i < j => PlaceOf(lists, limit, seen[i]) < PlaceOf(lists, limit, seen[j])

LEMMA VisitGathers ==
  ASSUME NEW lists, NEW limit, AreLists(lists, limit), NEW seen, NEW i \in Nat \ {0},
         NEW c \in 1 .. 3, Gathered(lists, limit, seen, 3 * i + c - 1)
  PROVE  Gathered(lists, limit, Visit(seen, lists[c], i), 3 * i + c)
<1> DEFINE C == CandidatesOf(lists, limit)
           place(o) == PlaceOf(lists, limit, o)
           t == 3 * i + c
           visited == Visit(seen, lists[c], i)
<1>1. t \in Nat /\ limit \in Nat
  BY DEF AreLists
<1>2. \A o \in C : place(o) \in Nat
  BY FirstPlace
<1>3. /\ seen \in Seq(Objects)
      /\ \A o : o \in Range(seen) <=> o \in C /\ place(o) <= t - 1
      /\ \A a, b \in 1 .. Len(seen) : a < b => place(seen[a]) < place(seen[b])
  BY DEF Gathered
<1>4. PICK n \in 0 .. limit : lists[c] \in [1 .. n -> Objects]
  BY DEF AreLists
<1>5. ASSUME NEW o \in C, place(o) = t PROVE i \in DOMAIN lists[c] /\ lists[c][i] = o
  <2>1. PICK j, d : Stands(lists, limit, o, j, d) /\ place(o) = 3 * j + d
    BY FirstPlace
  <2>2. j \in Nat /\ d \in 1 .. 3
    BY <1>1, <2>1 DEF Stands
  <2>3. 3 * j + d = 3 * i + c
    BY <1>5, <2>1
  <2>4. j = i /\ d = c
    BY <2>2, <2>3
  <2> QED BY <2>1, <2>4 DEF Stands
<1>6. ASSUME i \in DOMAIN lists[c]
      PROVE  lists[c][i] \in C /\ place(lists[c][i]) <= t /\ lists[c][i] \in Objects
  <2>1. i \in 1 .. limit
    BY <1>1, <1>4, <1>6
  <2>2. Stands(lists, limit, lists[c][i], i, c)
    BY <1>6, <2>1 DEF Stands
  <2>3. lists[c][i] \in C
    BY <2>2, StandsIsCandidate
  <2>4. place(lists[c][i]) <= t
    BY <2>2, <2>3, FirstPlace
  <2> QED BY <1>4, <1>6, <2>3, <2>4
<1> HIDE DEF t, C, place
<1>7. CASE i \in DOMAIN lists[c] /\ lists[c][i] \notin Range(seen)
  <2> DEFINE o == lists[c][i]
             m == Len(seen)
             s == Append(seen, o)
  <2>1. o \in C /\ place(o) <= t /\ o \in Objects
    BY <1>6, <1>7
  <2>2. place(o) = t
    BY <1>1, <1>2, <1>3, <1>7, <2>1
  <2>3. visited = s
    BY <1>7 DEF Visit
  <2> HIDE DEF o
  <2>4. /\ s \in Seq(Objects) /\ Len(s) = m + 1 /\ m \in Nat /\ s[m + 1] = o
        /\ \A a \in 1 .. m : s[a] = seen[a]
    BY <1>3, <2>1, AppendProperties, LenProperties
  <2>5. DOMAIN s = 1 .. m + 1 /\ DOMAIN seen = 1 .. m
    BY <1>3, <2>4, LenProperties
  <2> HIDE DEF s, m
  <2>6. \A p : p \in Range(s) <=> p \in Range(seen) \/ p = o
    <3>1. \A p : p \in Range(s) <=> \E a \in 1 .. m + 1 : p = s[a]
      BY <2>5 DEF Range
    <3>2. \A p : p \in Range(seen) <=> \E a \in 1 .. m : p = seen[a]
      BY <2>5 DEF Range
    <3>3. \A a \in 1 .. m + 1 : a \in 1 .. m \/ a = m + 1
      BY <2>4
    <3>4. m + 1 \in 1 .. m + 1 /\ \A a \in 1 .. m : a \in 1 .. m + 1
      BY <2>4
    <3> QED BY <2>4, <3>1, <3>2, <3>3, <3>4
  <2>7. \A p : p \in Range(s) <=> p \in C /\ place(p) <= t
    <3>1. \A p \in C : place(p) <= t <=> place(p) <= t - 1 \/ place(p) = t
      BY <1>1, <1>2
    <3>2. \A p \in C : place(p) = t => p = o
      BY <1>5 DEF o
    <3> QED BY <1>3, <2>1, <2>2, <2>6, <3>1, <3>2
  <2>8. ASSUME NEW a \in 1 .. m + 1, NEW b \in 1 .. m + 1, a < b PROVE place(s[a]) < place(s[b])
    <3>1. a \in 1 .. m
      BY <2>4, <2>8
    <3>2. CASE b \in 1 .. m
      BY <1>3, <2>4, <2>8, <3>1, <3>2 DEF m
    <3>3. CASE b = m + 1
      <4>1. seen[a] \in Range(seen)
        BY <2>5, <3>1 DEF Range
      <4>2. seen[a] \in C /\ place(seen[a]) <= t - 1
        BY <1>3, <4>1
      <4>3. s[a] = seen[a] /\ s[b] = o
        BY <2>4, <3>1, <3>3
      <4>4. place(s[a]) <= t - 1 /\ place(s[b]) = t /\ place(s[a]) \in Nat
        BY <1>2, <2>2, <4>2, <4>3
      <4> QED BY <1>1, <4>4
    <3> QED BY <2>4, <3>2, <3>3
  <2> QED BY <2>3, <2>4, <2>7, <2>8 DEF Gathered, t, C, place
<1>8. CASE ~(i \in DOMAIN lists[c] /\ lists[c][i] \notin Range(seen))
  <2>1. visited = seen
    BY <1>8 DEF Visit
  <2>2. \A p \in C : place(p) # t
    <3> SUFFICES ASSUME NEW p \in C, place(p) = t PROVE FALSE
      OBVIOUS
    <3>1. i \in DOMAIN lists[c] /\ lists[c][i] = p
      BY <1>5
    <3>2. place(p) <= t - 1
      BY <1>3, <1>8, <3>1
    <3> QED BY <1>1, <3>2
  <2>3. \A p : p \in Range(seen) <=> p \in C /\ place(p) <= t
    <3>1. \A p \in C : place(p) <= t <=> place(p) <= t - 1
      BY <1>1, <1>2, <2>2
    <3> QED BY <1>3, <3>1
  <2> QED BY <1>3, <2>1, <2>3 DEF Gathered, t, C, place
<1> QED BY <1>7, <1>8

LEMMA MaxOfThree ==
  ASSUME NEW x \in Int, NEW y \in Int, NEW z \in Int
  PROVE  /\ Max({x, y, z}) \in {x, y, z}
         /\ x <= Max({x, y, z}) /\ y <= Max({x, y, z}) /\ z <= Max({x, y, z})
<1> DEFINE S == {x, y, z}
<1>1. \E a \in S : \A b \in S : a >= b
  OBVIOUS
<1>2. Max(S) = CHOOSE a \in S : \A b \in S : a >= b
  BY DEF Max
<1>3. x \in S /\ y \in S /\ z \in S /\ \A b \in S : b \in Int
  OBVIOUS
<1> HIDE DEF S
<1>4. Max(S) \in S /\ \A b \in S : Max(S) >= b
  BY <1>1, <1>2
<1>5. x <= Max(S) /\ y <= Max(S) /\ z <= Max(S)
  BY <1>3, <1>4
<1> QED BY <1>4, <1>5 DEF S

\* The rows as RoundRobin visits them.
Turn(seen, first, second, third, i) == Visit(Visit(Visit(seen, first, i), second, i), third, i)
IsRound(first, second, third, n, g) ==
  g = [i \in 0 .. n |-> IF i = 0 THEN <<>> ELSE Turn(g[i - 1], first, second, third, i)]
Round(first, second, third, n) == CHOOSE g : IsRound(first, second, third, n, g)

LEMMA VisitIsList ==
  ASSUME NEW n \in Nat, NEW list \in [1 .. n -> Objects], NEW seen \in Seq(Objects), NEW i
  PROVE  Visit(seen, list, i) \in Seq(Objects)
<1>1. CASE i \in DOMAIN list /\ list[i] \notin Range(seen)
  <2>1. Visit(seen, list, i) = Append(seen, list[i]) /\ list[i] \in Objects
    BY <1>1 DEF Visit
  <2> QED BY <2>1, AppendProperties
<1>2. CASE ~(i \in DOMAIN list /\ list[i] \notin Range(seen))
  BY <1>2 DEF Visit
<1> QED BY <1>1, <1>2

LEMMA RoundRuns ==
  ASSUME NEW lists, NEW limit, AreLists(lists, limit), NEW n \in Nat,
         NEW f, f = Round(lists[1], lists[2], lists[3], n)
  PROVE  /\ f[0] = <<>>
         /\ \A i \in 1 .. n : f[i] = Turn(f[i - 1], lists[1], lists[2], lists[3], i)
<1> DEFINE V == Seq(Objects)
           T(s, i) == Turn(s, lists[1], lists[2], lists[3], i)
           step == [x \in (1 .. n) \X V |-> T(x[2], x[1])]
<1>1. ASSUME NEW s \in V, NEW i \in 1 .. n PROVE T(s, i) \in V
  <2>1. \A c \in 1 .. 3 : \E m \in Nat : lists[c] \in [1 .. m -> Objects]
    <3> TAKE c \in 1 .. 3
    <3>1. limit \in Nat
      BY DEF AreLists
    <3>2. PICK m \in 0 .. limit : lists[c] \in [1 .. m -> Objects]
      BY DEF AreLists
    <3>3. m \in Nat
      BY <3>1, <3>2
    <3> QED BY <3>2, <3>3
  <2>2. /\ \E m \in Nat : lists[1] \in [1 .. m -> Objects]
        /\ \E m \in Nat : lists[2] \in [1 .. m -> Objects]
        /\ \E m \in Nat : lists[3] \in [1 .. m -> Objects]
    BY <2>1
  <2> DEFINE s1 == Visit(s, lists[1], i)
             s2 == Visit(s1, lists[2], i)
             s3 == Visit(s2, lists[3], i)
  <2>3. s1 \in V
    BY <2>2, VisitIsList
  <2> HIDE DEF s1
  <2>4. s2 \in V
    BY <2>2, <2>3, VisitIsList
  <2> HIDE DEF s2
  <2>5. s3 \in V
    BY <2>2, <2>4, VisitIsList
  <2> QED BY <2>5 DEF Turn, s1, s2
<1>2. \A i \in 1 .. n, s \in V : step[<<i, s>>] = T(s, i)
  OBVIOUS
<1> HIDE DEF T
<1>3. step \in [(1 .. n) \X V -> V]
  <2>1. \A x \in (1 .. n) \X V : T(x[2], x[1]) \in V
    BY <1>1
  <2> HIDE DEF V
  <2> QED BY <2>1
<1>4. <<>> \in V
  OBVIOUS
<1> HIDE DEF V, step
<1>5. IsStep(n, V, <<>>, step)
  BY <1>3, <1>4 DEF IsStep
<1>6. PICK g : IsRow(g, n, V, <<>>, step)
  BY <1>5, RowExists
<1>7. /\ g \in [0 .. n -> V] /\ g[0] = <<>>
      /\ \A i \in 1 .. n : g[i] = T(g[i - 1], i)
  <2>1. g \in [0 .. n -> V] /\ g[0] = <<>> /\ \A i \in 1 .. n : g[i] = step[<<i, g[i - 1]>>]
    BY <1>6 DEF IsRow
  <2>2. \A i \in 1 .. n : g[i - 1] \in V
    BY <2>1
  <2> QED BY <1>2, <2>1, <2>2
<1>8. g = [i \in 0 .. n |-> IF i = 0 THEN <<>> ELSE T(g[i - 1], i)]
  <2>1. g = [i \in 0 .. n |-> g[i]]
    BY <1>7
  <2>2. \A i \in 0 .. n : g[i] = IF i = 0 THEN <<>> ELSE T(g[i - 1], i)
    BY <1>7
  <2> QED BY <2>1, <2>2
<1>9. IsRound(lists[1], lists[2], lists[3], n, g)
  BY <1>8, Zenon DEF IsRound, T
<1>10. IsRound(lists[1], lists[2], lists[3], n, f)
  BY <1>9, Zenon DEF Round
<1>11. f = [i \in 0 .. n |-> IF i = 0 THEN <<>> ELSE T(f[i - 1], i)]
  BY <1>10, Zenon DEF IsRound, T
<1>12. f[0] = <<>> /\ \A i \in 1 .. n : f[i] = T(f[i - 1], i)
  <2> DEFINE body(i) == IF i = 0 THEN <<>> ELSE T(f[i - 1], i)
  <2>1. f = [i \in 0 .. n |-> body(i)]
    BY <1>11
  <2>2. body(0) = <<>> /\ \A i \in 1 .. n : body(i) = T(f[i - 1], i)
    OBVIOUS
  <2> HIDE DEF body
  <2>3. f[0] = body(0) /\ \A i \in 1 .. n : f[i] = body(i)
    BY <2>1
  <2> QED BY <2>2, <2>3
<1> QED BY <1>12 DEF T

\* After each row, every object whose place is in it or before has been
\* visited, once, in the order of the places.
LEMMA RoundGathers ==
  ASSUME NEW lists, NEW limit, AreLists(lists, limit), NEW n \in Nat, NEW i \in 0 .. n
  PROVE  Gathered(lists, limit, Round(lists[1], lists[2], lists[3], n)[i], 3 * i + 3)
<1> DEFINE f == Round(lists[1], lists[2], lists[3], n)
           S == {j \in Nat : j <= n => Gathered(lists, limit, f[j], 3 * j + 3)}
<1>1. f[0] = <<>> /\ \A j \in 1 .. n : f[j] = Turn(f[j - 1], lists[1], lists[2], lists[3], j)
  BY RoundRuns
<1> HIDE DEF f
<1>2. 0 \in S
  <2>1. \A o \in CandidatesOf(lists, limit) : ~(PlaceOf(lists, limit, o) <= 3)
    <3> TAKE o \in CandidatesOf(lists, limit)
    <3>1. PICK j, c : Stands(lists, limit, o, j, c) /\ PlaceOf(lists, limit, o) = 3 * j + c
      BY FirstPlace
    <3>2. j \in 1 .. limit /\ c \in 1 .. 3 /\ limit \in Nat
      BY <3>1 DEF Stands, AreLists
    <3> QED BY <3>1, <3>2
  <2>2. <<>> \in Seq(Objects) /\ Range(<<>>) = {} /\ Len(<<>>) = 0
    BY DEF Range
  <2>3. Gathered(lists, limit, <<>>, 3)
    BY <2>1, <2>2 DEF Gathered
  <2> QED BY <1>1, <2>3
<1>3. ASSUME NEW j \in Nat, j \in S PROVE j + 1 \in S
  <2> SUFFICES ASSUME j + 1 <= n PROVE Gathered(lists, limit, f[j + 1], 3 * (j + 1) + 3)
    OBVIOUS
  <2> DEFINE r == j + 1
             s0 == f[j]
             s1 == Visit(s0, lists[1], r)
             s2 == Visit(s1, lists[2], r)
             s3 == Visit(s2, lists[3], r)
  <2>1. Gathered(lists, limit, s0, 3 * j + 3)
    BY <1>3
  <2>2. f[r] = s3
    <3>1. r \in 1 .. n /\ r - 1 = j
      OBVIOUS
    <3> HIDE DEF r
    <3> QED BY <1>1, <3>1 DEF Turn
  <2>3. r \in Nat \ {0} /\ 3 * j + 3 = 3 * r + 1 - 1 /\ 3 * r + 1 = 3 * r + 2 - 1
        /\ 3 * r + 2 = 3 * r + 3 - 1 /\ 1 \in 1 .. 3 /\ 2 \in 1 .. 3 /\ 3 \in 1 .. 3
    OBVIOUS
  <2> HIDE DEF r, s0
  <2>4. Gathered(lists, limit, s1, 3 * r + 1)
    <3>1. Gathered(lists, limit, s0, 3 * r + 1 - 1)
      BY <2>1, <2>3
    <3> QED BY <2>3, <3>1, VisitGathers
  <2> HIDE DEF s1
  <2>5. Gathered(lists, limit, s2, 3 * r + 2)
    <3>1. Gathered(lists, limit, s1, 3 * r + 2 - 1)
      BY <2>3, <2>4
    <3> QED BY <2>3, <3>1, VisitGathers
  <2> HIDE DEF s2
  <2>6. Gathered(lists, limit, s3, 3 * r + 3)
    <3>1. Gathered(lists, limit, s2, 3 * r + 3 - 1)
      BY <2>3, <2>5
    <3> QED BY <2>3, <3>1, VisitGathers
  <2> HIDE DEF s3
  <2> QED BY <2>2, <2>6 DEF r
<1>4. i \in S
  <2> HIDE DEF S
  <2> QED BY <1>2, <1>3, SetInduction
<1> QED BY <1>4 DEF f

LEMMA CandidatesAreFinite ==
  ASSUME NEW lists, NEW limit, AreLists(lists, limit), GraphIsSound
  PROVE  IsFiniteSet(CandidatesOf(lists, limit))
BY CandidatesAreObjects, FS_Subset DEF GraphIsSound

\* A list that gathered them all holds each candidate once, in order.
LEMMA GatheredIsSorted ==
  ASSUME GraphIsSound, NEW lists, NEW limit, AreLists(lists, limit), NEW s, NEW t,
         Gathered(lists, limit, s, t),
         \A o \in CandidatesOf(lists, limit) : PlaceOf(lists, limit, o) <= t
  PROVE  IsSorted(CandidatesOf(lists, limit), PlacedBefore(lists, limit), s)
<1> DEFINE C == CandidatesOf(lists, limit)
           B == PlacedBefore(lists, limit)
           place(o) == PlaceOf(lists, limit, o)
           m == Len(s)
<1>1. /\ s \in Seq(Objects) /\ \A o : o \in Range(s) <=> o \in C
      /\ \A i, j \in 1 .. m : i < j => place(s[i]) < place(s[j])
  BY DEF Gathered
<1>2. m \in Nat /\ DOMAIN s = 1 .. m
  BY <1>1, LenProperties
<1> HIDE DEF m
<1>3. \A i \in 1 .. m : s[i] \in C
  BY <1>1, <1>2 DEF Range
<1>4. \A o \in C : place(o) \in Nat
  BY FirstPlace
<1>5. \A o, p \in C : <<o, p>> \in B <=> place(o) < place(p)
  BY PlacesOrder
<1> HIDE DEF C, B, place
<1>6. s \in [1 .. m -> C]
  <2>1. s = [i \in 1 .. m |-> s[i]]
    BY <1>1, <1>2
  <2> QED BY <1>3, <2>1
<1>7. \A i, j \in 1 .. m : s[i] = s[j] => i = j
  <2> SUFFICES ASSUME NEW i \in 1 .. m, NEW j \in 1 .. m, i < j PROVE s[i] # s[j]
    BY <1>2
  <2> QED BY <1>1, <1>3, <1>4
<1>8. s \in Bijection(1 .. m, C)
  <2>1. s \in Injection(1 .. m, C)
    BY <1>6, <1>7 DEF Injection, IsInjective
  <2>2. \A o \in C : \E i \in 1 .. m : s[i] = o
    BY <1>1, <1>2 DEF Range
  <2> QED BY <1>6, <2>1, <2>2 DEF Bijection, Surjection
<1>9. Cardinality(C) = m
  <2>1. IsFiniteSet(C)
    BY CandidatesAreFinite DEF C
  <2>2. IsFiniteSet(1 .. m) /\ Cardinality(1 .. m) = m
    BY <1>2, FS_Interval
  <2>3. ExistsBijection(1 .. m, C)
    BY <1>8 DEF ExistsBijection
  <2> QED BY <2>2, <2>3, FS_Bijection
<1>10. \A i, j \in 1 .. m : i < j => <<s[i], s[j]>> \in B
  BY <1>1, <1>3, <1>5
<1> QED BY <1>6, <1>9, <1>10 DEF IsSorted, C, B

\* ExplainTop's representatives are the candidates in the order of their places.
LEMMA RoundRobinIsSorted ==
  ASSUME GraphIsSound, NEW lists, NEW limit, AreLists(lists, limit)
  PROVE  IsSorted(CandidatesOf(lists, limit), PlacedBefore(lists, limit),
                  RoundRobin(lists[1], lists[2], lists[3]))
<1> DEFINE x == Len(lists[1])
           y == Len(lists[2])
           z == Len(lists[3])
           n == Max({x, y, z})
           f == Round(lists[1], lists[2], lists[3], n)
<1>1. \A c \in 1 .. 3 : Len(lists[c]) \in Nat /\ DOMAIN lists[c] = 1 .. Len(lists[c])
  <2> TAKE c \in 1 .. 3
  <2>1. PICK m \in 0 .. limit : lists[c] \in [1 .. m -> Objects]
    BY DEF AreLists
  <2>2. m \in Nat
    BY <2>1 DEF AreLists
  <2>3. Len(lists[c]) = m
    BY <2>1, <2>2, LimitedList
  <2> QED BY <2>1, <2>2, <2>3
<1>2. x \in Nat /\ y \in Nat /\ z \in Nat
  BY <1>1
<1>3. RoundRobin(lists[1], lists[2], lists[3]) = f[n]
  BY DEF RoundRobin, Round, IsRound, Turn
<1> HIDE DEF x, y, z
<1>4. n \in Nat /\ x <= n /\ y <= n /\ z <= n
  <2>1. /\ Max({x, y, z}) \in {x, y, z}
        /\ x <= Max({x, y, z}) /\ y <= Max({x, y, z}) /\ z <= Max({x, y, z})
    <3>1. x \in Int /\ y \in Int /\ z \in Int
      BY <1>2
    <3> QED BY <3>1, MaxOfThree, Zenon
  <2>2. n = Max({x, y, z})
    OBVIOUS
  <2> HIDE DEF n
  <2>3. n \in {x, y, z} /\ x <= n /\ y <= n /\ z <= n
    BY <2>1, <2>2
  <2> QED BY <1>2, <2>3
<1> HIDE DEF n
<1>5. \A c \in 1 .. 3 : Len(lists[c]) <= n
  <2>1. Len(lists[1]) <= n /\ Len(lists[2]) <= n /\ Len(lists[3]) <= n
    BY <1>4 DEF x, y, z
  <2>2. \A c \in 1 .. 3 : c = 1 \/ c = 2 \/ c = 3
    OBVIOUS
  <2> QED BY <2>1, <2>2
<1>6. Gathered(lists, limit, f[n], 3 * n + 3)
  <2>1. n \in 0 .. n
    BY <1>4
  <2> QED BY <1>4, <2>1, RoundGathers
<1>7. ASSUME NEW o \in CandidatesOf(lists, limit) PROVE PlaceOf(lists, limit, o) <= 3 * n + 3
  <2>1. PICK i, c : Stands(lists, limit, o, i, c) /\ PlaceOf(lists, limit, o) = 3 * i + c
    BY FirstPlace
  <2>2. c \in 1 .. 3 /\ i \in DOMAIN lists[c]
    BY <2>1 DEF Stands
  <2>3. i \in 1 .. Len(lists[c]) /\ Len(lists[c]) <= n /\ Len(lists[c]) \in Nat
    BY <1>1, <1>5, <2>2
  <2>4. i \in Nat /\ i <= n
    BY <1>4, <2>3
  <2> QED BY <1>4, <2>1, <2>2, <2>4
<1> HIDE DEF f
<1>8. IsSorted(CandidatesOf(lists, limit), PlacedBefore(lists, limit), f[n])
  BY <1>6, <1>7, GatheredIsSorted
<1> QED BY <1>3, <1>8

\* A list of the first candidates, most of them at most, all of them in q.
Represents(q, lists, limit, most) ==
  /\ Limited(q, most) = InOrder(CandidatesOf(lists, limit), PlacedBefore(lists, limit), most)
  /\ Len(q) = Cardinality(CandidatesOf(lists, limit))
  /\ Len(Limited(q, most)) = Cut(Len(q), most)
  /\ Len(q) \in Nat
  /\ Limited(q, most) \in [1 .. Cut(Len(q), most) -> Objects]

LEMMA RepresentativesAreTrue ==
  ASSUME GraphIsSound, NEW lists, NEW limit, AreLists(lists, limit), NEW most \in Nat,
         NEW q, q = RoundRobin(lists[1], lists[2], lists[3])
  PROVE  Represents(q, lists, limit, most)
<1> DEFINE C == CandidatesOf(lists, limit)
           B == PlacedBefore(lists, limit)
           n == Cardinality(C)
<1>1. IsSorted(C, B, q)
  BY RoundRobinIsSorted
<1>2. IsFiniteSet(C)
  BY CandidatesAreFinite
<1>3. OrdersStrictly(C, B)
  BY PlacesOrder
<1>4. C \subseteq Objects
  BY CandidatesAreObjects
<1> HIDE DEF C, B
<1>5. SameOrder(C, B, B)
  BY DEF SameOrder
<1>6. n \in Nat /\ q \in [1 .. n -> C]
  BY <1>1, <1>2, FS_CardinalityType DEF IsSorted
<1> HIDE DEF n
<1>7. /\ Limited(q, most) = Beginning(q, Cut(n, most)) /\ Len(q) = n
      /\ Len(Limited(q, most)) = Cut(n, most)
  <2>1. n \in Nat /\ q \in [1 .. n -> C] /\ most \in Nat
    BY <1>6
  <2>2. Limited(q, most) = Beginning(q, Cut(n, most))
    BY <2>1, LimitedList
  <2>3. Len(q) = n
    BY <2>1, LimitedList
  <2>4. Len(Limited(q, most)) = Cut(n, most)
    <3> DEFINE c == Cut(n, most)
               h == Limited(q, most)
    <3>1. c \in Nat /\ c \in 0 .. n
      BY <2>1 DEF Cut
    <3> HIDE DEF c
    <3>2. h \in [1 .. c -> C]
      BY <2>1, <2>2, <3>1 DEF Beginning, c
    <3> HIDE DEF h
    <3>3. Len(h) = c
      BY <3>1, <3>2, LimitedList
    <3> QED BY <3>3 DEF c, h
  <2> QED BY <2>2, <2>3, <2>4
<1>8. InOrder(C, B, most) = Beginning(q, Shown(C, most))
  BY <1>1, <1>2, <1>3, <1>5, InOrderIsSorted
<1>9. Shown(C, most) = Cut(n, most)
  BY DEF Shown, n
<1>10. Cut(n, most) \in 0 .. n
  BY <1>6 DEF Cut
<1>11. Beginning(q, Cut(n, most)) \in [1 .. Cut(n, most) -> Objects]
  BY <1>4, <1>6, <1>10 DEF Beginning
<1> QED BY <1>6, <1>7, <1>8, <1>9, <1>11 DEF C, B, n, Represents

\* ExplainTop (explain.go:297): three rankings, and the explanations of the
\* objects that stand first in them, taken row by row.
THEOREM ExplainTopIsTrue ==
  ASSUME GraphIsSound, NEW a, SoundSource(a), NEW inc \in BOOLEAN,
         NEW k, PathLimits(k),
         k.limit \in Nat \ {0}, k.representatives \in Nat \ {0}
  PROVE  ExplainTop(a, inc, k) = TrueTop(a, inc, k)
<1> DEFINE in == Surroundings(a, inc, k.want)
           sets == TrueInspection(a, inc, k.want)
           limit == k.limit
           most == k.representatives
           Shared == in.reachable \cap in.outside
           Exclusive == in.reachable \ in.outside
           first == Limited(RankedIDs(in.reachable, "size"), limit)
           second == Limited(RankedIDs(Shared, "size"), limit)
           third == Limited(RankedIDs(Exclusive, "size"), limit)
           round == RoundRobin(first, second, third)
           picked == Limited(round, most)
           said == [i \in DOMAIN picked |-> ExplainObject(a, inc, picked[i], <<k.want>>, in, k)]
<1>1. ExplainTop(a, inc, k) =
        [objects |-> ObjectList(a, inc, in, "size", k),
         shared |-> Infos(a, inc, second, in, k), exclusive |-> Infos(a, inc, third, in, k),
         sharedTruncated |-> Len(second) < Cardinality(Shared),
         exclusiveTruncated |-> Len(third) < Cardinality(Exclusive),
         explanations |-> said, truncated |-> Len(round) > Len(picked)]
  BY DEF ExplainTop
<1> DEFINE lists == <<InOrder(sets.reachable, Larger, limit), InOrder(sets.shared, Larger, limit),
                      InOrder(sets.exclusive, Larger, limit)>>
           C == CandidatesOf(lists, limit)
           chosen == InOrder(C, PlacedBefore(lists, limit), most)
           meant == [i \in DOMAIN chosen |-> TrueExplanation(a, inc, k, chosen[i], <<k.want>>)]
<1>2. TrueTop(a, inc, k) =
        [objects |-> TrueListing(a, inc, k, "size"),
         shared |-> TrueRanking(a, inc, k, sets.shared, "size"),
         exclusive |-> TrueRanking(a, inc, k, sets.exclusive, "size"),
         sharedTruncated |-> Cardinality(sets.shared) > limit,
         exclusiveTruncated |-> Cardinality(sets.exclusive) > limit,
         explanations |-> meant, truncated |-> Cardinality(C) > most]
  <2> HIDE DEF sets
  <2> QED BY DEF TrueTop, CandidatesOf, PlacesOf, PlacedBefore, PlaceOf, NumbersOf, sets
<1>3. limit \in Nat /\ limit # 0 /\ most \in Nat /\ most # 0 /\ k.groupLimit \in Nat
  BY DEF PathLimits
<1>4. /\ ObjectList(a, inc, in, "size", k) = TrueListing(a, inc, k, "size")
      /\ in.reachable \subseteq Objects
      /\ in.reachable = sets.reachable /\ Shared = sets.shared /\ Exclusive = sets.exclusive
  <2>1. k.groupLimit \in Nat /\ k.limit \in Nat
    BY <1>3
  <2> QED BY <2>1, ListingIsTrue
<1>5. Shared \subseteq Objects /\ Exclusive \subseteq Objects
  BY <1>4
<1>6. /\ Infos(a, inc, second, in, k) = TrueRanking(a, inc, k, Shared, "size")
      /\ Infos(a, inc, third, in, k) = TrueRanking(a, inc, k, Exclusive, "size")
  <2> HIDE DEF Shared, Exclusive
  <2> QED BY <1>3, <1>5, RankingIsTrue
<1> HIDE DEF in, sets, Shared, Exclusive, limit, most
<1>7. /\ (Len(second) < Cardinality(Shared)) = (Cardinality(Shared) > limit)
      /\ (Len(third) < Cardinality(Exclusive)) = (Cardinality(Exclusive) > limit)
  <2>1. Len(second) < Cardinality(Shared) <=> limit # 0 /\ Cardinality(Shared) > limit
    BY <1>3, <1>5, CutIsTold
  <2>2. Len(third) < Cardinality(Exclusive) <=> limit # 0 /\ Cardinality(Exclusive) > limit
    BY <1>3, <1>5, CutIsTold
  <2> HIDE DEF second, third
  <2> QED BY <1>3, <2>1, <2>2
<1>8. ASSUME NEW S, S \subseteq Objects
      PROVE  /\ Limited(RankedIDs(S, "size"), limit) = InOrder(S, Larger, limit)
             /\ \E n \in 0 .. limit : InOrder(S, Larger, limit) \in [1 .. n -> Objects]
  <2>1. /\ Limited(RankedIDs(S, "size"), limit) = InOrder(S, Larger, limit)
        /\ Limited(RankedIDs(S, "size"), limit) \in [1 .. Shown(S, limit) -> S]
        /\ IsFiniteSet(S)
    BY <1>3, <1>8, RankedIsTrue
  <2>2. Shown(S, limit) \in 0 .. limit
    <3>1. Cardinality(S) \in Nat
      BY <2>1, FS_CardinalityType
    <3> QED BY <1>3, <3>1 DEF Shown, Cut
  <2>3. InOrder(S, Larger, limit) \in [1 .. Shown(S, limit) -> Objects]
    BY <1>8, <2>1
  <2> QED BY <2>1, <2>2, <2>3
<1>9. first = lists[1] /\ second = lists[2] /\ third = lists[3]
  BY <1>4, <1>5, <1>8
<1>10. AreLists(lists, limit)
  <2>1. /\ \E n \in 0 .. limit : lists[1] \in [1 .. n -> Objects]
        /\ \E n \in 0 .. limit : lists[2] \in [1 .. n -> Objects]
        /\ \E n \in 0 .. limit : lists[3] \in [1 .. n -> Objects]
    BY <1>4, <1>5, <1>8
  <2> HIDE DEF lists
  <2>2. \A c \in 1 .. 3 : c = 1 \/ c = 2 \/ c = 3
    OBVIOUS
  <2>3. \A c \in 1 .. 3 : \E n \in 0 .. limit : lists[c] \in [1 .. n -> Objects]
    BY <2>1, <2>2
  <2> QED BY <1>3, <2>3 DEF AreLists
<1> HIDE DEF lists, first, second, third
<1>11. round = RoundRobin(lists[1], lists[2], lists[3])
  BY <1>9
<1> HIDE DEF round
<1>12. /\ picked = chosen /\ Len(round) = Cardinality(C) /\ Len(round) \in Nat
       /\ Len(picked) = Cut(Len(round), most)
       /\ picked \in [1 .. Cut(Len(round), most) -> Objects]
  <2>1. most \in Nat
    BY <1>3
  <2>2. Represents(round, lists, limit, most)
    BY <1>10, <1>11, <2>1, RepresentativesAreTrue
  <2> QED BY <2>2 DEF Represents
<1> HIDE DEF picked, chosen, C
<1>13. (Len(round) > Len(picked)) = (Cardinality(C) > most)
  <2>1. Len(round) > Len(picked) <=> Len(round) > most
    BY <1>3, <1>12 DEF Cut
  <2> QED BY <1>12, <2>1
<1>14. said = meant
  <2> DEFINE sel == <<k.want>>
  <2>1. IsList(sel) /\ sel[1] = k.want
    <3>1. DOMAIN sel = 1 .. 1 /\ 1 \in Nat
      OBVIOUS
    <3> QED BY <3>1 DEF IsList
  <2>2. ASSUME NEW i \in DOMAIN picked
        PROVE  ExplainObject(a, inc, picked[i], sel, in, k) = TrueExplanation(a, inc, k, picked[i], sel)
    <3> DEFINE o == picked[i]
    <3>1. o \in Objects
      BY <1>12
    <3> HIDE DEF o, sel
    <3>2. ExplainObject(a, inc, o, sel, Surroundings(a, inc, sel[1]), k) = TrueExplanation(a, inc, k, o, sel)
      BY <2>1, <3>1, ExplanationIsTrue
    <3> QED BY <2>1, <3>2 DEF o, in
  <2> HIDE DEF sel
  <2> DEFINE x == [i \in DOMAIN picked |-> ExplainObject(a, inc, picked[i], sel, in, k)]
             y == [i \in DOMAIN picked |-> TrueExplanation(a, inc, k, picked[i], sel)]
  <2>3. x = y
    BY <2>2
  <2>4. said = x /\ meant = y
    BY <1>12 DEF sel
  <2> QED BY <2>3, <2>4
<1> HIDE DEF said, meant
<1> QED BY <1>1, <1>2, <1>4, <1>6, <1>7, <1>13, <1>14

-----------------------------------------------------------------------------
(* The invariants of the session *)

LEMMA InitIInv == Init => IInv
<1> SUFFICES ASSUME Init PROVE IInv
  OBVIOUS
<1>1. TypeOK
  BY SessionAssumption
  DEF Init, TypeOK, EmptyCache, Inside, Outside, Pending
<1>2. OpenWhileQuerying /\ CacheIsWhole /\ ClosedHoldsNothing /\ FailuresChecked
  BY DEF Init, OpenWhileQuerying, CacheIsWhole, ClosedHoldsNothing, FailuresChecked,
     EmptyCache, Pending
<1>3. QED
  BY <1>1, <1>2 DEF IInv

LEMMA WalkInObjects == \A R : Walk(R) \in SUBSET Objects
BY DEF Walk

\* The answers of a refusal: never the one of a call still pending.
LEMMA RefusalsAreTold == \A k : RefusalOf(k) # "pending"
BY DEF RefusalOf, FailureError

\* A step of one client that moves it between two points outside, or two points
\* inside, of the mutex, or through it, as the mutex allows.
LEMMA TypeStep == IInv /\ [Next]_vars => TypeOK'
<1> SUFFICES ASSUME IInv, [Next]_vars PROVE TypeOK'
  OBVIOUS
<1> USE SessionAssumption DEF IInv, TypeOK, Inside, Outside, Move, Say, sourceVars
<1>1. ASSUME NEW c \in Clients, Ask(c) PROVE TypeOK'
  BY <1>1 DEF Ask
<1>2. ASSUME NEW c \in Clients, Enter(c) PROVE TypeOK'
  BY <1>2 DEF Enter
<1>3. ASSUME NEW c \in Clients, Describe(c) PROVE TypeOK'
  BY <1>3 DEF Describe
<1>4. ASSUME NEW c \in Clients, Cancel(c) PROVE TypeOK'
  BY <1>4 DEF Cancel, Refusal
<1>5. ASSUME NEW c \in Clients, Leave(c) PROVE TypeOK'
  BY <1>5 DEF Leave
<1>6. ASSUME NEW c \in Clients, Described(c) PROVE TypeOK'
  BY <1>6 DEF Described
<1>7. ASSUME NEW c \in Clients, Return(c) PROVE TypeOK'
  BY <1>7 DEF Return, Pending
<1>8. ASSUME NEW c \in Clients, Refuse(c) PROVE TypeOK'
  BY <1>8, RefusalsAreTold DEF Refuse, Refusal
<1>9. ASSUME NEW c \in Clients, QueryMatch(c) PROVE TypeOK'
  BY <1>9 DEF QueryMatch
<1>10. ASSUME NEW c \in Clients, QueryNothing(c) PROVE TypeOK'
  BY <1>10 DEF QueryNothing
<1>11. ASSUME NEW c \in Clients, QueryGlobal(c) PROVE TypeOK'
  BY <1>11, WalkInObjects DEF QueryGlobal
<1>12. ASSUME NEW c \in Clients, QuerySystem(c) PROVE TypeOK'
  BY <1>12, WalkInObjects DEF QuerySystem
<1>13. ASSUME NEW c \in Clients, QueryAnswer(c) PROVE TypeOK'
  BY <1>13 DEF QueryAnswer, Reply
<1>14. ASSUME NEW c \in Clients, ReportAnswer(c) PROVE TypeOK'
  BY <1>14 DEF ReportAnswer, Reply
<1>15. ASSUME NEW c \in Clients, ListLabels(c) PROVE TypeOK'
  BY <1>15 DEF ListLabels, Reply
<1>16. ASSUME NEW c \in Clients, Close(c) PROVE TypeOK'
  BY <1>16 DEF Close, Reply, EmptyCache
<1>17. CASE UNCHANGED vars
  BY <1>17 DEF vars
<1>18. QED
  BY <1>1, <1>2, <1>3, <1>4, <1>5, <1>6, <1>7, <1>8, <1>9, <1>10, <1>11, <1>12,
     <1>13, <1>14, <1>15, <1>16, <1>17 DEF Next, Step

\* Only Query fills the caches, with the walk of all the roots; only Close
\* empties them.
LEMMA CacheStep == IInv /\ [Next]_vars => CacheIsWhole'
<1> SUFFICES ASSUME IInv, [Next]_vars PROVE CacheIsWhole'
  OBVIOUS
<1>1. UNCHANGED <<source, includeSystem>>
  BY DEF Next, Step, vars, sourceVars, Ask, Enter, Describe, Cancel, Leave, Described,
     Return, Refuse, QueryMatch, QueryNothing, QueryGlobal, QuerySystem, QueryAnswer,
     ReportAnswer, ListLabels, Close
<1>2. CASE UNCHANGED cache
  BY <1>1, <1>2 DEF IInv, CacheIsWhole
<1>3. ASSUME NEW c \in Clients, QueryGlobal(c) PROVE CacheIsWhole'
  <2> DEFINE global == IF cache.global # NotCached THEN cache.global
                      ELSE Walk(source.globals)
  <2>1. cache'.global = global /\ cache'.system = cache.system
    BY <1>3 DEF QueryGlobal, IInv, TypeOK
  <2>2. global = Walk(source.globals)
    BY DEF IInv, CacheIsWhole
  <2>3. QED
    BY <1>1, <2>1, <2>2 DEF IInv, CacheIsWhole
<1>4. ASSUME NEW c \in Clients, QuerySystem(c) PROVE CacheIsWhole'
  <2> DEFINE system == IF cache.system # NotCached THEN cache.system
                      ELSE Walk(RootsOf(source, source.system))
  <2>1. CASE ~includeSystem /\ source.system # {}
    <3>1. cache'.system = system /\ cache'.global = cache.global
      BY <1>4, <2>1 DEF QuerySystem, IInv, TypeOK
    <3>2. system = Walk(RootsOf(source, source.system))
      BY DEF IInv, CacheIsWhole
    <3>3. QED
      BY <1>1, <2>1, <3>1, <3>2 DEF IInv, CacheIsWhole
  <2>2. CASE ~(~includeSystem /\ source.system # {})
    BY <1>2, <1>4, <2>2 DEF QuerySystem
  <2>3. QED
    BY <2>1, <2>2
<1>5. ASSUME NEW c \in Clients, Close(c) PROVE CacheIsWhole'
  BY <1>5 DEF Close, EmptyCache, CacheIsWhole
<1>6. QED
  BY <1>2, <1>3, <1>4, <1>5 DEF Next, Step, vars, Ask, Enter, Describe, Cancel, Leave,
     Described, Return, Refuse, QueryMatch, QueryNothing, QueryAnswer, ReportAnswer,
     ListLabels

\* Where the session may close, and where a query may come to fill a cache.
LEMMA OpenStep == IInv /\ [Next]_vars => OpenWhileQuerying'
<1> SUFFICES ASSUME IInv, [Next]_vars PROVE OpenWhileQuerying'
  OBVIOUS
<1> USE DEF IInv, TypeOK, OpenWhileQuerying, Move
<1>1. ASSUME NEW c \in Clients, Close(c) PROVE OpenWhileQuerying'
  <2> SUFFICES ASSUME NEW d \in Clients, at'[d] \in {"matched", "weighed"} PROVE FALSE
    OBVIOUS
  <2>1. lock = c
    BY <1>1 DEF Close, Inside
  <2>2. d # c
    BY <1>1 DEF Close
  <2>3. at[d] \in {"matched", "weighed"}
    BY <1>1, <2>2 DEF Close
  <2>4. QED
    BY <2>1, <2>2, <2>3 DEF Inside
<1>2. ASSUME NEW c \in Clients, QueryMatch(c) PROVE OpenWhileQuerying'
  <2>1. open
    BY <1>2 DEF QueryMatch, RefusalOf
  <2>2. QED
    BY <1>2, <2>1 DEF QueryMatch, sourceVars
<1>3. ASSUME NEW c \in Clients, QueryGlobal(c) PROVE OpenWhileQuerying'
  BY <1>3 DEF QueryGlobal
<1>4. ASSUME NEW c \in Clients,
             \/ Ask(c) \/ Enter(c) \/ Describe(c) \/ Cancel(c) \/ Leave(c)
             \/ Described(c) \/ Return(c) \/ Refuse(c) \/ QueryNothing(c)
             \/ QuerySystem(c) \/ QueryAnswer(c) \/ ReportAnswer(c) \/ ListLabels(c)
      PROVE  OpenWhileQuerying'
  BY <1>4 DEF Ask, Enter, Describe, Cancel, Leave, Described, Return, Refuse,
     QueryNothing, QuerySystem, QueryAnswer, ReportAnswer, ListLabels
<1>5. CASE UNCHANGED vars
  BY <1>5 DEF vars
<1>6. QED
  BY <1>1, <1>2, <1>3, <1>4, <1>5 DEF Next, Step

LEMMA ClosedStep == IInv /\ [Next]_vars => ClosedHoldsNothing'
<1> SUFFICES ASSUME IInv, [Next]_vars PROVE ClosedHoldsNothing'
  OBVIOUS
<1> USE DEF IInv, ClosedHoldsNothing
<1>1. CASE UNCHANGED <<open, index, cache>>
  BY <1>1 DEF EmptyCache
<1>2. ASSUME NEW c \in Clients, QueryGlobal(c) \/ QuerySystem(c)
      PROVE  ClosedHoldsNothing'
  BY <1>2 DEF QueryGlobal, QuerySystem, Move, OpenWhileQuerying
<1>3. ASSUME NEW c \in Clients, Close(c) PROVE ClosedHoldsNothing'
  BY <1>3 DEF Close, EmptyCache
<1>4. QED
  BY <1>1, <1>2, <1>3 DEF Next, Step, vars, Ask, Enter, Describe, Cancel, Leave,
     Described, Return, Refuse, QueryMatch, QueryNothing, QueryAnswer, ReportAnswer,
     ListLabels

\* An answer is given where no failure counts; failures never change.
LEMMA CheckedStep == IInv /\ [Next]_vars => FailuresChecked'
<1> SUFFICES ASSUME IInv, [Next]_vars PROVE FailuresChecked'
  OBVIOUS
<1> USE DEF IInv, TypeOK, FailuresChecked, Move, Say, sourceVars
<1>1. ASSUME NEW c \in Clients, Ask(c) \/ Return(c) PROVE FailuresChecked'
  BY <1>1 DEF Ask, Return, Pending
<1>2. ASSUME NEW c \in Clients, Cancel(c) \/ Refuse(c) PROVE FailuresChecked'
  <2>1. RefusalOf(call[c]) # "answer"
    BY DEF RefusalOf, FailureError
  <2>2. QED
    BY <1>2, <2>1 DEF Cancel, Refuse, Refusal
<1>3. ASSUME NEW c \in Clients, QueryMatch(c) \/ ReportAnswer(c) PROVE FailuresChecked'
  <2>1. RefusalOf(call[c]) = "none" => FailureError(source, includeSystem) = "none"
    BY DEF RefusalOf
  <2>2. QED
    BY <1>3, <2>1 DEF QueryMatch, ReportAnswer, Reply
<1>4. ASSUME NEW c \in Clients, QueryAnswer(c) PROVE FailuresChecked'
  BY <1>4 DEF QueryAnswer, Reply
<1>5. ASSUME NEW c \in Clients, ListLabels(c) \/ Close(c) PROVE FailuresChecked'
  BY <1>5 DEF ListLabels, Close, Reply, ReadsGraph
<1>6. ASSUME NEW c \in Clients,
             \/ Enter(c) \/ Describe(c) \/ Leave(c) \/ Described(c)
             \/ QueryNothing(c) \/ QueryGlobal(c) \/ QuerySystem(c)
      PROVE  FailuresChecked'
  BY <1>6 DEF Enter, Describe, Leave, Described, QueryNothing, QueryGlobal, QuerySystem
<1>7. CASE UNCHANGED vars
  BY <1>7 DEF vars
<1>8. QED
  BY <1>1, <1>2, <1>3, <1>4, <1>5, <1>6, <1>7 DEF Next, Step

LEMMA Invariant == Spec => []IInv
<1>1. IInv /\ [Next]_vars => IInv'
  BY TypeStep, CacheStep, OpenStep, ClosedStep, CheckedStep DEF IInv
<1>2. QED
  BY InitIInv, <1>1, PTL DEF Spec

\* The mutex admits one client at a time, and every reply has its place.
THEOREM TypeCorrect == Spec => []TypeOK
<1>1. IInv => TypeOK
  BY DEF IInv
<1>2. QED
  BY Invariant, <1>1, PTL

\* No query ever intersects with a partial set left by an earlier one, given
\* up or not (invariantReach, compute.go:326-349).
THEOREM CachesAreWhole == Spec => []CacheIsWhole
<1>1. IInv => CacheIsWhole
  BY DEF IInv
<1>2. QED
  BY Invariant, <1>1, PTL

\* After Close no set is retained, however queries race with it
\* (snapshot.go:174-183).
THEOREM NothingHeldAfterClose == Spec => []ClosedHoldsNothing
<1>1. IInv => ClosedHoldsNothing
  BY DEF IInv
<1>2. QED
  BY Invariant, <1>1, PTL

\* Without a failure that counts, whatever the undecoded goroutines carried
\* would leave every selection as it is.
LEMMA NoFailureCounts ==
  ASSUME FailureError(source, includeSystem) = "none"
  PROVE  /\ source.failed \subseteq source.goroutines
         /\ \A L, want : Selected(Relabelled(L), includeSystem, want)
                          = Selected(source, includeSystem, want)
<1>1. EligibleFailures(source, includeSystem) = {}
  BY DEF FailureError
<1>2. \A g \in source.failed : g \in source.goroutines
                              /\ g \notin Eligible(source, includeSystem)
  BY <1>1 DEF EligibleFailures
<1>3. ASSUME NEW L, NEW want
      PROVE  Selected(Relabelled(L), includeSystem, want)
             = Selected(source, includeSystem, want)
  <2>1. Eligible(Relabelled(L), includeSystem) = Eligible(source, includeSystem)
    BY DEF Relabelled, Eligible, Excluded
  <2>2. \A g \in Eligible(source, includeSystem) :
          Relabelled(L).labels[g] = source.labels[g]
    BY <1>2 DEF Relabelled, Eligible
  <2>3. QED
    BY <2>1, <2>2 DEF Selected
<1>4. QED
  BY <1>2, <1>3

\* No answer depends on labels that could not be read: the ground for ignoring
\* the failures of excluded goroutines (compute.go:313-319).
THEOREM AnswersAreAuthoritative == Spec => []Authoritative
<1>1. IInv => Authoritative
  BY NoFailureCounts DEF IInv, FailuresChecked, Authoritative
<1>2. QED
  BY Invariant, <1>1, PTL

-----------------------------------------------------------------------------
(* The tables of Session, made by a fold, are the functions they stand for    *)

Picked(s) == CHOOSE x \in s : TRUE

\* A table over D in which the entries of s are filled in.
Filled(D, f, s) == [x \in D |-> IF x \in s THEN f[x] ELSE NoData]

\* The function such a fold is defined by: at s it fills in one more entry in
\* the table of the rest of s.
Tabulates(iter, D, f) ==
  \A s \in SUBSET D :
    iter[s] = IF s = {} THEN [x \in D |-> NoData]
              ELSE [iter[s \ {Picked(s)}] EXCEPT ![Picked(s)] = f[Picked(s)]]

LEMMA OneEntryMore ==
  ASSUME NEW D, NEW f, NEW s \in SUBSET D, s # {}
  PROVE  [Filled(D, f, s \ {Picked(s)}) EXCEPT ![Picked(s)] = f[Picked(s)]] = Filled(D, f, s)
<1>1. Picked(s) \in s
  BY DEF Picked
<1> HIDE DEF Picked
<1> QED BY <1>1 DEF Filled

\* There is one such function only.
LEMMA TablesAreFilled ==
  ASSUME NEW D, IsFiniteSet(D), NEW f, NEW iter, Tabulates(iter, D, f)
  PROVE  iter[D] = [x \in D |-> f[x]]
<1> DEFINE Wrong == {s \in SUBSET D : iter[s] # Filled(D, f, s)}
<1>1. Wrong = {}
  <2>1. SUFFICES ASSUME Wrong # {} PROVE FALSE
    OBVIOUS
  <2>2. Wrong \subseteq FiniteSubsetsOf(D)
    BY FS_FiniteSubsetsOfFinite
  <2>3. PICK s \in Wrong : \A t \in Wrong : ~ (<<t, s>> \in StrictSubsetOrdering(D))
    <3> HIDE DEF Wrong
    <3> QED BY <2>1, <2>2, FS_StrictSubsetOrderingWellFounded, WFMin
  <2>4. s # {}
    BY <2>3 DEF Tabulates, Filled
  <2>5. Picked(s) \in s
    BY <2>4 DEF Picked
  <2>6. <<s \ {Picked(s)}, s>> \in StrictSubsetOrdering(D)
    BY <2>3, <2>5 DEF StrictSubsetOrdering
  <2>7. iter[s \ {Picked(s)}] = Filled(D, f, s \ {Picked(s)})
    BY <2>3, <2>6
  <2>8. iter[s] = [iter[s \ {Picked(s)}] EXCEPT ![Picked(s)] = f[Picked(s)]]
    BY <2>3, <2>4 DEF Tabulates
  <2>9. s \in SUBSET D /\ iter[s] # Filled(D, f, s)
    BY <2>3
  <2> QED BY <2>4, <2>7, <2>8, <2>9, OneEntryMore
<1>2. iter[D] = Filled(D, f, D)
  BY <1>1
<1> QED BY <1>2 DEF Filled

LEMMA FillingTabulates ==
  ASSUME NEW D, NEW f
  PROVE  Tabulates([s \in SUBSET D |-> Filled(D, f, s)], D, f)
<1> SUFFICES ASSUME NEW s \in SUBSET D
             PROVE  Filled(D, f, s) =
                      IF s = {} THEN [x \in D |-> NoData]
                      ELSE [Filled(D, f, s \ {Picked(s)}) EXCEPT ![Picked(s)] = f[Picked(s)]]
  BY DEF Tabulates
<1>1. CASE s = {}
  BY <1>1 DEF Filled
<1>2. CASE s # {}
  BY <1>2, OneEntryMore
<1> QED BY <1>1, <1>2

LEMMA ReportTable ==
  ASSUME IsFiniteSet(Asked)
  PROVE  Reports = [x \in Asked |-> Report(x[1], x[2], x[3])]
<1> DEFINE f == [x \in Asked |-> Report(x[1], x[2], x[3])]
           Iter(g) == g = [s \in SUBSET Asked |->
             IF s = {} THEN [x \in Asked |-> NoData]
             ELSE [g[s \ {Picked(s)}] EXCEPT
                     ![Picked(s)] = Report(Picked(s)[1], Picked(s)[2], Picked(s)[3])]]
           iter == CHOOSE g : Iter(g)
<1>1. Reports = iter[Asked]
  BY DEF Reports, FoldSet, MapThenFoldSet, Picked
<1>2. \A s \in SUBSET Asked : s # {} => f[Picked(s)] = Report(Picked(s)[1], Picked(s)[2], Picked(s)[3])
  BY DEF Picked
<1>3. \E g : Iter(g)
  <2> DEFINE g == [s \in SUBSET Asked |-> Filled(Asked, f, s)]
  <2>1. \A s \in SUBSET Asked :
          g[s] = IF s = {} THEN [x \in Asked |-> NoData]
                 ELSE [g[s \ {Picked(s)}] EXCEPT
                         ![Picked(s)] = Report(Picked(s)[1], Picked(s)[2], Picked(s)[3])]
    <3> HIDE DEF g, f
    <3>1. Tabulates(g, Asked, f)
      BY FillingTabulates DEF g
    <3> QED BY <1>2, <3>1 DEF Tabulates
  <2>2. g = [s \in SUBSET Asked |-> g[s]]
    OBVIOUS
  <2>3. Iter(g)
    <3> HIDE DEF g
    <3> QED BY <2>1, <2>2
  <2> QED
    <3> HIDE DEF g, Iter
    <3> QED BY <2>3
<1>4. Iter(iter)
  <2> HIDE DEF Iter
  <2> QED BY <1>3
<1>5. Tabulates(iter, Asked, f)
  BY <1>2, <1>4 DEF Tabulates
<1> HIDE DEF iter, f
<1>6. iter[Asked] = [x \in Asked |-> f[x]]
  BY <1>5, TablesAreFilled
<1> QED BY <1>1, <1>6 DEF f

LEMMA TruthTable ==
  ASSUME IsFiniteSet(Answerable)
  PROVE  Truths = [x \in Answerable |-> TrueAnswers(x[1], x[2], x[3])]
<1> DEFINE f == [x \in Answerable |-> TrueAnswers(x[1], x[2], x[3])]
           Iter(g) == g = [s \in SUBSET Answerable |->
             IF s = {} THEN [x \in Answerable |-> NoData]
             ELSE [g[s \ {Picked(s)}] EXCEPT
                     ![Picked(s)] = TrueAnswers(Picked(s)[1], Picked(s)[2], Picked(s)[3])]]
           iter == CHOOSE g : Iter(g)
<1>1. Truths = iter[Answerable]
  BY DEF Truths, FoldSet, MapThenFoldSet, Picked
<1>2. \A s \in SUBSET Answerable : s # {} => f[Picked(s)] = TrueAnswers(Picked(s)[1], Picked(s)[2], Picked(s)[3])
  BY DEF Picked
<1>3. \E g : Iter(g)
  <2> DEFINE g == [s \in SUBSET Answerable |-> Filled(Answerable, f, s)]
  <2>1. \A s \in SUBSET Answerable :
          g[s] = IF s = {} THEN [x \in Answerable |-> NoData]
                 ELSE [g[s \ {Picked(s)}] EXCEPT
                         ![Picked(s)] = TrueAnswers(Picked(s)[1], Picked(s)[2], Picked(s)[3])]
    <3> HIDE DEF g, f
    <3>1. Tabulates(g, Answerable, f)
      BY FillingTabulates DEF g
    <3> QED BY <1>2, <3>1 DEF Tabulates
  <2>2. g = [s \in SUBSET Answerable |-> g[s]]
    OBVIOUS
  <2>3. Iter(g)
    <3> HIDE DEF g
    <3> QED BY <2>1, <2>2
  <2> QED
    <3> HIDE DEF g, Iter
    <3> QED BY <2>3
<1>4. Iter(iter)
  <2> HIDE DEF Iter
  <2> QED BY <1>3
<1>5. Tabulates(iter, Answerable, f)
  BY <1>2, <1>4 DEF Tabulates
<1> HIDE DEF iter, f
<1>6. iter[Answerable] = [x \in Answerable |-> f[x]]
  BY <1>5, TablesAreFilled
<1> QED BY <1>1, <1>6 DEF f

LEMMA TablesAreFinite ==
  ASSUME IsFiniteSet(Sources), IsFiniteSet(Calls)
  PROVE  IsFiniteSet(Asked) /\ IsFiniteSet(Answerable)
<1> DEFINE K == {k \in Calls : ReadsGraph(k) /\ k.op # "query"}
<1>1. IsFiniteSet(BOOLEAN)
  <2>1. BOOLEAN = {TRUE} \cup {FALSE}
    OBVIOUS
  <2>2. IsFiniteSet({TRUE}) /\ IsFiniteSet({FALSE})
    BY FS_Singleton
  <2> QED BY <2>1, <2>2, FS_Union
<1>2. IsFiniteSet(K)
  BY FS_Subset
<1> HIDE DEF K
<1>3. ASSUME NEW C, IsFiniteSet(C) PROVE IsFiniteSet(Sources \X BOOLEAN \X C)
  <2> DEFINE P == (Sources \X BOOLEAN) \X C
             T == Sources \X BOOLEAN \X C
             f == [p \in P |-> <<p[1][1], p[1][2], p[2]>>]
  <2>1. IsFiniteSet(P)
    <3>1. IsFiniteSet(Sources \X BOOLEAN)
      BY <1>1, FS_Product
    <3> QED BY <1>3, <3>1, FS_Product
  <2>2. f \in [P -> T]
    OBVIOUS
  <2>3. ASSUME NEW t \in T PROVE \E p \in P : f[p] = t
    <3> PICK a \in Sources, inc \in BOOLEAN, k \in C : t = <<a, inc, k>>
      OBVIOUS
    <3>1. <<<<a, inc>>, k>> \in P
      OBVIOUS
    <3>2. f[<<<<a, inc>>, k>>] = t
      OBVIOUS
    <3> QED BY <3>1, <3>2
  <2> HIDE DEF P, T, f
  <2>4. f \in Surjection(P, T)
    BY <2>2, <2>3 DEF Surjection
  <2>5. IsFiniteSet(T)
    BY <2>1, <2>4, FS_Surjection
  <2> QED BY <2>5 DEF T
<1> QED BY <1>2, <1>3 DEF Asked, Answerable, K

-----------------------------------------------------------------------------
(* The session implements its promise                                         *)

\* Query finds its candidates in the index of an open session.
LEMMA MatchIsChosen ==
  ASSUME IInv, PromiseInv, open, NEW want
  PROVE  Selected(source, includeSystem, want) \cap Candidates(want)
         = Chosen(source, includeSystem, want)
<1>1. index = BuildIndex(source, includeSystem)
  BY DEF PromiseInv
<1>2. Selected(source, includeSystem, want) = Chosen(source, includeSystem, want)
  BY SelectedIsChosen DEF IInv, TypeOK
<1>3. ASSUME NEW g \in Selected(source, includeSystem, want)
      PROVE  g \in Candidates(want)
  <2>1. g \in Eligible(source, includeSystem) /\ want \subseteq source.labels[g]
    BY <1>3 DEF Selected, LabelsMatch
  <2>2. g \in source.goroutines
    BY <2>1 DEF Eligible
  <2>3. ASSUME NEW q \in want PROVE <<q, g>> \in index
    <3>1. <<q, g>> \in source.labels[g] \X {g}
      BY <2>1
    <3> QED BY <1>1, <2>1, <3>1 DEF BuildIndex
  <2> QED BY <2>2, <2>3 DEF Candidates
<1> QED BY <1>2, <1>3

\* With nothing reachable, and with nobody to share with, there is no overlap.
LEMMA NoOverlaps ==
  ASSUME NEW a, NEW inc \in BOOLEAN, NEW want
  PROVE  LET match == TrueMatch(a, inc, want)
         IN /\ match.reachable = {} => match.global = {} /\ match.system = {}
            /\ inc \/ a.system = {} => match.system = {}
BY DEF TrueMatch, ReachedBy

\* The overlaps are intersections with the walks that the caches keep.
LEMMA OverlapsAreCached ==
  ASSUME NEW a, NEW inc \in BOOLEAN, NEW want
  PROVE  LET match == TrueMatch(a, inc, want)
         IN /\ match.matched = Chosen(a, inc, want)
            /\ match.reachable = Walk(RootsOf(a, Chosen(a, inc, want)))
            /\ match.global = match.reachable \cap Walk(a.globals)
            /\ ~inc => match.system = match.reachable \cap Walk(RootsOf(a, a.system))
<1> DEFINE R == ReachedBy(a, Chosen(a, inc, want))
<1>1. Walk(RootsOf(a, Chosen(a, inc, want))) = R /\ Walk(RootsOf(a, a.system)) = ReachedBy(a, a.system)
  BY OneWalkForAll
<1>2. R \subseteq Objects
  BY DEF ReachedBy
<1>3. {o \in R : GlobalReaches(a, o)} = R \cap Walk(a.globals)
  <2> HIDE DEF R
  <2> QED BY <1>2, GlobalWalk
<1> HIDE DEF R
<1>4. TrueMatch(a, inc, want) =
        [matched |-> Chosen(a, inc, want), reachable |-> R,
         global |-> {o \in R : GlobalReaches(a, o)},
         system |-> R \cap ReachedBy(a, IF inc THEN {} ELSE a.system)]
  BY DEF TrueMatch, R
<1> QED BY <1>1, <1>3, <1>4

\* Steps that leave the queries of all clients where they are.
LEMMA IndexStep ==
  IInv /\ PromiseInv /\ [Next]_vars =>
    /\ index' = IF open' THEN BuildIndex(source', includeSystem') ELSE {}
    /\ DOMAIN found' = Clients
<1> SUFFICES ASSUME IInv, PromiseInv, [Next]_vars
             PROVE  /\ index' = IF open' THEN BuildIndex(source', includeSystem') ELSE {}
                    /\ DOMAIN found' = Clients
  OBVIOUS
<1> USE DEF PromiseInv
<1>1. ASSUME NEW c \in Clients, Close(c)
      PROVE  open' = FALSE /\ index' = {} /\ found' = found
  BY <1>1 DEF Close
<1>2. CASE UNCHANGED <<open, index, source, includeSystem>> /\ DOMAIN found' = DOMAIN found
  BY <1>2
<1>3. QED
  BY <1>1, <1>2 DEF Next, Step, vars, sourceVars, Ask, Enter, Describe, Cancel, Leave,
     Described, Return, Refuse, QueryMatch, QueryNothing, QueryGlobal, QuerySystem,
     QueryAnswer, ReportAnswer, ListLabels

Told == {"leaving", "summarized", "described", "done"}

LEMMA PendingStep ==
  IInv /\ PromiseInv /\ [Next]_vars =>
    \A c \in Clients : at'[c] \notin Told => reply'[c] = Pending
<1> SUFFICES ASSUME IInv, PromiseInv, [Next]_vars
             PROVE  \A c \in Clients : at'[c] \notin Told => reply'[c] = Pending
  OBVIOUS
<1> USE DEF Told, Move, Say
<1>1. \A c \in Clients : at[c] \notin Told => reply[c] = Pending
  BY DEF PromiseInv
<1>2. DOMAIN reply = Clients /\ at \in [Clients -> Outside \cup Inside]
  BY DEF IInv, TypeOK
<1>3. ASSUME NEW c \in Clients, Return(c)
      PROVE  \A d \in Clients : at'[d] \notin Told => reply'[d] = Pending
  BY <1>1, <1>2, <1>3 DEF Return
<1>4. ASSUME NEW c \in Clients,
             \/ Cancel(c) \/ Refuse(c) \/ QueryAnswer(c) \/ ReportAnswer(c)
             \/ ListLabels(c) \/ Close(c)
      PROVE  \A d \in Clients : at'[d] \notin Told => reply'[d] = Pending
  BY <1>1, <1>2, <1>4 DEF Cancel, Refuse, QueryAnswer, ReportAnswer, ListLabels, Close
<1>5. ASSUME NEW c \in Clients,
             \/ Ask(c) \/ Enter(c) \/ Describe(c) \/ Leave(c) \/ Described(c)
             \/ QueryMatch(c) \/ QueryNothing(c) \/ QueryGlobal(c) \/ QuerySystem(c)
      PROVE  \A d \in Clients : at'[d] \notin Told => reply'[d] = Pending
  BY <1>1, <1>2, <1>5 DEF Ask, Enter, Describe, Leave, Described, QueryMatch,
     QueryNothing, QueryGlobal, QuerySystem
<1>6. CASE UNCHANGED vars
  BY <1>1, <1>6 DEF vars
<1> QED BY <1>3, <1>4, <1>5, <1>6 DEF Next, Step

\* A client that does not step, while nothing closes the session it queries.
LEMMA OthersFound ==
  ASSUME NEW d \in Clients, FoundBy(d), UNCHANGED <<source, includeSystem>>,
         at'[d] = at[d], call'[d] = call[d], found'[d] = found[d],
         at[d] \in {"matched", "weighed", "compared"} => open' = open
  PROVE  FoundBy(d)'
BY DEF FoundBy

\* What a query finds next does not depend on what the caches already hold.
LEMMA MatchFinds ==
  ASSUME IInv, PromiseInv, NEW c \in Clients, QueryMatch(c) PROVE FoundBy(c)'
<1> DEFINE want == call[c].want
           match == TrueMatch(source, includeSystem, want)
<1>1. open /\ call[c].op = "query" /\ want # {}
  BY DEF QueryMatch, RefusalOf, BadSelector
<1>2. UNCHANGED <<source, includeSystem, open, call>>
  BY DEF QueryMatch, sourceVars
<1>3. at'[c] = "matched"
  BY DEF QueryMatch, Move, IInv, TypeOK
<1>4. Selected(source, includeSystem, want) \cap Candidates(want)
      = Chosen(source, includeSystem, want)
  BY <1>1, MatchIsChosen
<1>5. /\ match.matched = Chosen(source, includeSystem, want)
      /\ match.reachable = Walk(RootsOf(source, Chosen(source, includeSystem, want)))
  <2>1. includeSystem \in BOOLEAN
    BY DEF IInv, TypeOK
  <2> QED BY <2>1, OverlapsAreCached
<1>6. found'[c] = [Nothing EXCEPT !.matched = match.matched, !.reachable = match.reachable]
  <2> HIDE DEF match
  <2> QED BY <1>4, <1>5 DEF QueryMatch, PromiseInv
<1>7. found'[c] = [matched |-> match.matched, reachable |-> match.reachable,
                   global |-> {}, system |-> {}]
  <2> HIDE DEF match
  <2> QED BY <1>6 DEF Nothing
<1> QED BY <1>1, <1>2, <1>3, <1>7 DEF FoundBy

LEMMA NothingFinds ==
  ASSUME IInv, PromiseInv, NEW c \in Clients, QueryNothing(c) PROVE FoundBy(c)'
<1> DEFINE match == TrueMatch(source, includeSystem, call[c].want)
<1>1. at[c] = "matched" /\ at'[c] = "compared" /\ found[c].reachable = {}
  BY DEF QueryNothing, Move, IInv, TypeOK
<1>2. UNCHANGED <<source, includeSystem, open, call, found>>
  BY DEF QueryNothing, sourceVars
<1>3. /\ open /\ call[c].op = "query" /\ call[c].want # {}
      /\ found[c] = [matched |-> match.matched, reachable |-> match.reachable,
                     global |-> {}, system |-> {}]
  BY <1>1 DEF PromiseInv, FoundBy
<1>4. match.global = {} /\ match.system = {}
  <2>1. match.reachable = {}
    <3> HIDE DEF match
    <3> QED BY <1>1, <1>3
  <2> QED BY ZenonT(60), <2>1, NoOverlaps DEF IInv, TypeOK
<1> HIDE DEF match
<1>5. found'[c] = [matched |-> match.matched, reachable |-> match.reachable,
                   global |-> match.global, system |-> match.system]
  BY <1>2, <1>3, <1>4
<1> QED BY <1>1, <1>2, <1>3, <1>5 DEF FoundBy, match

LEMMA GlobalFinds ==
  ASSUME IInv, PromiseInv, NEW c \in Clients, QueryGlobal(c) PROVE FoundBy(c)'
<1> DEFINE match == TrueMatch(source, includeSystem, call[c].want)
           global == IF cache.global # NotCached THEN cache.global ELSE Walk(source.globals)
<1>1. at[c] = "matched" /\ at'[c] = "weighed"
  BY DEF QueryGlobal, Move, IInv, TypeOK
<1>2. UNCHANGED <<source, includeSystem, open, call>>
  BY DEF QueryGlobal, sourceVars
<1>3. /\ open /\ call[c].op = "query" /\ call[c].want # {}
      /\ found[c] = [matched |-> match.matched, reachable |-> match.reachable,
                     global |-> {}, system |-> {}]
  BY <1>1 DEF PromiseInv, FoundBy
<1>4. match.global = match.reachable \cap global
  <2>1. global = Walk(source.globals)
    BY DEF IInv, CacheIsWhole
  <2> QED BY <2>1, OverlapsAreCached DEF IInv, TypeOK
<1> HIDE DEF match
<1>5. found'[c] = [found[c] EXCEPT !.global = found[c].reachable \cap global]
  BY DEF QueryGlobal, PromiseInv
<1> HIDE DEF global
<1>6. found'[c] = [matched |-> match.matched, reachable |-> match.reachable,
                   global |-> match.global, system |-> {}]
  BY <1>3, <1>4, <1>5
<1> QED BY <1>1, <1>2, <1>3, <1>6 DEF FoundBy, match

LEMMA SystemFinds ==
  ASSUME IInv, PromiseInv, NEW c \in Clients, QuerySystem(c) PROVE FoundBy(c)'
<1> DEFINE match == TrueMatch(source, includeSystem, call[c].want)
           system == IF cache.system # NotCached THEN cache.system
                     ELSE Walk(RootsOf(source, source.system))
<1>1. at[c] = "weighed" /\ at'[c] = "compared"
  BY DEF QuerySystem, Move, IInv, TypeOK
<1>2. UNCHANGED <<source, includeSystem, open, call>>
  BY DEF QuerySystem, sourceVars
<1>3. /\ open /\ call[c].op = "query" /\ call[c].want # {}
      /\ found[c] = [matched |-> match.matched, reachable |-> match.reachable,
                     global |-> match.global, system |-> {}]
  BY <1>1 DEF PromiseInv, FoundBy
<1>4. match.system = IF ~includeSystem /\ source.system # {}
                     THEN match.reachable \cap system ELSE {}
  <2>1. system = Walk(RootsOf(source, source.system))
    BY DEF IInv, CacheIsWhole
  <2>2. includeSystem \in BOOLEAN
    BY DEF IInv, TypeOK
  <2> HIDE DEF system
  <2>3. ~includeSystem => match.system = match.reachable \cap system
    BY <2>1, <2>2, OverlapsAreCached
  <2>4. includeSystem \/ source.system = {} => match.system = {}
    BY <2>2, NoOverlaps
  <2> HIDE DEF match
  <2> QED BY <2>2, <2>3, <2>4
<1>5. found'[c] = IF ~includeSystem /\ source.system # {}
                  THEN [found[c] EXCEPT !.system = found[c].reachable \cap system]
                  ELSE found[c]
  BY DEF QuerySystem, PromiseInv
<1> HIDE DEF match, system
<1>6. found'[c] = [matched |-> match.matched, reachable |-> match.reachable,
                   global |-> match.global, system |-> match.system]
  BY <1>3, <1>4, <1>5
<1> QED BY <1>1, <1>2, <1>3, <1>6 DEF FoundBy, match

\* A Close finds no query under way: the one that runs holds mu.
LEMMA FoundStep ==
  IInv /\ PromiseInv /\ [Next]_vars => \A d \in Clients : FoundBy(d)'
<1> SUFFICES ASSUME IInv, PromiseInv, [Next]_vars, NEW d \in Clients PROVE FoundBy(d)'
  OBVIOUS
<1> USE DEF Move
<1>1. FoundBy(d) /\ DOMAIN found = Clients
  BY DEF PromiseInv
<1>2. /\ DOMAIN call = Clients /\ at \in [Clients -> Outside \cup Inside]
      /\ at[d] \in Inside => lock = d
  BY DEF IInv, TypeOK
<1>3. ASSUME NEW c \in Clients,
             \/ Ask(c) \/ Enter(c) \/ Describe(c) \/ Cancel(c) \/ Leave(c) \/ Described(c)
             \/ Return(c) \/ Refuse(c) \/ QueryAnswer(c) \/ ReportAnswer(c) \/ ListLabels(c)
      PROVE  FoundBy(d)'
  <2>1. /\ UNCHANGED <<source, includeSystem, open>>
        /\ at' = [at EXCEPT ![c] = at'[c]]
        /\ at'[c] \notin {"matched", "weighed", "compared"}
        /\ c # d => call'[d] = call[d] /\ found'[d] = found[d]
    BY <1>1, <1>2, <1>3 DEF Ask, Enter, Describe, Cancel, Leave, Described, Return, Refuse,
       QueryAnswer, ReportAnswer, ListLabels, sourceVars
  <2>2. CASE c = d
    BY <2>1, <2>2 DEF FoundBy
  <2>3. CASE c # d
    <3>1. at'[d] = at[d]
      BY <1>2, <2>1, <2>3
    <3> QED BY <1>1, <2>1, <2>3, <3>1, OthersFound
  <2> QED BY <2>2, <2>3
<1>4. ASSUME NEW c \in Clients,
             QueryMatch(c) \/ QueryNothing(c) \/ QueryGlobal(c) \/ QuerySystem(c)
      PROVE  FoundBy(d)'
  <2>1. CASE c = d
    BY <1>4, <2>1, MatchFinds, NothingFinds, GlobalFinds, SystemFinds
  <2>2. CASE c # d
    <3>1. /\ UNCHANGED <<source, includeSystem, open, call>>
          /\ at'[d] = at[d] /\ found'[d] = found[d]
      BY <1>1, <1>2, <1>4, <2>2 DEF QueryMatch, QueryNothing, QueryGlobal, QuerySystem, sourceVars
    <3> QED BY <1>1, <3>1, OthersFound
  <2> QED BY <2>1, <2>2
<1>5. ASSUME NEW c \in Clients, Close(c) PROVE FoundBy(d)'
  <2>1. at[c] = "entered" /\ at' = [at EXCEPT ![c] = "leaving"] /\ lock = c
    BY <1>5 DEF Close, IInv, TypeOK, Inside
  <2>2. UNCHANGED <<source, includeSystem, call, found>>
    BY <1>5 DEF Close, sourceVars
  <2>3. CASE c = d
    BY <1>2, <2>1, <2>3 DEF FoundBy
  <2>4. CASE c # d
    <3>1. at'[d] = at[d] /\ at[d] \notin {"matched", "weighed", "compared"}
      BY <1>2, <2>1, <2>4 DEF Inside
    <3> QED BY <1>1, <2>2, <3>1, OthersFound
  <2> QED BY <2>3, <2>4
<1>6. CASE UNCHANGED vars
  BY <1>1, <1>6, OthersFound DEF vars
<1> QED BY <1>3, <1>4, <1>5, <1>6 DEF Next, Step

LEMMA PromiseInvariant == Spec => []PromiseInv
<1>1. Init => PromiseInv
  BY DEF Init, PromiseInv, FoundBy
<1>2. IInv /\ PromiseInv /\ [Next]_vars => PromiseInv'
  BY IndexStep, PendingStep, FoundStep DEF PromiseInv, Told
<1> QED BY Invariant, <1>1, <1>2, PTL DEF Spec

LEMMA PromisedAnswers ==
  ASSUME Hypotheses, TypeOK, NEW k \in Calls
  PROVE  Promise!True(k) = TrueAnswers(source, includeSystem, k)
<1>1. Truths = [x \in Answerable |-> TrueAnswers(x[1], x[2], x[3])]
  BY TablesAreFinite, TruthTable DEF Hypotheses
<1>2. <<source, includeSystem, k>> \in Answerable
  BY DEF TypeOK, Answerable
<1> QED BY <1>1, <1>2 DEF Promise!True

\* Every refusal has its reason: bad options or selectors have no answer, and
\* labels that count were not decoded.
LEMMA RefusalsAreExcused ==
  ASSUME Hypotheses, TypeOK, NEW k \in Calls, ReadsGraph(k), RefusalOf(k) # "none"
  PROVE  RefusalOf(k) \in Promise!Excuses(k)
<1>1. Promise!True(k) = TrueAnswers(source, includeSystem, k)
  BY PromisedAnswers
<1>2. BadOptions(k) \/ BadSelector(k) => TrueAnswers(source, includeSystem, k) = {}
  <2>1. BadOptions(k) => TrueAnswers(source, includeSystem, k) = {}
    BY DEF BadOptions, TrueAnswers, Unless
  <2>2. BadSelector(k) => TrueAnswers(source, includeSystem, k) = {}
    BY DEF BadSelector, TrueAnswers, Unless
  <2> QED BY <2>1, <2>2
<1>3. ASSUME NEW g \in EligibleFailures(source, includeSystem)
      PROVE  g \notin Promise!Ignored
  <2>1. source.system \subseteq source.goroutines
    BY DEF Hypotheses, SourcesAreSound, SoundSource, TypeOK
  <2> QED BY <1>3, <2>1 DEF EligibleFailures, Eligible, Excluded, Promise!Ignored
<1>4. FailureError(source, includeSystem) = "string_missing"
      => ~(source.missing \subseteq Promise!Ignored)
  BY <1>3 DEF FailureError
<1>5. FailureError(source, includeSystem) = "label_recovery_failed"
      => ~(source.failed \subseteq Promise!Ignored)
  BY <1>3 DEF FailureError, EligibleFailures
<1>6. FailureError(source, includeSystem) \in {"string_missing", "label_recovery_failed", "none"}
  BY DEF FailureError
<1> QED BY <1>1, <1>2, <1>4, <1>5, <1>6 DEF RefusalOf, Promise!Excuses

\* Every report is an answer that is true.
LEMMA ReportsArePromised ==
  ASSUME Hypotheses, TypeOK, NEW k \in Calls, ReadsGraph(k), k.op # "query",
         RefusalOf(k) = "none"
  PROVE  Reports[<<source, includeSystem, k>>] \in Promise!True(k)
<1>1. ~BadOptions(k) /\ ~BadSelector(k)
  BY DEF RefusalOf, FailureError
<1>2. Reports[<<source, includeSystem, k>>] = Report(source, includeSystem, k)
  <2>1. Reports = [x \in Asked |-> Report(x[1], x[2], x[3])]
    BY TablesAreFinite, ReportTable DEF Hypotheses
  <2>2. <<source, includeSystem, k>> \in Asked
    BY DEF TypeOK, Asked
  <2> QED BY <2>1, <2>2
<1>3. CASE k.op \in {"inspect", "export"}
  <2>1. Report(source, includeSystem, k) = TrueInspection(source, includeSystem, k.want)
    <3>1. source.system \subseteq source.goroutines
      BY DEF Hypotheses, SourcesAreSound, SoundSource, TypeOK
    <3>2. Report(source, includeSystem, k) = Inspect(source, includeSystem, k.want)
      BY <1>3 DEF Report
    <3>3. includeSystem \in BOOLEAN
      BY DEF TypeOK
    <3> QED BY <3>1, <3>2, <3>3, InspectionIsTrue
  <2>2. k.want # {}
    BY <1>1, <1>3 DEF BadSelector
  <2> QED BY <1>2, <1>3, <2>1, <2>2, PromisedAnswers DEF TrueAnswers, Unless
<1>4. CASE k.op = "top"
  <2>1. /\ k.by # "none" /\ k.sort \in Sorts /\ ~(k.limit < 0)
        /\ k.limit \in Int /\ SoundSource(source) /\ includeSystem \in BOOLEAN
    BY <1>1, <1>4 DEF BadOptions, CallIsSound, Hypotheses, SourcesAreSound, TypeOK
  <2>2. k.limit \in Nat
    BY <2>1
  <2>3. Report(source, includeSystem, k)
        = TopGroups(source, includeSystem, k.by, k.sort, k.limit)
    BY <1>4 DEF Report
  <2>4. TopGroups(source, includeSystem, k.by, k.sort, k.limit)
        \in TrueRankings(source, includeSystem, k.by, k.sort, k.limit)
    BY <2>1, <2>2, TopIsTrue DEF Hypotheses
  <2>5. TrueAnswers(source, includeSystem, k)
        = TrueRankings(source, includeSystem, k.by, k.sort, k.limit)
    BY <1>4, <2>1 DEF TrueAnswers, Unless
  <2> QED BY <1>2, <2>3, <2>4, <2>5, PromisedAnswers
<1>5. SoundSource(source) /\ includeSystem \in BOOLEAN /\ GraphIsSound /\ CallIsSound(k)
  BY DEF Hypotheses, SourcesAreSound, TypeOK
<1>6. CASE k.op = "objects"
  <2>1. k.limit \in Nat /\ k.groupLimit \in Nat
    BY <1>5, <1>6 DEF CallIsSound
  <2>2. Report(source, includeSystem, k) = TrueListing(source, includeSystem, k, k.sort)
    <3>1. Report(source, includeSystem, k)
          = ObjectList(source, includeSystem, Surroundings(source, includeSystem, k.want), k.sort, k)
      BY <1>6 DEF Report
    <3> QED BY <1>5, <2>1, <3>1, ListingIsTrue
  <2>3. k.want # {}
    BY <1>1, <1>6 DEF BadSelector
  <2>4. TrueAnswers(source, includeSystem, k) = {TrueListing(source, includeSystem, k, k.sort)}
    BY <1>6, <2>3 DEF TrueAnswers, Unless
  <2> QED BY <1>2, <2>2, <2>4, PromisedAnswers
<1>7. CASE k.op = "shared"
  <2>1. {} \notin {k.want, k.with} /\ ~(k.limit < 0) /\ k.limit \in Nat
    BY <1>1, <1>5, <1>7 DEF BadOptions, BadSelector, CallIsSound
  <2>2. Report(source, includeSystem, k) = TrueShared(source, includeSystem, k)
    <3>1. Report(source, includeSystem, k) = SharedObjects(source, includeSystem, k)
      BY <1>7 DEF Report
    <3> QED BY <1>5, <2>1, <3>1, SharedIsTrue
  <2>3. TrueAnswers(source, includeSystem, k) = {TrueShared(source, includeSystem, k)}
    BY <1>7, <2>1 DEF TrueAnswers, Unless
  <2> QED BY <1>2, <2>2, <2>3, PromisedAnswers
<1>8. CASE k.op = "explain"
  <2>1. PathLimits(k) /\ IsList(k.selectors)
    BY <1>5, <1>8 DEF CallIsSound, IsList
  <2>2. k.object \in Objects /\ ~(k.selectors = <<>> \/ {} \in Range(k.selectors))
    BY <1>1, <1>8 DEF BadSelector
  <2>3. Report(source, includeSystem, k)
        = TrueExplanation(source, includeSystem, k, k.object, k.selectors)
    <3>1. Report(source, includeSystem, k)
          = ExplainObject(source, includeSystem, k.object, k.selectors,
                          Surroundings(source, includeSystem, k.selectors[1]), k)
      BY <1>8 DEF Report, Explain
    <3> QED BY <1>5, <2>1, <2>2, <3>1, ExplanationIsTrue
  <2>4. TrueAnswers(source, includeSystem, k)
        = {TrueExplanation(source, includeSystem, k, o, k.selectors) : o \in Objects \cap {k.object}}
    BY <1>8, <2>2 DEF TrueAnswers, Unless
  <2> QED BY <1>2, <2>2, <2>3, <2>4, PromisedAnswers
<1>9. CASE k.op = "explaintop"
  <2>1. PathLimits(k) /\ k.limit \in Nat \ {0} /\ k.representatives \in Nat \ {0}
    BY <1>5, <1>9 DEF CallIsSound
  <2>2. Report(source, includeSystem, k) = TrueTop(source, includeSystem, k)
    <3>1. Report(source, includeSystem, k) = ExplainTop(source, includeSystem, k)
      BY <1>9 DEF Report
    <3> QED BY <1>5, <2>1, <3>1, ExplainTopIsTrue
  <2>3. k.want # {}
    BY <1>1, <1>9 DEF BadSelector
  <2>4. TrueAnswers(source, includeSystem, k) = {TrueTop(source, includeSystem, k)}
    BY <1>9, <2>3 DEF TrueAnswers, Unless
  <2> QED BY <1>2, <2>2, <2>4, PromisedAnswers
<1> QED BY <1>3, <1>4, <1>5, <1>6, <1>7, <1>8, <1>9 DEF CallIsSound, Operations, ReadsGraph

\* A client inside the mutex that is told one of the outcomes of its call.
LEMMA TellingDecides ==
  ASSUME IInv, PromiseInv, NEW c \in Clients, at[c] \in Inside \ Told,
         NEW r \in Promise!Outcomes(call[c]), Say(c, r), UNCHANGED <<source, includeSystem, call>>,
         open' = (open /\ call[c].op # "close")
  PROVE  Promise!Next
<1>1. call[c] # NoCall
  BY DEF IInv, TypeOK, Told, Inside
<1>2. reply[c] = Promise!Pending
  BY DEF PromiseInv, Told, Pending, Promise!Pending
<1>3. Promise!Decide(c)
  BY <1>1, <1>2 DEF Promise!Decide, Say
<1> QED BY <1>3 DEF Promise!Next

LEMMA CalledHasCall ==
  ASSUME IInv, NEW c \in Clients, at[c] \in Inside PROVE call[c] \in Calls
BY DEF IInv, TypeOK, Inside

LEMMA OpenIsBoolean == IInv => open \in BOOLEAN
BY DEF IInv, TypeOK

LEMMA RefuseDecides ==
  ASSUME Hypotheses, IInv, PromiseInv, NEW c \in Clients, Refuse(c) PROVE Promise!Next
<1>1. at[c] \in Inside \ Told /\ ReadsGraph(call[c]) /\ RefusalOf(call[c]) # "none"
  BY DEF Refuse, Move, Inside, Told
<1>2. call[c] \in Calls
  BY <1>1, CalledHasCall
<1>3. RefusalOf(call[c]) \in Promise!Excuses(call[c])
  BY <1>1, <1>2, RefusalsAreExcused DEF IInv
<1>4. Refusal(RefusalOf(call[c])) \in Promise!Outcomes(call[c])
  BY <1>1, <1>3 DEF Promise!Outcomes, ReadsGraph, Refusal, Promise!Refusal
<1>5. /\ Say(c, Refusal(RefusalOf(call[c]))) /\ UNCHANGED <<source, includeSystem, call>>
      /\ open' = (open /\ call[c].op # "close")
  BY <1>1, OpenIsBoolean DEF Refuse, sourceVars, ReadsGraph
<1> QED BY <1>1, <1>4, <1>5, TellingDecides

LEMMA CancelDecides ==
  ASSUME IInv, PromiseInv, NEW c \in Clients, Cancel(c) PROVE Promise!Next
<1>1. at[c] \in Inside \ Told /\ ReadsGraph(call[c])
  BY DEF Cancel, Move, Inside, Told
<1>2. Refusal("cancelled") \in Promise!Outcomes(call[c])
  <2>1. "cancelled" \in Promise!Excuses(call[c])
    BY DEF Promise!Excuses
  <2> QED BY <1>1, <2>1 DEF Promise!Outcomes, ReadsGraph, Refusal, Promise!Refusal
<1>3. /\ Say(c, Refusal("cancelled")) /\ UNCHANGED <<source, includeSystem, call>>
      /\ open' = (open /\ call[c].op # "close")
  BY <1>1, OpenIsBoolean DEF Cancel, sourceVars, ReadsGraph
<1> QED BY <1>1, <1>2, <1>3, TellingDecides

\* What a query tells is the true match, in a session that is still open.
LEMMA QueryDecides ==
  ASSUME Hypotheses, IInv, PromiseInv, NEW c \in Clients, QueryAnswer(c) PROVE Promise!Next
<1>1. at[c] = "compared" /\ at[c] \in Inside \ Told
  BY DEF QueryAnswer, Move, Inside, Told
<1>2. call[c] \in Calls
  BY <1>1, CalledHasCall
<1>3. open /\ call[c].op = "query" /\ call[c].want # {}
  BY <1>1 DEF PromiseInv, FoundBy
<1>4. found[c] = TrueMatch(source, includeSystem, call[c].want)
  <2> DEFINE match == TrueMatch(source, includeSystem, call[c].want)
  <2>1. found[c] = [matched |-> match.matched, reachable |-> match.reachable,
                    global |-> match.global, system |-> match.system]
    BY <1>1 DEF PromiseInv, FoundBy
  <2>2. match = [matched |-> match.matched, reachable |-> match.reachable,
                 global |-> match.global, system |-> match.system]
    BY DEF TrueMatch
  <2> HIDE DEF match
  <2> QED BY <2>1, <2>2 DEF match
<1>5. Promise!True(call[c]) = {found[c]}
  BY <1>2, <1>3, <1>4, PromisedAnswers DEF TrueAnswers, Unless, IInv
<1>6. Reply(found[c]) \in Promise!Outcomes(call[c])
  BY <1>3, <1>5 DEF Promise!Outcomes, Reply, Promise!Reply
<1>7. /\ Say(c, Reply(found[c])) /\ UNCHANGED <<source, includeSystem, call>>
      /\ open' = (open /\ call[c].op # "close")
  BY <1>3 DEF QueryAnswer, sourceVars
<1> QED BY <1>1, <1>6, <1>7, TellingDecides

LEMMA ReportDecides ==
  ASSUME Hypotheses, IInv, PromiseInv, NEW c \in Clients, ReportAnswer(c) PROVE Promise!Next
<1> DEFINE answer == Reports[<<source, includeSystem, call[c]>>]
<1>1. /\ at[c] \in Inside \ Told /\ ReadsGraph(call[c]) /\ call[c].op # "query"
      /\ RefusalOf(call[c]) = "none"
  BY DEF ReportAnswer, Move, Inside, Told
<1>2. call[c] \in Calls
  BY <1>1, CalledHasCall
<1>3. open
  BY <1>1 DEF RefusalOf
<1>4. answer \in Promise!True(call[c])
  BY <1>1, <1>2, ReportsArePromised DEF IInv
<1> HIDE DEF answer
<1>5. Reply(answer) \in Promise!Outcomes(call[c])
  BY <1>1, <1>3, <1>4 DEF Promise!Outcomes, Reply, Promise!Reply, ReadsGraph
<1>6. /\ Say(c, Reply(answer)) /\ UNCHANGED <<source, includeSystem, call>>
      /\ open' = (open /\ call[c].op # "close")
  BY <1>1, <1>3 DEF ReportAnswer, sourceVars, ReadsGraph, answer
<1> QED BY <1>1, <1>5, <1>6, TellingDecides

\* The index of an open session lists the labels of those that may match; that
\* of a closed one lists nothing.
LEMMA LabelsDecide ==
  ASSUME Hypotheses, IInv, PromiseInv, NEW c \in Clients, ListLabels(c) PROVE Promise!Next
<1>1. at[c] \in Inside \ Told /\ call[c].op = "labels"
  BY DEF ListLabels, Move, Inside, Told
<1>2. call[c] \in Calls
  BY <1>1, CalledHasCall
<1>3. BuildIndex(source, includeSystem) = TrueLabels(source, includeSystem)
  <2>1. Selected(source, includeSystem, {}) = Eligible(source, includeSystem)
    BY DEF Selected, LabelsMatch
  <2>2. Selected(source, includeSystem, {}) = Chosen(source, includeSystem, {})
    BY SelectedIsChosen DEF IInv, TypeOK
  <2> QED BY <2>1, <2>2 DEF BuildIndex, TrueLabels
<1>4. Promise!True(call[c]) = {TrueLabels(source, includeSystem)}
  BY <1>1, <1>2, PromisedAnswers DEF TrueAnswers, IInv
<1>5. index \in IF open THEN Promise!True(call[c]) ELSE {{}}
  BY <1>3, <1>4 DEF PromiseInv
<1>6. Reply(index) \in Promise!Outcomes(call[c])
  BY <1>1, <1>5 DEF Promise!Outcomes, Reply, Promise!Reply
<1>7. /\ Say(c, Reply(index)) /\ UNCHANGED <<source, includeSystem, call>>
      /\ open' = (open /\ call[c].op # "close")
  BY <1>1, OpenIsBoolean DEF ListLabels, sourceVars
<1> QED BY <1>1, <1>6, <1>7, TellingDecides

LEMMA CloseDecides ==
  ASSUME IInv, PromiseInv, NEW c \in Clients, Close(c) PROVE Promise!Next
<1>1. at[c] \in Inside \ Told /\ call[c].op = "close"
  BY DEF Close, Move, Inside, Told
<1>2. Reply(NoData) \in Promise!Outcomes(call[c])
  BY <1>1 DEF Promise!Outcomes, Reply, Promise!Reply
<1>3. /\ Say(c, Reply(NoData)) /\ UNCHANGED <<source, includeSystem, call>>
      /\ open' = (open /\ call[c].op # "close")
  BY <1>1 DEF Close, sourceVars
<1> QED BY <1>1, <1>2, <1>3, TellingDecides

LEMMA AskAsks ==
  ASSUME IInv, NEW c \in Clients, Ask(c) PROVE Promise!Next
<1>1. call[c] = NoCall
  BY DEF Ask, Move, IInv, TypeOK
<1>2. Promise!Ask(c) /\ UNCHANGED <<source, includeSystem>>
  BY <1>1 DEF Ask, Promise!Ask, sourceVars
<1> QED BY <1>2 DEF Promise!Next

LEMMA ReturnReturns ==
  ASSUME IInv, NEW c \in Clients, Return(c) PROVE Promise!Next
<1>1. reply[c] # Promise!Pending
  BY DEF Return, Move, IInv, TypeOK, Promise!Pending
<1>2. Promise!Return(c) /\ UNCHANGED <<source, includeSystem>>
  BY <1>1 DEF Return, Promise!Return, Say, sourceVars, Pending, Promise!Pending
<1> QED BY <1>2 DEF Promise!Next

\* Taking and leaving the mutex, and the work in between, is nobody's business.
LEMMA StepImplements ==
  ASSUME Hypotheses
  PROVE  IInv /\ PromiseInv /\ [Next]_vars => [Promise!Next]_(Promise!vars)
<1> SUFFICES ASSUME IInv, PromiseInv, [Next]_vars PROVE [Promise!Next]_(Promise!vars)
  OBVIOUS
<1>1. ASSUME NEW c \in Clients,
             \/ Ask(c) \/ Return(c) \/ Refuse(c) \/ Cancel(c) \/ QueryAnswer(c)
             \/ ReportAnswer(c) \/ ListLabels(c) \/ Close(c)
      PROVE  Promise!Next
  BY <1>1, AskAsks, ReturnReturns, RefuseDecides, CancelDecides, QueryDecides,
     ReportDecides, LabelsDecide, CloseDecides
<1>2. ASSUME NEW c \in Clients,
             \/ Enter(c) \/ Describe(c) \/ Leave(c) \/ Described(c) \/ QueryMatch(c)
             \/ QueryNothing(c) \/ QueryGlobal(c) \/ QuerySystem(c)
      PROVE  UNCHANGED Promise!vars
  BY <1>2 DEF Enter, Describe, Leave, Described, QueryMatch, QueryNothing, QueryGlobal,
     QuerySystem, sourceVars, Promise!vars
<1>3. CASE UNCHANGED vars
  BY <1>3 DEF vars, Promise!vars
<1> QED BY <1>1, <1>2, <1>3 DEF Next, Step

\* Whatever the clients do with the session at the same time, each call takes
\* effect at one instant, with an answer that is true of the loaded analysis or
\* a refusal whose reason holds, and none after the Close (snapshot.go:17-20).
THEOREM SessionImplementsPromise ==
  ASSUME Hypotheses PROVE Spec => KeepsPromise
<1>1. Init => Promise!Init
  BY DEF Init, Promise!Init, Pending, Promise!Pending
<1>2. IInv /\ PromiseInv /\ [Next]_vars => [Promise!Next]_(Promise!vars)
  BY StepImplements
<1> QED BY Invariant, PromiseInvariant, <1>1, <1>2, PTL DEF Spec, KeepsPromise, Promise!Spec

==============================================================================
