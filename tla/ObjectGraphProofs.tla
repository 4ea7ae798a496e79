-------------------------- MODULE ObjectGraphProofs --------------------------
(***************************************************************************)
(* Proofs about the package snapshotgraph: ObjectGraph, for dumps of any   *)
(* size, and at the end Reach, for graphs of any size.                     *)
(*                                                                         *)
(* Every result about ObjectGraph rests on Base, which says that at each   *)
(* step the lookup mirrors the objects indexed so far: exactly those at an *)
(* address of their own, and not 0, by address, and a range for each of    *)
(* them that has a size. On top of it                                      *)
(*   - Sweeping: the ranges reported are those, of the ranges passed, that *)
(*     start inside another, and maxEnd is the furthest end of the passed; *)
(*   - Clean: a strict build that goes on has reported no defect;          *)
(*   - Stamped, StampedOnly: the targets stamped with the epoch at hand    *)
(*     are the children of the source at hand;                             *)
(*   - Linked, Counted, StackRooted, GlobalRooted, Summed: what is built   *)
(*     of the words handled so far, which grow by one a step.              *)
(* The model folds over sequences and sets. What those folds compute is    *)
(* proved by induction over the naturals, which the library's theorem on   *)
(* the well-foundedness of strict subsets gives without a predicate        *)
(* parameter.                                                              *)
(***************************************************************************)
EXTENDS ObjectGraph, Reach, FiniteSetTheorems, TLAPS

-----------------------------------------------------------------------------
(* Induction and folds *)

\* Induction over the naturals, for the set of those that have a property.
LEMMA SetInduction ==
  ASSUME NEW S, 0 \in S, \A n \in Nat : n \in S => n + 1 \in S
  PROVE  Nat \subseteq S
<1>1. SUFFICES ASSUME NEW m \in Nat, m \notin S PROVE FALSE
  OBVIOUS
<1> DEFINE F == {T \in SUBSET (0 .. m) : \E i \in 0 .. m : T = 0 .. i /\ i \notin S}
<1>2. 0 .. m \in F
  BY <1>1
<1>3. F \subseteq FiniteSubsetsOf(0 .. m)
  BY FS_Interval, FS_FiniteSubsetsOfFinite
<1>4. PICK T \in F : \A U \in F : ~ (<<U, T>> \in StrictSubsetOrdering(0 .. m))
  <2> HIDE DEF F
  <2> QED BY <1>2, <1>3, FS_StrictSubsetOrderingWellFounded, WFMin
<1>5. PICK i \in 0 .. m : T = 0 .. i /\ i \notin S
  BY <1>4
<1>6. i # 0 /\ i - 1 \in Nat /\ i - 1 \notin S
  BY <1>5
<1>7. 0 .. (i - 1) \in F
  BY <1>5, <1>6
<1>8. <<0 .. (i - 1), T>> \in StrictSubsetOrdering(0 .. m)
  BY <1>5, <1>6 DEF StrictSubsetOrdering
<1> QED BY <1>4, <1>7, <1>8

\* A nonempty set of numbers up to n has a greatest element.
LEMMA MaxExists ==
  ASSUME NEW n \in Nat, NEW T \in SUBSET (1 .. n), T # {}
  PROVE  Max(T) \in T /\ \A y \in T : Max(T) >= y
<1> DEFINE S == {k \in Nat : \A U \in SUBSET (1 .. k) : U # {} =>
                               \E x \in U : \A y \in U : x >= y}
<1>1. 0 \in S
  <2>1. \A U \in SUBSET (1 .. 0) : U = {}
    OBVIOUS
  <2> QED BY <2>1
<1>2. ASSUME NEW k \in Nat, k \in S PROVE k + 1 \in S
  <2> SUFFICES ASSUME NEW U \in SUBSET (1 .. k + 1), U # {}
               PROVE  \E x \in U : \A y \in U : x >= y
    OBVIOUS
  <2>1. CASE k + 1 \in U
    BY <2>1
  <2>2. CASE k + 1 \notin U
    <3>1. U \in SUBSET (1 .. k)
      BY <2>2
    <3> QED BY <3>1, <1>2
  <2> QED BY <2>1, <2>2
<1>3. n \in S
  <2> HIDE DEF S
  <2> QED BY <1>1, <1>2, SetInduction
<1>4. \E x \in T : \A y \in T : x >= y
  BY <1>3
<1> QED BY <1>4 DEF Max

\* What the inductions over the subsets of 1 .. n need of their sizes.
LEMMA SubsetSizes ==
  ASSUME NEW n \in Nat, NEW s \in SUBSET (1 .. n)
  PROVE  /\ Cardinality(s) \in 0 .. n
         /\ Cardinality(s) = 0 <=> s = {}
         /\ \A x \in s : Cardinality(s \ {x}) = Cardinality(s) - 1
<1>1. IsFiniteSet(1 .. n) /\ Cardinality(1 .. n) = n
  BY FS_Interval
<1>2. IsFiniteSet(s) /\ Cardinality(s) <= Cardinality(1 .. n)
  BY <1>1, FS_Subset, Zenon
<1>3. Cardinality(s) \in Nat
  BY <1>2, FS_CardinalityType
<1>4. Cardinality(s) = 0 <=> s = {}
  BY <1>2, FS_EmptySet, Zenon
<1>5. Cardinality(s) \in 0 .. n
  BY <1>1, <1>2, <1>3
<1>6. \A x \in s : Cardinality(s \ {x}) = Cardinality(s) - 1
  BY <1>2, FS_RemoveElement
<1> QED BY <1>4, <1>5, <1>6

\* A recursive function over the subsets of 1 .. n, which takes out the chosen
\* element first, exists: what FoldLeft and MapThenSumSet are defined by.
IsFold(g, n, base, choose, step) ==
  \A s \in SUBSET (1 .. n) :
    g[s] = IF s = {} THEN base ELSE step[<<choose[s], g[s \ {choose[s]}]>>]

\* A fold over the subsets of 1 .. n can be computed from the empty set up.
LEMMA FoldExists ==
  ASSUME NEW n \in Nat, NEW V, NEW base \in V, NEW choose,
         \A s \in SUBSET (1 .. n) : s # {} => choose[s] \in s,
         NEW step \in [(1 .. n) \X V -> V]
  PROVE  \E g \in [SUBSET (1 .. n) -> V] : IsFold(g, n, base, choose, step)
<1> DEFINE Below(k) == {s \in SUBSET (1 .. n) : Cardinality(s) <= k}
           Fits(g, k) == \A s \in Below(k) :
             g[s] = IF s = {} THEN base ELSE step[<<choose[s], g[s \ {choose[s]}]>>]
           S == {k \in Nat : \E g \in [SUBSET (1 .. n) -> V] : Fits(g, k)}
<1>1. \A s \in SUBSET (1 .. n) : Cardinality(s) \in 0 .. n /\ (Cardinality(s) = 0 <=> s = {})
  BY SubsetSizes
<1>2. \A s \in SUBSET (1 .. n) : s # {} =>
        /\ s \ {choose[s]} \in SUBSET (1 .. n)
        /\ Cardinality(s \ {choose[s]}) = Cardinality(s) - 1
  BY SubsetSizes
<1>3. 0 \in S
  <2> DEFINE g == [s \in SUBSET (1 .. n) |-> base]
  <2>1. Fits(g, 0)
    BY <1>1
  <2> QED BY <2>1
<1>4. ASSUME NEW k \in Nat, k \in S PROVE k + 1 \in S
  <2>1. PICK g \in [SUBSET (1 .. n) -> V] : Fits(g, k)
    BY <1>4
  <2> DEFINE h == [s \in SUBSET (1 .. n) |->
                     IF s = {} THEN base ELSE step[<<choose[s], g[s \ {choose[s]}]>>]]
  <2>2. h \in [SUBSET (1 .. n) -> V]
    <3> SUFFICES ASSUME NEW s \in SUBSET (1 .. n), s # {}
                 PROVE  step[<<choose[s], g[s \ {choose[s]}]>>] \in V
      OBVIOUS
    <3> QED BY <1>2
  <2>3. \A s \in Below(k) : h[s] = g[s]
    BY <2>1
  <2>4. \A s \in Below(k + 1) : s # {} => s \ {choose[s]} \in Below(k)
    <3> SUFFICES ASSUME NEW s \in Below(k + 1), s # {}
                 PROVE  s \ {choose[s]} \in Below(k)
      OBVIOUS
    <3>1. Cardinality(s) \in Nat /\ Cardinality(s) <= k + 1
      BY <1>1
    <3>2. s \ {choose[s]} \in SUBSET (1 .. n) /\ Cardinality(s \ {choose[s]}) = Cardinality(s) - 1
      BY <1>2
    <3> QED BY <3>1, <3>2
  <2>5. Fits(h, k + 1)
    <3> SUFFICES ASSUME NEW s \in Below(k + 1), s # {}
                 PROVE  h[s] = step[<<choose[s], h[s \ {choose[s]}]>>]
      OBVIOUS
    <3>1. h[s \ {choose[s]}] = g[s \ {choose[s]}]
      <4> HIDE DEF h, Below
      <4> QED BY <2>3, <2>4
    <3>2. h[s] = step[<<choose[s], g[s \ {choose[s]}]>>]
      OBVIOUS
    <3> QED BY <3>1, <3>2
  <2> QED
    <3> HIDE DEF h, Fits
    <3> QED BY <2>2, <2>5
<1>5. n \in S
  <2> HIDE DEF S
  <2> QED BY <1>3, <1>4, SetInduction
<1>6. PICK g \in [SUBSET (1 .. n) -> V] : Fits(g, n)
  BY <1>5
<1>7. \A s \in SUBSET (1 .. n) : s \in Below(n)
  BY <1>1
<1>8. \A s \in SUBSET (1 .. n) :
        g[s] = IF s = {} THEN base ELSE step[<<choose[s], g[s \ {choose[s]}]>>]
  <2> HIDE DEF Below
  <2> QED BY <1>6, <1>7
<1> QED
  BY <1>8 DEF IsFold

\* What FoldLeft goes through: the value after each prefix of a sequence.
ResolvedPrefixes(g, words, n) ==
  /\ g[0] = <<>>
  /\ \A k \in 1 .. n : g[k] = g[k - 1] \o SetToSeq(Find(words[k]))
  /\ Resolved(words) = g[n]

\* Resolving a list of words is resolving them one after another.
LEMMA FoldLeftPrefixes ==
  ASSUME NEW n \in Nat, NEW words, DOMAIN words = 1 .. n, NEW V, <<>> \in V,
         \A ids \in V, i \in 1 .. n : ids \o SetToSeq(Find(words[i])) \in V
  PROVE  \E g \in [0 .. n -> V] : ResolvedPrefixes(g, words, n)
<1> DEFINE choose == [s \in SUBSET (1 .. n) |-> IF s = {} THEN 1 ELSE Max(s)]
           step == [p \in (1 .. n) \X V |-> p[2] \o SetToSeq(Find(words[p[1]]))]
           Iter(f) == f = [s \in SUBSET (1 .. n) |->
                             IF s = {} THEN <<>>
                             ELSE f[s \ {Max(s)}] \o SetToSeq(Find(words[Max(s)]))]
           iter == CHOOSE f : Iter(f)
<1>1. Resolved(words) = iter[1 .. n]
  BY DEF Resolved, FoldLeft, MapThenFoldSet
<1>2. \A s \in SUBSET (1 .. n) : s # {} => Max(s) \in s /\ \A y \in s : Max(s) >= y
  BY MaxExists
<1>3. \A s \in SUBSET (1 .. n) : s # {} => choose[s] = Max(s) /\ choose[s] \in s
  BY <1>2
<1>4. step \in [(1 .. n) \X V -> V]
  OBVIOUS
<1>5. PICK g \in [SUBSET (1 .. n) -> V] : IsFold(g, n, <<>>, choose, step)
  <2> HIDE DEF choose, step
  <2> QED BY <1>3, <1>4, FoldExists
<1>6. \A s \in SUBSET (1 .. n) :
        g[s] = IF s = {} THEN <<>>
               ELSE g[s \ {Max(s)}] \o SetToSeq(Find(words[Max(s)]))
  <2> SUFFICES ASSUME NEW s \in SUBSET (1 .. n), s # {}
               PROVE  step[<<choose[s], g[s \ {choose[s]}]>>] =
                        g[s \ {Max(s)}] \o SetToSeq(Find(words[Max(s)]))
    BY <1>5 DEF IsFold
  <2>1. Max(s) \in 1 .. n /\ choose[s] = Max(s) /\ g[s \ {Max(s)}] \in V
    BY <1>2, <1>3
  <2> QED BY <2>1
<1>7. Iter(g)
  <2> HIDE DEF choose, step
  <2>1. g = [s \in SUBSET (1 .. n) |-> g[s]]
    OBVIOUS
  <2> QED BY <1>6, <2>1
<1>8. Iter(iter)
  <2> HIDE DEF Iter
  <2> QED BY <1>7
<1> DEFINE h == [k \in 0 .. n |-> iter[1 .. k]]
<1>9. iter[{}] = <<>>
  <2>1. {} \in SUBSET (1 .. n)
    OBVIOUS
  <2> HIDE DEF iter
  <2> QED BY <1>8, <2>1
<1>10. h[0] = <<>>
  <2>1. 1 .. 0 = {}
    OBVIOUS
  <2> HIDE DEF iter
  <2> QED BY <1>9, <2>1
<1>11. ASSUME NEW k \in 1 .. n
       PROVE  h[k] = h[k - 1] \o SetToSeq(Find(words[k]))
  <2> DEFINE s == 1 .. k
  <2>1. s \in SUBSET (1 .. n) /\ k \in s /\ k - 1 \in 0 .. n /\ k \in 0 .. n
    OBVIOUS
  <2>2. Max(s) = k
    <3>1. Max(s) \in s /\ \A y \in s : Max(s) >= y
      <4> HIDE DEF s
      <4> QED BY <1>2, <2>1
    <3> QED BY <3>1
  <2>3. s \ {k} = 1 .. (k - 1)
    OBVIOUS
  <2>4. iter[s] = iter[s \ {k}] \o SetToSeq(Find(words[k]))
    <3> HIDE DEF iter, s
    <3> QED BY <1>8, <2>1, <2>2
  <2>5. h[k] = iter[s] /\ h[k - 1] = iter[1 .. (k - 1)]
    <3> HIDE DEF iter
    <3> QED BY <2>1
  <2> HIDE DEF iter, s, h
  <2> QED BY <2>3, <2>4, <2>5
<1>12. h \in [0 .. n -> V]
  <2> DEFINE S == {k \in Nat : k <= n => h[k] \in V}
  <2> HIDE DEF h
  <2>1. 0 \in S
    BY <1>10
  <2>2. ASSUME NEW k \in Nat, k \in S PROVE k + 1 \in S
    <3> SUFFICES ASSUME k + 1 <= n PROVE h[k + 1] \in V
      OBVIOUS
    <3>1. h[k] \in V /\ k + 1 \in 1 .. n /\ (k + 1) - 1 = k
      BY <2>2
    <3>2. h[k + 1] = h[k] \o SetToSeq(Find(words[k + 1]))
      BY <1>11, <3>1
    <3> QED BY <3>1, <3>2
  <2>3. \A k \in Nat : k \in S
    <3> HIDE DEF S
    <3> QED BY <2>1, <2>2, SetInduction
  <2>4. \A k \in 0 .. n : h[k] \in V
    BY <2>3
  <2>5. h = [k \in 0 .. n |-> h[k]]
    BY DEF h
  <2> QED BY <2>4, <2>5
<1>13. Resolved(words) = h[n]
  <2> HIDE DEF iter
  <2> QED BY <1>1
<1> QED
  <2> HIDE DEF h
  <2> QED BY <1>10, <1>11, <1>12, <1>13 DEF ResolvedPrefixes

\* A sum over 1 .. n adds its terms up one by one.
SumPrefixes(g, terms, n) ==
  /\ g \in [0 .. n -> Nat] /\ g[0] = 0
  /\ \A k \in 1 .. n : g[k] = g[k - 1] + terms[k]

\* SumOf is such a sum, although it picks the terms in an order of its own.
LEMMA SumExists ==
  ASSUME NEW n \in Nat, NEW terms \in [1 .. n -> Nat]
  PROVE  \E g : SumPrefixes(g, terms, n) /\ SumOf(terms) = g[n]
<1> DEFINE choose == [s \in SUBSET (1 .. n) |-> CHOOSE x \in s : TRUE]
           step == [p \in (1 .. n) \X Nat |-> terms[p[1]] + p[2]]
           Iter(f) == f = [s \in SUBSET (1 .. n) |->
                             IF s = {} THEN 0
                             ELSE terms[CHOOSE x \in s : TRUE] + f[s \ {CHOOSE x \in s : TRUE}]]
           iter == CHOOSE f : Iter(f)
<1>1. SumOf(terms) = iter[1 .. n]
  BY DEF SumOf, MapThenSumSet, MapThenFoldSet
<1>2. \A s \in SUBSET (1 .. n) : s # {} => (CHOOSE x \in s : TRUE) \in s
  OBVIOUS
<1>3. \A s \in SUBSET (1 .. n) : s # {} => choose[s] = (CHOOSE x \in s : TRUE) /\ choose[s] \in s
  BY <1>2
<1>4. step \in [(1 .. n) \X Nat -> Nat]
  OBVIOUS
<1>5. PICK g0 \in [SUBSET (1 .. n) -> Nat] : IsFold(g0, n, 0, choose, step)
  <2> HIDE DEF choose, step
  <2> QED BY <1>3, <1>4, FoldExists
<1>6. Iter(g0)
  <2>1. ASSUME NEW s \in SUBSET (1 .. n), s # {}
        PROVE  g0[s] = terms[CHOOSE x \in s : TRUE] + g0[s \ {CHOOSE x \in s : TRUE}]
    <3>1. g0[s] = step[<<choose[s], g0[s \ {choose[s]}]>>]
      <4> HIDE DEF step, choose
      <4> QED BY <1>5, <2>1 DEF IsFold
    <3>2. choose[s] \in 1 .. n /\ choose[s] = (CHOOSE x \in s : TRUE)
      BY <1>3, <2>1
    <3>3. g0[s \ {choose[s]}] \in Nat
      OBVIOUS
    <3>4. step[<<choose[s], g0[s \ {choose[s]}]>>] = terms[choose[s]] + g0[s \ {choose[s]}]
      <4> HIDE DEF choose
      <4> QED BY <3>2, <3>3
    <3> QED
      <4> HIDE DEF choose, step
      <4> QED BY <3>1, <3>2, <3>4
  <2>2. g0[{}] = 0
    BY <1>5 DEF IsFold
  <2>3. g0 = [s \in SUBSET (1 .. n) |-> g0[s]]
    OBVIOUS
  <2> QED BY ZenonT(60), <2>1, <2>2, <2>3
<1>7. Iter(iter)
  <2> HIDE DEF Iter
  <2> QED BY <1>6
<1>8. /\ iter[{}] = 0
      /\ \A s \in SUBSET (1 .. n) : s # {} => \E c \in s : iter[s] = terms[c] + iter[s \ {c}]
  <2> HIDE DEF iter
  <2> QED BY <1>2, <1>7
<1> HIDE DEF iter
<1>9. \A s \in SUBSET (1 .. n) :
        /\ Cardinality(s) \in 0 .. n
        /\ Cardinality(s) = 0 <=> s = {}
        /\ \A x \in s : Cardinality(s \ {x}) = Cardinality(s) - 1
  BY SubsetSizes
<1>10. \A s \in SUBSET (1 .. n) : iter[s] \in Nat
  <2> DEFINE S == {k \in Nat : \A s \in SUBSET (1 .. n) : Cardinality(s) = k => iter[s] \in Nat}
  <2>1. 0 \in S
    <3>1. \A s \in SUBSET (1 .. n) : Cardinality(s) = 0 => s = {}
      BY <1>9
    <3> SUFFICES ASSUME NEW s \in SUBSET (1 .. n), s = {} PROVE iter[s] \in Nat
      BY <3>1
    <3> QED BY <1>8
  <2>2. ASSUME NEW k \in Nat, k \in S PROVE k + 1 \in S
    <3> SUFFICES ASSUME NEW s \in SUBSET (1 .. n), Cardinality(s) = k + 1
                 PROVE  iter[s] \in Nat
      OBVIOUS
    <3>1. s # {}
      BY <1>9
    <3>2. PICK c \in s : iter[s] = terms[c] + iter[s \ {c}]
      BY <1>8, <3>1
    <3>3. s \ {c} \in SUBSET (1 .. n) /\ Cardinality(s \ {c}) = k
      <4>1. Cardinality(s \ {c}) = (k + 1) - 1
        BY <1>9
      <4> QED BY <4>1
    <3>4. iter[s \ {c}] \in Nat
      BY <2>2, <3>3
    <3> QED BY <3>2, <3>4
  <2>3. Nat \subseteq S
    <3> HIDE DEF S
    <3> QED BY <2>1, <2>2, SetInduction
  <2> QED BY <1>9, <2>3
\* Whichever element is taken out first, the rest adds up to the same.
<1> DEFINE Adds(s) == \A x \in s : iter[s] = terms[x] + iter[s \ {x}]
           S == {k \in Nat : \A s \in SUBSET (1 .. n) : Cardinality(s) = k => Adds(s)}
<1>11. 0 \in S
  <2>1. \A s \in SUBSET (1 .. n) : Cardinality(s) = 0 => s = {}
    BY <1>9
  <2> QED BY <2>1
<1>12. ASSUME NEW k \in Nat, k \in S PROVE k + 1 \in S
  <2> SUFFICES ASSUME NEW s \in SUBSET (1 .. n), Cardinality(s) = k + 1
               PROVE  Adds(s)
    OBVIOUS
  <2>1. s # {}
    BY <1>9
  <2>2. PICK c \in s : iter[s] = terms[c] + iter[s \ {c}]
    BY <1>8, <2>1
  <2>3. \A x \in s : Adds(s \ {x})
    <3> TAKE x \in s
    <3>1. s \ {x} \in SUBSET (1 .. n) /\ Cardinality(s \ {x}) = k
      BY <1>9
    <3> HIDE DEF Adds
    <3> QED BY <1>12, <3>1
  <2>4. ASSUME NEW x \in s, x # c PROVE iter[s] = terms[x] + iter[s \ {x}]
    <3>1. x \in s \ {c} /\ c \in s \ {x} /\ (s \ {c}) \ {x} = (s \ {x}) \ {c}
      BY <2>4
    <3>2. iter[s \ {c}] = terms[x] + iter[(s \ {c}) \ {x}]
      BY <2>3, <3>1
    <3>3. iter[s \ {x}] = terms[c] + iter[(s \ {x}) \ {c}]
      BY <2>3, <3>1
    <3>4. iter[(s \ {x}) \ {c}] \in Nat /\ terms[x] \in Nat /\ terms[c] \in Nat
      BY <1>10
    <3>5. iter[s] = terms[c] + (terms[x] + iter[(s \ {x}) \ {c}])
      BY <2>2, <3>1, <3>2
    <3> QED BY <3>3, <3>4, <3>5
  <2> QED BY <2>2, <2>4
<1>13. \A s \in SUBSET (1 .. n) : Adds(s)
  <2>1. Nat \subseteq S
    <3> HIDE DEF S
    <3> QED BY <1>11, <1>12, SetInduction
  <2> HIDE DEF Adds
  <2> QED BY <1>9, <2>1
<1> DEFINE g == [k \in 0 .. n |-> iter[1 .. k]]
<1>14. ASSUME NEW k \in 1 .. n PROVE g[k] = g[k - 1] + terms[k]
  <2> DEFINE s == 1 .. k
  <2>1. s \in SUBSET (1 .. n) /\ k \in s /\ s \ {k} = 1 .. (k - 1)
    OBVIOUS
  <2>2. 1 .. (k - 1) \in SUBSET (1 .. n)
    OBVIOUS
  <2>3. iter[s] = terms[k] + iter[s \ {k}]
    <3> HIDE DEF s
    <3> QED BY <1>13, <2>1
  <2>4. iter[1 .. (k - 1)] \in Nat /\ terms[k] \in Nat
    BY <1>10, <2>2
  <2>5. g[k] = iter[s] /\ g[k - 1] = iter[1 .. (k - 1)]
    OBVIOUS
  <2>6. g[k] = terms[k] + g[k - 1] /\ g[k - 1] \in Nat
    <3> HIDE DEF s, g
    <3> QED BY <2>1, <2>3, <2>4, <2>5
  <2> HIDE DEF s, g
  <2> QED BY <2>4, <2>6
<1>15. g \in [0 .. n -> Nat]
  <2> SUFFICES ASSUME NEW k \in 0 .. n PROVE iter[1 .. k] \in Nat
    OBVIOUS
  <2>1. 1 .. k \in SUBSET (1 .. n)
    OBVIOUS
  <2> QED BY <1>10, <2>1
<1>16. g[0] = 0
  <2>1. 1 .. 0 = {}
    OBVIOUS
  <2> QED BY <1>8, <2>1
<1>17. SumOf(terms) = g[n]
  BY <1>1
<1> QED
  <2> HIDE DEF g
  <2> QED BY <1>14, <1>15, <1>16, <1>17 DEF SumPrefixes

\* The sum of the first k terms.
SumTo(terms, k) == SumOf([i \in 1 .. k |-> terms[i]])

\* A sum grows by its next term, and the last of the sums is the whole.
LEMMA SumGrows ==
  ASSUME NEW n \in Nat, NEW terms \in [1 .. n -> Nat]
  PROVE  /\ SumTo(terms, 0) = 0 /\ SumTo(terms, n) = SumOf(terms)
         /\ \A k \in 0 .. n : SumTo(terms, k) \in Nat
         /\ \A k \in 1 .. n : SumTo(terms, k) = SumTo(terms, k - 1) + terms[k]
<1> DEFINE Prefix(k) == [i \in 1 .. k |-> terms[i]]
<1>1. ASSUME NEW k \in 0 .. n
      PROVE  \E g : SumPrefixes(g, Prefix(k), k) /\ SumTo(terms, k) = g[k]
  <2>1. Prefix(k) \in [1 .. k -> Nat]
    OBVIOUS
  <2> HIDE DEF Prefix
  <2>2. PICK g : SumPrefixes(g, Prefix(k), k) /\ SumOf(Prefix(k)) = g[k]
    BY <2>1, SumExists
  <2> QED BY <2>2 DEF SumTo, Prefix
<1>2. PICK g : SumPrefixes(g, Prefix(n), n) /\ SumTo(terms, n) = g[n]
  BY <1>1
<1>3. ASSUME NEW k \in 0 .. n PROVE SumTo(terms, k) = g[k]
  <2>1. PICK h : SumPrefixes(h, Prefix(k), k) /\ SumTo(terms, k) = h[k]
    BY <1>1
  <2> DEFINE S == {i \in Nat : i <= k => h[i] = g[i]}
  <2>2. 0 \in S
    BY <1>2, <2>1 DEF SumPrefixes
  <2>3. ASSUME NEW i \in Nat, i \in S PROVE i + 1 \in S
    <3> SUFFICES ASSUME i + 1 <= k PROVE h[i + 1] = g[i + 1]
      OBVIOUS
    <3>1. h[i] = g[i] /\ i + 1 \in 1 .. k /\ i + 1 \in 1 .. n /\ (i + 1) - 1 = i
      BY <2>3
    <3>2. h[i + 1] = h[i] + terms[i + 1]
      BY <2>1, <3>1 DEF SumPrefixes
    <3>3. g[i + 1] = g[i] + terms[i + 1]
      BY <1>2, <3>1 DEF SumPrefixes
    <3> QED BY <3>1, <3>2, <3>3
  <2>4. Nat \subseteq S
    <3> HIDE DEF S
    <3> QED BY <2>2, <2>3, SetInduction
  <2> QED BY <2>1, <2>4
<1>4. \A k \in 0 .. n : g[k] \in Nat
  BY <1>2 DEF SumPrefixes
<1>5. \A k \in 1 .. n : k \in 0 .. n /\ k - 1 \in 0 .. n /\ g[k] = g[k - 1] + terms[k]
  BY <1>2 DEF SumPrefixes
<1>6. g[0] = 0 /\ 0 \in 0 .. n /\ n \in 0 .. n
  BY <1>2 DEF SumPrefixes
<1>7. Prefix(n) = terms
  OBVIOUS
<1> QED
  <2>1. SumTo(terms, n) = SumOf(terms)
    BY <1>7 DEF SumTo
  <2> QED BY <1>3, <1>4, <1>5, <1>6, <2>1

-----------------------------------------------------------------------------
(* The lookup *)

\* The empty sequence has no elements.
LEMMA ElementsOfNone == ToSet(<<>>) = {}
BY DEF ToSet

\* A sequence of one element has that element.
LEMMA ElementsOfOne == \A x : ToSet(<<x>>) = {x}
BY DEF ToSet

\* Two sequences in a row have the elements of both.
LEMMA ElementsOfConcat ==
  ASSUME NEW V, NEW s \in Seq(V), NEW t \in Seq(V)
  PROVE  ToSet(s \o t) = ToSet(s) \cup ToSet(t)
<1>1. s \o t \in Seq(V) /\ DOMAIN (s \o t) = 1 .. (Len(s) + Len(t))
  OBVIOUS
<1>2. ToSet(s \o t) \subseteq ToSet(s) \cup ToSet(t)
  <2> SUFFICES ASSUME NEW i \in 1 .. (Len(s) + Len(t))
               PROVE  (s \o t)[i] \in ToSet(s) \cup ToSet(t)
    BY <1>1 DEF ToSet
  <2>1. CASE i <= Len(s)
    BY <2>1 DEF ToSet
  <2>2. CASE i > Len(s)
    <3>1. (s \o t)[i] = t[i - Len(s)] /\ i - Len(s) \in 1 .. Len(t)
      BY <2>2
    <3> QED BY <3>1 DEF ToSet
  <2> QED BY <2>1, <2>2
<1>3. ASSUME NEW i \in 1 .. Len(s) PROVE s[i] \in ToSet(s \o t)
  <2>1. (s \o t)[i] = s[i] /\ i \in 1 .. (Len(s) + Len(t))
    OBVIOUS
  <2> QED BY <1>1, <2>1 DEF ToSet
<1>4. ASSUME NEW i \in 1 .. Len(t) PROVE t[i] \in ToSet(s \o t)
  <2>1. (s \o t)[Len(s) + i] = t[i] /\ Len(s) + i \in 1 .. (Len(s) + Len(t))
    OBVIOUS
  <2> QED BY <1>1, <2>1 DEF ToSet
<1>5. ToSet(s) \subseteq ToSet(s \o t) /\ ToSet(t) \subseteq ToSet(s \o t)
  <2> DEFINE both == ToSet(s \o t)
  <2>1. (\A i \in 1 .. Len(s) : s[i] \in both) /\ (\A i \in 1 .. Len(t) : t[i] \in both)
    BY <1>3, <1>4
  <2> HIDE DEF both
  <2>2. ToSet(s) \subseteq both /\ ToSet(t) \subseteq both
    BY <2>1 DEF ToSet
  <2> QED BY <2>2 DEF both
<1> QED BY <1>2, <1>5

\* An appended element is added to those of the sequence.
LEMMA ElementsOfAppend ==
  ASSUME NEW V, NEW s \in Seq(V), NEW x \in V
  PROVE  ToSet(Append(s, x)) = ToSet(s) \cup {x}
<1>1. Append(s, x) = s \o <<x>> /\ <<x>> \in Seq(V)
  OBVIOUS
<1>2. ToSet(s \o <<x>>) = ToSet(s) \cup ToSet(<<x>>)
  BY ZenonT(60), <1>1, ElementsOfConcat
<1> QED BY <1>1, <1>2, ElementsOfOne

\* The empty set is the empty sequence.
LEMMA SetToSeqEmpty == SetToSeq({}) = <<>>
<1>1. Cardinality({}) = 0 /\ 1 .. 0 = {}
  BY FS_EmptySet
<1>2. \A f \in [{} -> {}] : f = <<>>
  OBVIOUS
<1>3. <<>> \in [{} -> {}] /\ IsInjective(<<>>)
  BY DEF IsInjective
<1> QED BY <1>1, <1>2, <1>3 DEF SetToSeq

\* A set of one element is the sequence of it.
LEMMA SetToSeqOne == \A x : SetToSeq({x}) = <<x>>
<1> SUFFICES ASSUME NEW x PROVE SetToSeq({x}) = <<x>>
  OBVIOUS
<1>1. Cardinality({x}) = 1
  BY FS_Singleton
<1>2. <<x>> \in [1 .. 1 -> {x}] /\ IsInjective(<<x>>)
  BY DEF IsInjective
<1>3. \A f \in [1 .. 1 -> {x}] : f = <<x>>
  OBVIOUS
<1> QED BY <1>1, <1>2, <1>3 DEF SetToSeq

\* What a list of words resolves to, when each word resolves to at most one id.
LEMMA ResolvedIsFound ==
  ASSUME NEW words \in Seq(Addrs), NEW V,
         \A w \in Addrs : Find(w) \subseteq V /\ \A x, y \in Find(w) : x = y
  PROVE  Resolved(words) \in Seq(V) /\ ToSet(Resolved(words)) = FoundOf(ToSet(words))
<1> DEFINE n == Len(words)
<1>1. DOMAIN words = 1 .. n /\ n \in Nat /\ \A i \in 1 .. n : words[i] \in Addrs
  OBVIOUS
<1>2. \A i \in 1 .. n : /\ SetToSeq(Find(words[i])) \in Seq(V)
                        /\ ToSet(SetToSeq(Find(words[i]))) = Find(words[i])
  <2> TAKE i \in 1 .. n
  <2>1. CASE Find(words[i]) = {}
    <3>1. <<>> \in Seq(V)
      OBVIOUS
    <3> QED BY <2>1, <3>1, SetToSeqEmpty, ElementsOfNone, Zenon
  <2>2. CASE \E x : x \in Find(words[i])
    <3>1. PICK x : x \in Find(words[i])
      BY <2>2
    <3>2. Find(words[i]) = {x} /\ x \in V
      BY <1>1, <3>1
    <3>3. SetToSeq(Find(words[i])) = <<x>>
      BY <3>2, SetToSeqOne
    <3>4. <<x>> \in Seq(V) /\ ToSet(<<x>>) = {x}
      BY <3>2, ElementsOfOne
    <3> QED BY <3>2, <3>3, <3>4
  <2> QED BY <2>1, <2>2
<1> DEFINE W == Seq(V)
<1>3. PICK g \in [0 .. n -> W] : ResolvedPrefixes(g, words, n)
  <2>1. \A ids \in W, i \in 1 .. n : ids \o SetToSeq(Find(words[i])) \in W
    BY <1>2
  <2>2. <<>> \in W
    OBVIOUS
  <2> HIDE DEF n, W
  <2> QED BY <1>1, <2>1, <2>2, FoldLeftPrefixes
<1> DEFINE S == {k \in Nat : k <= n => ToSet(g[k]) = UNION {Find(words[i]) : i \in 1 .. k}}
<1>4. 0 \in S
  BY <1>3, ElementsOfNone DEF ResolvedPrefixes
<1>5. ASSUME NEW k \in Nat, k \in S PROVE k + 1 \in S
  <2> SUFFICES ASSUME k + 1 <= n
               PROVE  ToSet(g[k + 1]) = UNION {Find(words[i]) : i \in 1 .. (k + 1)}
    OBVIOUS
  <2>1. k \in 0 .. n /\ k + 1 \in 1 .. n /\ (k + 1) - 1 = k
    OBVIOUS
  <2>2. g[k + 1] = g[k] \o SetToSeq(Find(words[k + 1])) /\ g[k] \in Seq(V)
    BY <1>3, <2>1 DEF ResolvedPrefixes
  <2>3. ToSet(g[k + 1]) = ToSet(g[k]) \cup Find(words[k + 1])
    BY <1>2, <2>1, <2>2, ElementsOfConcat
  <2>4. ToSet(g[k]) = UNION {Find(words[i]) : i \in 1 .. k}
    BY <1>5
  <2>5. 1 .. (k + 1) = (1 .. k) \cup {k + 1}
    OBVIOUS
  <2> QED BY <2>3, <2>4, <2>5
<1>6. n \in S
  <2> HIDE DEF S
  <2> QED BY <1>1, <1>4, <1>5, SetInduction
<1>7. ToSet(Resolved(words)) = UNION {Find(words[i]) : i \in 1 .. n}
  BY <1>3, <1>6 DEF ResolvedPrefixes
<1>8. FoundOf(ToSet(words)) = UNION {Find(words[i]) : i \in 1 .. n}
  BY <1>1 DEF FoundOf, ToSet
<1> QED BY <1>3, <1>7, <1>8 DEF ResolvedPrefixes

-----------------------------------------------------------------------------
(* The inductive invariants *)

ObjectIds == 0 .. Len(objects) - 1
Phases == {"objects", "ranges", "edges", "goroutines", "globals", "finalizers", "totals",
           "failed", "returned"}

\* The types, with ids bounded by the dump's objects.
Types ==
  /\ input \in Dumps /\ strict \in BOOLEAN /\ phase \in Phases
  /\ next \in Nat \ {0} /\ word \in Nat \ {0}
  /\ children \in Seq(Seq(ObjectIds)) /\ references \in Seq(Seq(ObjectIds))
  /\ Len(references) = Len(children)
  /\ seen \in Seq(0 .. MaxId) /\ Len(seen) = Len(children)
  /\ Len(children) <= Len(objects) /\ Len(children) <= MaxId + 1
  /\ maxEnd \in Addrs
  /\ roots \in Seq(Seq(ObjectIds)) /\ globalRoots \in Seq(ObjectIds)
  /\ stats \in [Counters -> Nat]

\* How far the build has come.
Indexing == phase = "objects" => Len(children) = next - 1
Indexed == phase \notin {"objects", "failed"} => Len(children) = Len(objects)
Unlinked == Len(children) < Len(objects) \/ phase \in {"objects", "ranges"} =>
  /\ \A o \in 1 .. Len(children) : children[o] = <<>> /\ references[o] = <<>>
  /\ roots = <<>> /\ globalRoots = <<>>

\* The objects among the first n that can be found, and the range of one.
FindableIn(n) ==
  {o \in 0 .. n - 1 : /\ objects[o + 1].addr # 0
                      /\ \A p \in 0 .. o - 1 : objects[p + 1].addr # objects[o + 1].addr}
RangeOf(o) ==
  [start |-> objects[o + 1].addr,
   end   |-> IF objects[o + 1].addr + objects[o + 1].size > MaxAddr THEN MaxAddr
             ELSE objects[o + 1].addr + objects[o + 1].size,
   id    |-> o]

\* The lookup holds the findable objects indexed so far and their ranges.
Lookup ==
  /\ DOMAIN byAddr = {objects[o + 1].addr : o \in FindableIn(Len(children))}
  /\ \A p \in 0 .. Len(children) - 1 :
       objects[p + 1].addr # 0 => objects[p + 1].addr \in DOMAIN byAddr
  /\ \A o \in FindableIn(Len(children)) : byAddr[objects[o + 1].addr] = o
  /\ ranges = {RangeOf(o) : o \in {p \in FindableIn(Len(children)) : objects[p + 1].size # 0}}

\* The parts every other invariant rests on.
Base == Types /\ Indexing /\ Indexed /\ Unlinked /\ Lookup

\* What the sweep has reported and how far the ranges it has passed reach.
Overlapped(r) == \E q \in ranges : q.start < r.start /\ r.start < q.end
Passed == IF phase = "ranges" THEN {r \in ranges : r.start < next}
          ELSE IF phase = "objects" THEN {} ELSE ranges
Sweeping ==
  phase # "failed" =>
    /\ overlapping = {r.id : r \in {q \in Passed : Overlapped(q)}}
    /\ \A r \in Passed : r.end <= maxEnd
    /\ maxEnd = 0 \/ \E r \in Passed : r.end = maxEnd

\* A strict build goes on only without a defect.
Clean ==
  strict /\ phase # "failed" => overlapping = {} /\ warned \subseteq {"zero address", "zero size"}

\* The stamps of the source at hand tell its edges.
Stamped ==
  /\ EachEdgeOnce
  /\ phase = "edges" =>
       /\ \A o \in next + 1 .. Len(children) : children[o] = <<>>
       /\ next <= Len(children) =>
            \A t \in ToSet(children[next]) : seen[t + 1] = epoch
Fits == Len(objects) <= MaxId
StampedOnly ==
  /\ EdgesAreReferences
  /\ phase \in {"objects", "ranges"} => \A t \in 1 .. Len(children) : seen[t] = 0
  /\ phase = "edges" =>
       \A t \in ObjectIds :
         /\ seen[t + 1] <= next
         /\ seen[t + 1] = next /\ next <= Len(children) => t \in ToSet(children[next])

\* Until the sweep is over, nothing but the lookup is built.
Unstarted ==
  phase \in {"objects", "ranges"} =>
    word = 1 /\ seenRoots = {} /\ \A c \in Counters : stats[c] = 0

\* A loop does not run past its end.
Bounded ==
  /\ phase \in {"edges", "goroutines", "globals", "finalizers", "totals"} => next <= Size(phase) + 1
  /\ phase = "edges" =>
       IF next <= Len(objects) THEN word <= Len(objects[next].pointers) + 1 ELSE word = 1

\* The words handled so far: how many of an object's, and which.
Handled(o) ==
  IF phase # "edges" \/ o < next THEN Len(objects[o].pointers) ELSE IF o = next THEN word - 1 ELSE 0
HandledWords(o) == {objects[o].pointers[i] : i \in 1 .. Handled(o)}
Goroutines ==
  IF phase \in {"objects", "ranges", "edges"} THEN 0
  ELSE IF phase = "goroutines" THEN next - 1 ELSE Len(input.goroutines)
Globals ==
  IF phase \in {"objects", "ranges", "edges", "goroutines"} THEN 0
  ELSE IF phase = "globals" THEN next - 1 ELSE Len(input.globals)
Finalizers ==
  IF phase \in {"objects", "ranges", "edges", "goroutines", "globals"} THEN 0
  ELSE IF phase = "finalizers" THEN next - 1 ELSE Len(input.finalizers)
HandledGlobals == {input.globals[i].ptr : i \in 1 .. Globals}
HandledFinalizers == {input.finalizers[i] : i \in 1 .. Finalizers}

Lengths == [o \in DOMAIN objects |-> Len(objects[o].pointers)]
Sizes == [o \in DOMAIN objects |-> objects[o].size]
Known(words) == \A w \in words : w = 0 \/ Find(w) # {}

\* Every handled pointer is a reference and counted.
Linked ==
  Swept => \A o \in 1 .. Len(objects) : ToSet(references[o]) = FoundOf(HandledWords(o))
Counted ==
  Swept =>
    /\ stats.raw = IF phase = "edges" THEN SumTo(Lengths, next - 1) + (word - 1)
                   ELSE SumOf(Lengths)
    /\ stats.raw = stats.zero + stats.resolved + stats.unresolved
    /\ stats.unresolved = 0 <=> \A o \in 1 .. Len(objects) : Known(HandledWords(o))

\* Every handled root word is a root or counted.
StackRooted ==
  phase # "failed" =>
    /\ Len(roots) = Goroutines
    /\ \A g \in 1 .. Goroutines : ToSet(roots[g]) = FoundOf(Words(input.goroutines[g]))
    /\ stats.unresolvedStack = 0 <=>
         \A g \in 1 .. Goroutines : Known(ToSet(input.goroutines[g].frames))
GlobalRooted ==
  phase # "failed" =>
    /\ seenRoots = {r \in {input.globals[i] : i \in 1 .. Globals} : r.ptr # 0}
    /\ ToSet(globalRoots) = FoundOf(HandledGlobals \cup HandledFinalizers)
    /\ stats.unresolvedGlobal = 0 <=> Known(HandledGlobals)
    /\ stats.unresolvedFinalizer = 0 <=> Known(HandledFinalizers)

\* The bytes of the objects added up so far.
Summed ==
  phase # "failed" =>
    stats.bytes = IF phase = "totals" THEN SumTo(Sizes, next - 1)
                  ELSE IF phase = "returned" THEN SumOf(Sizes) ELSE 0

-----------------------------------------------------------------------------
(* The base is invariant *)

\* The order of the loops, spelled out.
LEMMA LoopOrder ==
  /\ ToSet(Loops) \subseteq Phases \ {"failed", "returned"}
  /\ NextLoop => \/ phase = "objects" /\ phase' = "ranges"
                 \/ phase = "ranges" /\ phase' = "edges"
                 \/ phase = "edges" /\ phase' = "goroutines"
                 \/ phase = "goroutines" /\ phase' = "globals"
                 \/ phase = "globals" /\ phase' = "finalizers"
                 \/ phase = "finalizers" /\ phase' = "totals"
<1>1. ToSet(Loops) \subseteq Phases \ {"failed", "returned"}
  BY DEF Loops, ToSet, Phases
<1>2. Len(Loops) - 1 = 6
  BY DEF Loops
<1>3. ASSUME NextLoop
      PROVE  \E i \in 1 .. 6 : Loops[i] = phase /\ phase' = Loops[i + 1]
  BY <1>2, <1>3 DEF NextLoop
<1>4. /\ Loops[1] = "objects" /\ Loops[2] = "ranges" /\ Loops[3] = "edges"
      /\ Loops[4] = "goroutines" /\ Loops[5] = "globals" /\ Loops[6] = "finalizers"
      /\ Loops[7] = "totals"
  BY DEF Loops
<1>5. 1 .. 6 = {1, 2, 3, 4, 5, 6}
  OBVIOUS
<1> QED
  <2>1. SUFFICES ASSUME NextLoop
                 PROVE  \/ phase = "objects" /\ phase' = "ranges"
                        \/ phase = "ranges" /\ phase' = "edges"
                        \/ phase = "edges" /\ phase' = "goroutines"
                        \/ phase = "goroutines" /\ phase' = "globals"
                        \/ phase = "globals" /\ phase' = "finalizers"
                        \/ phase = "finalizers" /\ phase' = "totals"
    BY <1>1
  <2>2. PICK i \in 1 .. 6 : Loops[i] = phase /\ phase' = Loops[i + 1]
    BY <1>3, <2>1
  <2> QED BY <1>4, <1>5, <2>2

\* What the assumption on the inputs says of one.
LEMMA InputTypes ==
  ASSUME Types
  PROVE  /\ objects \in Seq([addr : Addrs, size : Addrs, pointers : Seq(Addrs)])
         /\ input.goroutines \in Seq([frames : Seq(Addrs), sched : Seq(Addrs)])
         /\ input.globals \in Seq([kind : STRING, ptr : Addrs, slot : Addrs])
         /\ input.finalizers \in Seq(Addrs)
         /\ MaxAddr \in Nat /\ MaxId \in Nat
BY GraphAssumption DEF Types, Dumps, objects

\* What it says of one object of the dump.
LEMMA SourceTypes ==
  ASSUME Types, NEW o \in 1 .. Len(objects)
  PROVE  /\ objects[o] \in [addr : Addrs, size : Addrs, pointers : Seq(Addrs)]
         /\ objects[o].addr \in Nat /\ objects[o].addr <= MaxAddr
         /\ objects[o].size \in Nat /\ objects[o].size <= MaxAddr
         /\ objects[o].pointers \in Seq(Addrs)
<1> DEFINE R == [addr : Addrs, size : Addrs, pointers : Seq(Addrs)]
<1>1. objects[o] \in R
  <2>1. objects \in Seq(R)
    BY InputTypes
  <2> HIDE DEF R
  <2> QED BY <2>1
<1>2. objects[o].addr \in Addrs /\ objects[o].size \in Addrs /\ objects[o].pointers \in Seq(Addrs)
  BY <1>1
<1> QED BY <1>1, <1>2, GraphAssumption DEF Addrs

\* A build starts with nothing indexed.
LEMMA InitBase == Init => Base
<1> SUFFICES ASSUME Init PROVE Base
  OBVIOUS
<1>1. input \in Dumps /\ MaxAddr \in Nat /\ MaxId \in Nat
  BY GraphAssumption DEF Init
<1>2. Types
  BY <1>1 DEF Init, Types, Phases, Addrs, Dumps, objects
<1>3. Indexing /\ Indexed /\ Unlinked
  BY DEF Init, Indexing, Indexed, Unlinked
<1>4. Lookup
  <2>1. FindableIn(Len(children)) = {}
    BY DEF Init, FindableIn
  <2> QED BY <2>1 DEF Init, Lookup
<1> QED BY <1>2, <1>3, <1>4 DEF Base

\* The lookup finds at most one object, one of the graph's.
LEMMA FindIsAnId ==
  ASSUME Base, NEW w
  PROVE  Find(w) \subseteq 0 .. Len(children) - 1 /\ \A x, y \in Find(w) : x = y
<1>1. /\ Len(children) \in Nat /\ Len(children) <= Len(objects)
      /\ objects \in Seq([addr : Addrs, size : Addrs, pointers : Seq(Addrs)])
  BY InputTypes DEF Base, Types
<1>2. FindableIn(Len(children)) \subseteq 0 .. Len(children) - 1
  BY DEF FindableIn
<1>3. w \in DOMAIN byAddr => byAddr[w] \in 0 .. Len(children) - 1
  BY <1>2 DEF Base, Lookup
<1>4. \A r \in ranges : \E o \in FindableIn(Len(children)) :
        r = RangeOf(o) /\ r.start = objects[o + 1].addr /\ r.id = o
  BY DEF Base, Lookup, RangeOf
<1>5. \A o, p \in FindableIn(Len(children)) :
        objects[o + 1].addr = objects[p + 1].addr => o = p
  BY DEF Base, Lookup
<1>6. \A r \in ranges : r.id \in 0 .. Len(children) - 1 /\ r.start \in Nat
  <2> TAKE r \in ranges
  <2>1. PICK o \in FindableIn(Len(children)) : r.start = objects[o + 1].addr /\ r.id = o
    BY <1>4
  <2>2. o \in 0 .. Len(children) - 1 /\ o + 1 \in 1 .. Len(objects)
    BY <1>1, <1>2
  <2>3. objects[o + 1].addr \in Nat
    BY <2>2, SourceTypes DEF Base
  <2> QED BY <2>1, <2>2, <2>3
<1>7. \A q, r \in ranges : q.start = r.start => q.id = r.id
  BY <1>4, <1>5
<1>8. CASE w = 0 \/ w \in DOMAIN byAddr
  BY <1>3, <1>8 DEF Find
<1>9. CASE w # 0 /\ w \notin DOMAIN byAddr
  <2>1. \A x \in Find(w) : \E q \in ranges :
          x = q.id /\ q.start <= w /\ \A r \in ranges : r.start <= w => r.start <= q.start
    BY <1>9 DEF Find
  <2>2. \A x, y \in Find(w) : x = y
    <3> SUFFICES ASSUME NEW x \in Find(w), NEW y \in Find(w) PROVE x = y
      OBVIOUS
    <3>1. PICK q \in ranges : x = q.id /\ q.start <= w
                             /\ \A r \in ranges : r.start <= w => r.start <= q.start
      BY <2>1
    <3>2. PICK r \in ranges : y = r.id /\ r.start <= w
                             /\ \A t \in ranges : t.start <= w => t.start <= r.start
      BY <2>1
    <3>3. q.start = r.start
      BY <1>6, <3>1, <3>2
    <3> QED BY <1>7, <3>1, <3>2, <3>3
  <2> QED BY <1>6, <2>1, <2>2
<1> QED BY <1>8, <1>9

\* The source the indexing is at, and what it has indexed.
LEMMA AtSource ==
  ASSUME Base, Element("objects"), ~full
  PROVE  /\ Len(children) \in Nat /\ next = Len(children) + 1 /\ next \in 1 .. Len(objects)
         /\ Len(children) < MaxId + 1 /\ src = objects[Len(children) + 1]
         /\ src \in [addr : Addrs, size : Addrs, pointers : Seq(Addrs)]
<1>1. objects \in Seq([addr : Addrs, size : Addrs, pointers : Seq(Addrs)]) /\ MaxId \in Nat
  BY InputTypes DEF Base
<1>2. next \in Nat \ {0} /\ next <= Len(objects)
  BY DEF Base, Types, Element, Size
<1>3. Len(children) = next - 1 /\ ~ (Len(children) > MaxId)
  BY DEF Base, Indexing, Element, full
<1>4. Len(objects) \in Nat /\ Len(children) \in Nat
  BY <1>1, <1>2, <1>3
<1>5. next \in 1 .. Len(objects) /\ next = Len(children) + 1 /\ Len(children) < MaxId + 1
  BY <1>1, <1>2, <1>3, <1>4
<1>6. src \in [addr : Addrs, size : Addrs, pointers : Seq(Addrs)]
  BY <1>5, SourceTypes DEF src, Base
<1> QED BY <1>4, <1>5, <1>6 DEF src

\* The parts of the base that only count the objects, when one is appended.
LEMMA AppendKeeps ==
  ASSUME Base, Element("objects"), ~full, AppendObject, Advance,
         UNCHANGED <<argVars, word, maxEnd, rootVars, stats>>
  PROVE  Types' /\ Indexing' /\ Indexed' /\ Unlinked' /\ Len(children') = Len(children) + 1
<1>1. /\ Len(children) \in Nat /\ next = Len(children) + 1 /\ next \in 1 .. Len(objects)
      /\ Len(children) < MaxId + 1
  BY AtSource
<1>2. Types
  BY DEF Base
<1>3. /\ input' = input /\ strict' = strict /\ word' = word /\ maxEnd' = maxEnd
      /\ roots' = roots /\ globalRoots' = globalRoots /\ stats' = stats
      /\ phase' = phase /\ next' = next + 1 /\ phase = "objects" /\ objects' = objects
  BY DEF argVars, rootVars, Advance, Element, objects
<1>4. /\ children' \in Seq(Seq(ObjectIds)) /\ Len(children') = Len(children) + 1
      /\ references' \in Seq(Seq(ObjectIds)) /\ Len(references') = Len(children')
      /\ seen' \in Seq(0 .. MaxId) /\ Len(seen') = Len(children')
  <2>1. <<>> \in Seq(ObjectIds) /\ 0 \in 0 .. MaxId
    BY GraphAssumption
  <2> QED BY <1>2, <2>1 DEF Types, AppendObject
<1>5. Types'
  <2>1. ObjectIds' = ObjectIds
    BY <1>3 DEF ObjectIds
  <2>2. Len(children') <= Len(objects) /\ Len(children') <= MaxId + 1
    BY <1>1, <1>4, GraphAssumption
  <2> QED BY <1>1, <1>2, <1>3, <1>4, <2>1, <2>2 DEF Types
<1>6. \A o \in 1 .. Len(children') : children'[o] = <<>> /\ references'[o] = <<>>
  <2>1. \A o \in 1 .. Len(children) : children[o] = <<>> /\ references[o] = <<>>
    BY <1>3 DEF Base, Unlinked
  <2> TAKE o \in 1 .. Len(children')
  <2>2. /\ children'[o] = IF o = Len(children) + 1 THEN <<>> ELSE children[o]
        /\ references'[o] = IF o = Len(children) + 1 THEN <<>> ELSE references[o]
    BY <1>2, <1>4 DEF Types, AppendObject
  <2>3. o = Len(children) + 1 \/ o \in 1 .. Len(children)
    BY <1>1, <1>4
  <2> QED BY <2>1, <2>2, <2>3
<1>7. Unlinked'
  BY <1>3, <1>6 DEF Base, Unlinked
<1> QED BY <1>1, <1>3, <1>4, <1>5, <1>7 DEF Indexing, Indexed

\* An object at address 0, or at an address that is taken, cannot be found.
LEMMA IndexWithoutLookupStep == ASSUME Base, IndexWithoutLookup PROVE Base'
<1>1. /\ Element("objects") /\ ~full /\ AppendObject /\ Advance
      /\ UNCHANGED <<argVars, word, maxEnd, rootVars, stats>>
      /\ UNCHANGED <<byAddr, ranges, objects>>
      /\ src.addr = 0 \/ duplicate
  BY DEF IndexWithoutLookup, argVars, objects
<1>2. Types' /\ Indexing' /\ Indexed' /\ Unlinked' /\ Len(children') = Len(children) + 1
  BY <1>1, AppendKeeps
<1> DEFINE n == Len(children)
<1>3. n \in Nat /\ src = objects[n + 1]
  BY <1>1, AtSource
<1>4. FindableIn(n + 1) = FindableIn(n)
  <2>1. n \notin FindableIn(n + 1)
    <3>1. CASE src.addr = 0
      BY <1>3, <3>1 DEF FindableIn
    <3>2. CASE duplicate
      <4>1. PICK p \in FindableIn(n) : objects[p + 1].addr = src.addr
        BY <3>2 DEF duplicate, Base, Lookup
      <4> QED BY <1>3, <4>1 DEF FindableIn
    <3> QED BY <1>1, <3>1, <3>2
  <2>2. \A o : o \in 0 .. (n + 1) - 1 <=> o = n \/ o \in 0 .. n - 1
    BY <1>3
  <2> QED BY <2>1, <2>2 DEF FindableIn
<1>5. n + 1 > 0 /\ (src.addr # 0 => src.addr \in DOMAIN byAddr)
  BY <1>1, <1>3 DEF duplicate
<1>6. Lookup'
  <2>1. \A k : FindableIn(k)' = FindableIn(k)
    BY <1>1 DEF FindableIn
  <2>2. FindableIn(Len(children))' = FindableIn(n)
    BY <1>1, <1>2, <1>4 DEF FindableIn
  <2>3. \A o : RangeOf(o)' = RangeOf(o)
    BY <1>1 DEF RangeOf
  <2> QED BY <1>1, <1>2, <1>3, <1>5, <2>2, <2>3 DEF Base, Lookup
<1> QED BY <1>2, <1>6 DEF Base

\* A new address is looked up as the object just indexed.
LEMMA IndexStep == ASSUME Base, Index PROVE Base'
<1>1. /\ Element("objects") /\ ~full /\ AppendObject /\ Advance
      /\ UNCHANGED <<argVars, word, maxEnd, rootVars, stats>>
      /\ UNCHANGED objects /\ src.addr # 0 /\ ~duplicate
  BY DEF Index, argVars, objects
<1>2. Types' /\ Indexing' /\ Indexed' /\ Unlinked' /\ Len(children') = Len(children) + 1
  BY <1>1, AppendKeeps
<1> DEFINE n == Len(children)
<1>3. n \in Nat /\ src = objects[n + 1]
  BY <1>1, AtSource
<1>4. FindableIn(n + 1) = FindableIn(n) \cup {n}
  <2>1. \A p \in 0 .. n - 1 : objects[p + 1].addr # src.addr
    BY <1>1 DEF Base, Lookup, duplicate
  <2>2. n \in FindableIn(n + 1)
    BY <1>1, <1>3, <2>1 DEF FindableIn
  <2>3. \A o : o \in 0 .. (n + 1) - 1 <=> o = n \/ o \in 0 .. n - 1
    BY <1>3
  <2> QED BY <2>2, <2>3 DEF FindableIn
<1>5. /\ FindableIn(Len(children))' = FindableIn(n) \cup {n}
      /\ n \notin FindableIn(n) /\ FindableIn(n) \subseteq 0 .. n - 1
  BY <1>1, <1>2, <1>3, <1>4 DEF FindableIn
<1>6. /\ DOMAIN byAddr' = DOMAIN byAddr \cup {src.addr}
      /\ byAddr'[src.addr] = n
      /\ \A a \in DOMAIN byAddr : a # src.addr /\ byAddr'[a] = byAddr[a]
  BY <1>1 DEF Index, duplicate
<1>7. \A o : RangeOf(o)' = RangeOf(o)
  BY <1>1 DEF RangeOf
<1>8. ranges' = ranges \cup (IF src.size = 0 THEN {} ELSE {RangeOf(n)})
  BY <1>3 DEF Index, RangeOf, overflows
<1>9. /\ DOMAIN byAddr' = {objects[o + 1].addr : o \in FindableIn(n) \cup {n}}
      /\ \A o \in FindableIn(n) \cup {n} : byAddr'[objects[o + 1].addr] = o
  BY <1>3, <1>6 DEF Base, Lookup
<1>10. \A p \in 0 .. Len(children') - 1 :
         objects[p + 1].addr # 0 => objects[p + 1].addr \in DOMAIN byAddr'
  <2> TAKE p \in 0 .. Len(children') - 1
  <2>1. p = n \/ p \in 0 .. n - 1
    BY <1>2, <1>3
  <2> QED BY <1>3, <1>6, <2>1 DEF Base, Lookup
<1>11. ranges' = {RangeOf(o) : o \in {p \in FindableIn(n) \cup {n} : objects[p + 1].size # 0}}
  <2>1. ranges = {RangeOf(o) : o \in {p \in FindableIn(n) : objects[p + 1].size # 0}}
    BY DEF Base, Lookup
  <2> QED BY <1>3, <1>8, <2>1
<1>12. Lookup'
  BY <1>1, <1>5, <1>7, <1>9, <1>10, <1>11 DEF Lookup
<1> QED BY <1>2, <1>12 DEF Base

\* A build that fails keeps what it had.
LEMMA FailStep == ASSUME Base, Fail PROVE Base'
<1>1. /\ phase' = "failed" /\ objects' = objects
      /\ UNCHANGED <<input, strict, next, word, children, references, seen, byAddr, ranges,
                     maxEnd, roots, globalRoots, stats>>
  BY DEF Fail, argVars, edgeVars, rootVars, objects
<1>2. Types'
  BY <1>1 DEF Base, Types, Phases, ObjectIds
<1>3. Indexing' /\ Indexed' /\ Unlinked'
  BY <1>1 DEF Base, Indexing, Indexed, Unlinked
<1>4. Lookup'
  BY <1>1 DEF Base, Lookup, FindableIn, RangeOf
<1> QED BY <1>2, <1>3, <1>4 DEF Base

\* The sweep looks at the ranges and changes none.
LEMMA SweepStep == ASSUME Base, Sweep PROVE Base'
<1>1. PICK cur \in ranges :
        /\ phase = "ranges"
        /\ phase' \in {"ranges", "failed"} /\ (next' = next \/ next' = cur.start + 1)
        /\ maxEnd' = cur.end \/ maxEnd' = maxEnd
  BY DEF Sweep, ComesNext, Past
<1>2. /\ objects' = objects
      /\ UNCHANGED <<input, strict, word, children, references, seen, byAddr, ranges,
                     roots, globalRoots, stats>>
  BY DEF Sweep, argVars, edgeVars, rootVars, objects
<1>3. phase' \in {"ranges", "failed"} /\ next' \in Nat \ {0} /\ maxEnd' \in Addrs
  <2>1. PICK o \in FindableIn(Len(children)) : cur = RangeOf(o)
    BY DEF Base, Lookup
  <2>2. o + 1 \in 1 .. Len(objects)
    BY <2>1, InputTypes DEF Base, Types, FindableIn
  <2>3. cur.start \in Nat /\ cur.end \in Addrs
    BY <2>1, <2>2, SourceTypes, GraphAssumption DEF Base, RangeOf, Addrs
  <2>4. next \in Nat \ {0} /\ maxEnd \in Addrs
    BY DEF Base, Types
  <2> QED BY <1>1, <2>3, <2>4
<1>4. Types'
  BY <1>2, <1>3 DEF Base, Types, Phases, ObjectIds
<1>5. Indexing' /\ Indexed' /\ Unlinked'
  BY <1>1, <1>2, <1>3 DEF Base, Indexing, Indexed, Unlinked
<1>6. Lookup'
  BY <1>2 DEF Base, Lookup, FindableIn, RangeOf
<1> QED BY <1>4, <1>5, <1>6 DEF Base

\* The steps that leave the graph's lists and the lookup alone and go on.
LEMMA QuietStep ==
  ASSUME Base, next' \in Nat \ {0}, word' \in Nat \ {0}, stats' \in [Counters -> Nat],
         \/ phase = "objects" /\ phase' = "ranges" /\ next > Len(objects)
         \/ /\ phase \notin {"objects", "failed"}
            /\ phase' \in Phases \ {"objects", "ranges", "failed"},
         UNCHANGED <<argVars, indexVars, edgeVars, rootVars>>
  PROVE  Base'
<1>1. /\ objects' = objects
      /\ UNCHANGED <<input, strict, children, references, seen, byAddr, ranges, maxEnd,
                     roots, globalRoots>>
  BY DEF argVars, edgeVars, rootVars, indexVars, objects
<1>2. Types'
  BY <1>1 DEF Base, Types, Phases, ObjectIds
<1>3. Len(children) = Len(objects)
  <2>1. CASE phase = "objects"
    BY <2>1, InputTypes DEF Base, Types, Indexing
  <2>2. CASE phase # "objects"
    BY <2>2 DEF Base, Indexed
  <2> QED BY <2>1, <2>2
<1>4. Indexing' /\ Indexed'
  BY <1>1, <1>3 DEF Indexing, Indexed
<1>5. Unlinked'
  <2>1. phase' = "ranges" => phase = "objects"
    OBVIOUS
  <2>2. Len(children') = Len(children) /\ ~ (Len(children) < Len(objects))
    BY <1>1, <1>3, InputTypes DEF Base, Types
  <2> QED BY <1>1, <2>1, <2>2 DEF Base, Unlinked
<1>6. Lookup'
  BY <1>1 DEF Base, Lookup, FindableIn, RangeOf
<1> QED BY <1>2, <1>4, <1>5, <1>6 DEF Base

\* One more pointer is counted.
LEMMA CountPointer ==
  ASSUME NEW c \in Counters, stats \in [Counters -> Nat],
         stats' = [stats EXCEPT !.raw = @ + 1, ![c] = @ + 1]
  PROVE  stats' \in [Counters -> Nat]
<1>1. "raw" \in Counters
  BY DEF Counters
<1>2. [stats EXCEPT !.raw = @ + 1] \in [Counters -> Nat]
  BY <1>1
<1> QED BY <1>2

\* A count is added to a counter.
LEMMA CountMore ==
  ASSUME NEW c \in Counters, NEW k \in Nat, stats \in [Counters -> Nat],
         stats' = [stats EXCEPT ![c] = @ + k]
  PROVE  stats' \in [Counters -> Nat]
OBVIOUS

\* The loops' ends, the pointers that are not edges and the totals are such steps.
LEMMA QuietSteps ==
  ASSUME Base, NextLoop \/ SkipPointer \/ NextSource \/ AddBytes \/ Return
  PROVE  Base'
<1>1. /\ next \in Nat \ {0} /\ word \in Nat \ {0} /\ stats \in [Counters -> Nat]
      /\ Len(objects) \in Nat
  BY InputTypes DEF Base, Types
<1>2. CASE NextLoop
  <2>1. /\ UNCHANGED <<argVars, indexVars, edgeVars, rootVars>> /\ UNCHANGED <<word, stats>>
        /\ next' = 1 /\ (phase = "objects" => next > Len(objects))
    BY <1>2 DEF NextLoop, Done, Size
  <2>2. \/ phase = "objects" /\ phase' = "ranges"
        \/ /\ phase \notin {"objects", "failed"}
           /\ phase' \in Phases \ {"objects", "ranges", "failed"}
    BY <1>2, LoopOrder DEF Phases
  <2> QED BY <1>1, <2>1, <2>2, QuietStep
<1>3. CASE SkipPointer
  <2>1. /\ UNCHANGED <<argVars, indexVars, edgeVars, rootVars>> /\ UNCHANGED <<phase, next>>
        /\ word' = word + 1 /\ phase = "edges"
    BY <1>3 DEF SkipPointer, AtPointer, NextPointer, Element
  <2>2. stats' \in [Counters -> Nat]
    <3>1. "zero" \in Counters /\ "unresolved" \in Counters
      BY DEF Counters
    <3>2. CASE pointer = 0
      <4>1. stats' = [stats EXCEPT !.raw = @ + 1, !.zero = @ + 1]
        BY <1>3, <3>2 DEF SkipPointer
      <4> QED BY <1>1, <3>1, <4>1, CountPointer
    <3>3. CASE pointer # 0
      <4>1. stats' = [stats EXCEPT !.raw = @ + 1, !.unresolved = @ + 1]
        BY <1>3, <3>3 DEF SkipPointer
      <4> QED BY <1>1, <3>1, <4>1, CountPointer
    <3> QED BY <3>2, <3>3
  <2>3. word' \in Nat \ {0}
    BY <1>1, <2>1
  <2> QED BY <1>1, <2>1, <2>2, <2>3, QuietStep DEF Phases
<1>4. CASE NextSource
  <2>1. /\ UNCHANGED <<argVars, indexVars, edgeVars, rootVars>> /\ UNCHANGED <<phase, stats>>
        /\ word' = 1 /\ phase = "edges" /\ next' = next + 1
    BY <1>4 DEF NextSource, Element, Advance
  <2>2. next' \in Nat \ {0}
    BY <1>1, <2>1
  <2> QED BY <1>1, <2>1, <2>2, QuietStep DEF Phases
<1>5. CASE AddBytes
  <2>1. /\ UNCHANGED <<argVars, indexVars, edgeVars, rootVars>> /\ UNCHANGED <<phase, word>>
        /\ phase = "totals" /\ next' = next + 1 /\ next <= Len(objects)
    BY <1>5 DEF AddBytes, Element, Advance, Size
  <2>2. objects[next].size \in Nat
    BY <1>1, <2>1, SourceTypes DEF Base
  <2>3. next' \in Nat \ {0} /\ stats' \in [Counters -> Nat]
    BY SMTT(30), <1>1, <1>5, <2>1, <2>2 DEF AddBytes, Count, Counters
  <2> QED BY <1>1, <2>1, <2>3, QuietStep DEF Phases
<1>6. CASE Return
  <2>1. /\ UNCHANGED <<argVars, indexVars, edgeVars, rootVars>> /\ UNCHANGED <<next, word, stats>>
        /\ phase = "totals" /\ phase' = "returned"
    BY <1>6 DEF Return
  <2> QED BY <1>1, <2>1, QuietStep DEF Phases
<1> QED BY <1>2, <1>3, <1>4, <1>5, <1>6

\* An element of a sequence.
LEMMA ElementTypes ==
  ASSUME NEW V, NEW s \in Seq(V), NEW i \in 1 .. Len(s)
  PROVE  s[i] \in V
OBVIOUS

\* A sequence with one element replaced.
LEMMA ExceptInSeq ==
  ASSUME NEW V, NEW s \in Seq(V), NEW i \in 1 .. Len(s), NEW x \in V
  PROVE  /\ [s EXCEPT ![i] = x] \in Seq(V) /\ Len([s EXCEPT ![i] = x]) = Len(s)
         /\ \A j \in 1 .. Len(s) : [s EXCEPT ![i] = x][j] = IF j = i THEN x ELSE s[j]
<1>1. [s EXCEPT ![i] = x] \in [1 .. Len(s) -> V]
  OBVIOUS
<1> QED BY <1>1

\* The source of the edge at hand.
LEMMA AtEdge ==
  ASSUME Base, AtPointer
  PROVE  /\ phase = "edges" /\ next \in 1 .. Len(children) /\ Len(children) = Len(objects)
         /\ Len(children) \in Nat
         /\ children[next] \in Seq(ObjectIds) /\ references[next] \in Seq(ObjectIds)
         /\ word \in 1 .. Len(objects[next].pointers) /\ objects[next].pointers \in Seq(Addrs)
         /\ pointer \in Addrs
<1>1. phase = "edges" /\ next <= Len(objects) /\ word <= Len(objects[next].pointers)
  BY DEF AtPointer, Element, Size
<1>2. Len(children) = Len(objects) /\ Len(objects) \in Nat
  BY <1>1, InputTypes DEF Base, Indexed
<1>3. next \in 1 .. Len(objects)
  BY <1>1, <1>2 DEF Base, Types
<1>4. objects[next].pointers \in Seq(Addrs)
  BY <1>3, SourceTypes DEF Base
<1>5. word \in 1 .. Len(objects[next].pointers)
  BY <1>1, <1>4 DEF Base, Types
<1>6. children[next] \in Seq(ObjectIds) /\ references[next] \in Seq(ObjectIds)
  BY <1>2, <1>3 DEF Base, Types
<1> QED BY <1>1, <1>2, <1>3, <1>4, <1>5, <1>6 DEF pointer

\* An edge leads to an object of the graph.
LEMMA AddEdgeStep == ASSUME Base, NEW target \in Ids, AddEdge(target) PROVE Base'
<1>1. /\ phase' = "edges" /\ next' = next /\ word' = word + 1 /\ objects' = objects
      /\ UNCHANGED <<input, strict, byAddr, ranges, maxEnd, roots, globalRoots>>
      /\ AtPointer
  BY DEF AddEdge, AtPointer, Element, NextPointer, argVars, indexVars, rootVars, objects
<1>2. /\ phase = "edges" /\ next \in 1 .. Len(children) /\ Len(children) = Len(objects)
      /\ Len(children) \in Nat /\ children[next] \in Seq(ObjectIds)
      /\ references[next] \in Seq(ObjectIds)
  BY <1>1, AtEdge
<1>3. target \in ObjectIds
  BY <1>2 DEF Ids, ObjectIds
<1>4. references' \in Seq(Seq(ObjectIds)) /\ Len(references') = Len(references)
  BY <1>2, <1>3 DEF Base, Types, AddEdge
<1>5. children' \in Seq(Seq(ObjectIds)) /\ Len(children') = Len(children)
  <2>1. children' = children \/ children' = [children EXCEPT ![next] = Append(@, target)]
    BY DEF AddEdge
  <2>2. children \in Seq(Seq(ObjectIds)) /\ Append(children[next], target) \in Seq(ObjectIds)
    BY <1>2, <1>3 DEF Base, Types
  <2> DEFINE W == Seq(ObjectIds)
  <2>3. children \in Seq(W) /\ Append(children[next], target) \in W
    BY <2>2
  <2> HIDE DEF W
  <2>4. children' \in Seq(W) /\ Len(children') = Len(children)
    <3>1. CASE children' = children
      BY <2>3, <3>1
    <3>2. CASE children' = [children EXCEPT ![next] = Append(children[next], target)]
      BY <1>2, <2>3, <3>2, ExceptInSeq
    <3> QED BY <2>1, <3>1, <3>2
  <2> QED BY <2>4 DEF W
<1>6. seen' \in Seq(0 .. MaxId) /\ Len(seen') = Len(seen)
  <2>1. seen' = seen \/ seen' = [seen EXCEPT ![target + 1] = epoch]
    BY DEF AddEdge
  <2>2. epoch \in 0 .. MaxId
    BY GraphAssumption DEF Base, Types, epoch
  <2>3. seen \in Seq(0 .. MaxId)
    BY DEF Base, Types
  <2>4. target + 1 \in 1 .. Len(seen)
    BY <1>2 DEF Base, Types, Ids
  <2>5. CASE seen' = [seen EXCEPT ![target + 1] = epoch]
    BY <2>2, <2>3, <2>4, <2>5, ExceptInSeq
  <2> QED BY <2>1, <2>3, <2>5
<1>7. stats' \in [Counters -> Nat]
  <2>1. stats' = [stats EXCEPT !.raw = @ + 1, !.resolved = @ + 1]
    BY DEF AddEdge
  <2>2. "resolved" \in Counters /\ stats \in [Counters -> Nat]
    BY DEF Counters, Base, Types
  <2> QED BY <2>1, <2>2, CountPointer
<1>8. word' \in Nat \ {0}
  BY <1>1 DEF Base, Types
<1>9. Types'
  BY <1>1, <1>2, <1>4, <1>5, <1>6, <1>7, <1>8 DEF Base, Types, ObjectIds
<1>10. Indexing' /\ Indexed' /\ Unlinked'
  BY <1>1, <1>2, <1>5 DEF Indexing, Indexed, Unlinked
<1>11. Lookup'
  BY <1>1, <1>5 DEF Base, Lookup, FindableIn, RangeOf
<1> QED BY <1>9, <1>10, <1>11 DEF Base

\* Once every object is indexed, words resolve to the dump's objects.
LEMMA ResolvedTypes ==
  ASSUME Base, Len(children) = Len(objects), NEW words \in Seq(Addrs)
  PROVE  /\ Resolved(words) \in Seq(ObjectIds)
         /\ ToSet(Resolved(words)) = FoundOf(ToSet(words))
<1>1. \A w \in Addrs : Find(w) \subseteq ObjectIds /\ \A x, y \in Find(w) : x = y
  BY FindIsAnId DEF ObjectIds
<1> QED BY <1>1, ResolvedIsFound

\* No word is counted exactly when each is nil or found.
LEMMA UnresolvedTypes ==
  ASSUME NEW words \in Seq(Addrs)
  PROVE  /\ Unresolved(words) \in Nat
         /\ Unresolved(words) = 0 <=> \A w \in ToSet(words) : w = 0 \/ Find(w) # {}
<1> DEFINE lost == {i \in DOMAIN words : words[i] # 0 /\ Find(words[i]) = {}}
<1>1. lost \in SUBSET (1 .. Len(words)) /\ Len(words) \in Nat
  OBVIOUS
<1>2. Cardinality(lost) \in 0 .. Len(words) /\ (Cardinality(lost) = 0 <=> lost = {})
  <2> HIDE DEF lost
  <2> QED BY <1>1, SubsetSizes
<1>3. lost = {} <=> \A w \in ToSet(words) : w = 0 \/ Find(w) # {}
  BY DEF ToSet
<1>4. Unresolved(words) = Cardinality(lost)
  BY DEF Unresolved
<1> HIDE DEF lost
<1> QED BY <1>1, <1>2, <1>3, <1>4

\* The steps that add roots.
LEMMA RootsStep ==
  ASSUME Base, phase \in {"goroutines", "globals", "finalizers"}, UNCHANGED phase,
         next' = next + 1, UNCHANGED <<argVars, word, indexVars, edgeVars>>,
         roots' \in Seq(Seq(ObjectIds)), globalRoots' \in Seq(ObjectIds),
         stats' \in [Counters -> Nat]
  PROVE  Base'
<1>1. /\ objects' = objects
      /\ UNCHANGED <<input, strict, children, references, seen, byAddr, ranges, maxEnd>>
  BY DEF argVars, edgeVars, indexVars, objects
<1>2. next' \in Nat \ {0}
  BY DEF Base, Types
<1>3. Types'
  BY <1>1, <1>2 DEF Base, Types, ObjectIds
<1>4. Len(children) = Len(objects) /\ Len(objects) \in Nat
  BY InputTypes DEF Base, Indexed
<1>5. Indexing' /\ Indexed' /\ Unlinked'
  BY <1>1, <1>4 DEF Indexing, Indexed, Unlinked
<1>6. Lookup'
  BY <1>1 DEF Base, Lookup, FindableIn, RangeOf
<1> QED BY <1>3, <1>5, <1>6 DEF Base

\* The words of the root at hand.
LEMMA AtRoot ==
  ASSUME Base
  PROVE  /\ Len(children) = Len(objects) \/ phase \in {"objects", "failed"}
         /\ Element("goroutines") => /\ next \in 1 .. Len(input.goroutines)
                                     /\ input.goroutines[next].frames \in Seq(Addrs)
                                     /\ input.goroutines[next].sched \in Seq(Addrs)
         /\ Element("globals") => /\ next \in 1 .. Len(input.globals)
                                  /\ <<input.globals[next].ptr>> \in Seq(Addrs)
         /\ Element("finalizers") => /\ next \in 1 .. Len(input.finalizers)
                                     /\ <<input.finalizers[next]>> \in Seq(Addrs)
<1> DEFINE G == [frames : Seq(Addrs), sched : Seq(Addrs)]
           R == [kind : STRING, ptr : Addrs, slot : Addrs]
<1>1. /\ input.goroutines \in Seq(G) /\ input.globals \in Seq(R)
      /\ input.finalizers \in Seq(Addrs) /\ next \in Nat \ {0}
  BY InputTypes DEF Base, Types
<1>2. Len(children) = Len(objects) \/ phase \in {"objects", "failed"}
  BY DEF Base, Indexed
<1>3. ASSUME Element("goroutines")
      PROVE  next \in 1 .. Len(input.goroutines) /\ input.goroutines[next] \in G
  <2> HIDE DEF G
  <2> QED BY <1>1, <1>3 DEF Element, Size
<1>4. ASSUME Element("globals")
      PROVE  next \in 1 .. Len(input.globals) /\ input.globals[next] \in R
  <2> HIDE DEF R
  <2> QED BY <1>1, <1>4 DEF Element, Size
<1>5. ASSUME Element("finalizers")
      PROVE  next \in 1 .. Len(input.finalizers) /\ <<input.finalizers[next]>> \in Seq(Addrs)
  BY <1>1, <1>5 DEF Element, Size
<1> QED BY <1>2, <1>3, <1>4, <1>5

\* The roots of a goroutine are objects of the graph.
LEMMA AddGoroutineStep == ASSUME Base, AddGoroutine PROVE Base'
<1> DEFINE g == input.goroutines[next]
<1>1. /\ phase = "goroutines" /\ Element("goroutines")
      /\ roots' = Append(roots, Resolved(g.frames) \o Resolved(g.sched))
      /\ stats' = [stats EXCEPT !.unresolvedStack = @ + Unresolved(g.frames)]
      /\ UNCHANGED phase /\ next' = next + 1
      /\ UNCHANGED <<argVars, word, indexVars, edgeVars>> /\ UNCHANGED globalRoots
  BY DEF AddGoroutine, Element, Advance, Count
<1>2. g.frames \in Seq(Addrs) /\ g.sched \in Seq(Addrs) /\ Len(children) = Len(objects)
  BY <1>1, AtRoot
<1>3. Resolved(g.frames) \o Resolved(g.sched) \in Seq(ObjectIds)
  BY <1>2, ResolvedTypes
<1>4. roots' \in Seq(Seq(ObjectIds)) /\ globalRoots' \in Seq(ObjectIds)
  BY <1>1, <1>3 DEF Base, Types
<1>5. stats' \in [Counters -> Nat]
  <2>1. Unresolved(g.frames) \in Nat
    BY <1>2, UnresolvedTypes
  <2>2. "unresolvedStack" \in Counters /\ stats \in [Counters -> Nat]
    BY DEF Counters, Base, Types
  <2> QED BY <1>1, <2>1, <2>2, CountMore
<1> QED BY <1>1, <1>4, <1>5, RootsStep

\* A global root is an object of the graph.
LEMMA AddGlobalStep == ASSUME Base, AddGlobal PROVE Base'
<1> DEFINE r == input.globals[next]
<1>1. /\ phase = "globals" /\ Element("globals")
      /\ \/ UNCHANGED <<globalRoots, stats>>
         \/ /\ globalRoots' = globalRoots \o Resolved(<<r.ptr>>)
            /\ stats' = [stats EXCEPT !.unresolvedGlobal = @ + Unresolved(<<r.ptr>>)]
      /\ UNCHANGED phase /\ next' = next + 1
      /\ UNCHANGED <<argVars, word, indexVars, edgeVars>> /\ UNCHANGED roots
  BY DEF AddGlobal, Element, Advance, Count
<1>2. <<r.ptr>> \in Seq(Addrs) /\ Len(children) = Len(objects)
  BY <1>1, AtRoot
<1>3. Resolved(<<r.ptr>>) \in Seq(ObjectIds) /\ Unresolved(<<r.ptr>>) \in Nat
  BY <1>2, ResolvedTypes, UnresolvedTypes
<1>4. globalRoots \in Seq(ObjectIds) /\ stats \in [Counters -> Nat]
      /\ roots' \in Seq(Seq(ObjectIds)) /\ "unresolvedGlobal" \in Counters
  BY <1>1 DEF Base, Types, Counters
<1>5. globalRoots \o Resolved(<<r.ptr>>) \in Seq(ObjectIds)
  BY <1>3, <1>4
<1>6. globalRoots' \in Seq(ObjectIds) /\ stats' \in [Counters -> Nat]
  <2>1. CASE UNCHANGED <<globalRoots, stats>>
    BY <1>4, <2>1
  <2>2. CASE /\ globalRoots' = globalRoots \o Resolved(<<r.ptr>>)
             /\ stats' = [stats EXCEPT !.unresolvedGlobal = @ + Unresolved(<<r.ptr>>)]
    <3>1. stats' \in [Counters -> Nat]
      BY <1>3, <1>4, <2>2, CountMore
    <3> QED BY <1>5, <2>2, <3>1
  <2> QED BY <1>1, <2>1, <2>2
<1> QED BY <1>1, <1>4, <1>6, RootsStep

\* A finalizer's root is an object of the graph.
LEMMA AddFinalizerStep == ASSUME Base, AddFinalizer PROVE Base'
<1> DEFINE w == input.finalizers[next]
<1>1. /\ phase = "finalizers" /\ Element("finalizers")
      /\ globalRoots' = globalRoots \o Resolved(<<w>>)
      /\ stats' = [stats EXCEPT !.unresolvedFinalizer = @ + Unresolved(<<w>>)]
      /\ UNCHANGED phase /\ next' = next + 1
      /\ UNCHANGED <<argVars, word, indexVars, edgeVars>> /\ UNCHANGED roots
  BY DEF AddFinalizer, Element, Advance, Count
<1>2. <<w>> \in Seq(Addrs) /\ Len(children) = Len(objects)
  BY <1>1, AtRoot
<1>3. Resolved(<<w>>) \in Seq(ObjectIds) /\ Unresolved(<<w>>) \in Nat
  BY <1>2, ResolvedTypes, UnresolvedTypes
<1>4. roots' \in Seq(Seq(ObjectIds)) /\ globalRoots' \in Seq(ObjectIds)
  BY <1>1, <1>3 DEF Base, Types
<1>5. stats' \in [Counters -> Nat]
  <2>1. "unresolvedFinalizer" \in Counters /\ stats \in [Counters -> Nat]
    BY DEF Counters, Base, Types
  <2> QED BY <1>1, <1>3, <2>1, CountMore
<1> QED BY <1>1, <1>4, <1>5, RootsStep

\* The lookup mirrors the dump's findable objects at every step of a build.
LEMMA BaseInvariant == Spec => []Base
<1>1. ASSUME Base, [Next]_vars PROVE Base'
  <2>1. CASE UNCHANGED vars
    <3>1. /\ objects' = objects
          /\ UNCHANGED <<input, strict, phase, next, word, children, references, seen, byAddr,
                         ranges, maxEnd, roots, globalRoots, stats>>
      BY <2>1 DEF vars, argVars, edgeVars, indexVars, rootVars, objects
    <3> QED BY <1>1, <3>1 DEF Base, Types, Indexing, Indexed, Unlinked, Lookup, FindableIn,
                              RangeOf, ObjectIds
  <2>2. CASE IndexFails \/ BytesOverflow \/ Cancel
    BY <1>1, <2>2, FailStep DEF IndexFails, BytesOverflow, Cancel
  <2>3. CASE \E target \in Ids : AddEdge(target)
    BY <1>1, <2>3, AddEdgeStep
  <2> QED BY <1>1, <2>1, <2>2, <2>3, IndexWithoutLookupStep, IndexStep, SweepStep, QuietSteps,
             AddGoroutineStep, AddGlobalStep, AddFinalizerStep DEF Next
<1> QED BY <1>1, InitBase, PTL DEF Spec

\* What the lookup says of one range: it is a findable object's.
LEMMA RangeTypes ==
  ASSUME Base, NEW r \in ranges
  PROVE  /\ r.id \in 0 .. Len(children) - 1 /\ r.id \in ObjectIds
         /\ objects[r.id + 1].size # 0 /\ r = RangeOf(r.id)
         /\ r.id \in FindableIn(Len(children)) /\ r.start = objects[r.id + 1].addr
         /\ r.start \in Nat /\ 0 < r.start /\ r.start <= r.end
         /\ r.end \in Nat /\ r.end <= MaxAddr
<1>1. PICK o \in FindableIn(Len(children)) : r = RangeOf(o) /\ objects[o + 1].size # 0
  BY DEF Base, Lookup
<1>2. /\ Len(children) \in Nat /\ Len(children) <= Len(objects) /\ Len(objects) \in Nat
      /\ MaxAddr \in Nat
  BY InputTypes DEF Base, Types
<1>3. o \in 0 .. Len(children) - 1 /\ o + 1 \in 1 .. Len(objects) /\ objects[o + 1].addr # 0
  BY <1>1, <1>2 DEF FindableIn
<1>4. /\ objects[o + 1].addr \in Nat /\ objects[o + 1].addr <= MaxAddr
      /\ objects[o + 1].size \in Nat
  BY <1>3, SourceTypes DEF Base
<1>5. /\ r.id = o /\ r.start = objects[o + 1].addr
      /\ r.end = IF objects[o + 1].addr + objects[o + 1].size > MaxAddr THEN MaxAddr
                 ELSE objects[o + 1].addr + objects[o + 1].size
  BY <1>1 DEF RangeOf
<1>6. r.end \in Nat /\ r.end <= MaxAddr /\ r.start <= r.end
  BY <1>2, <1>4, <1>5
<1> QED BY <1>1, <1>2, <1>3, <1>4, <1>5, <1>6 DEF ObjectIds

\* The types are those the model promises.
LEMMA BaseTypes == Base => TypeOK
<1> SUFFICES ASSUME Base PROVE TypeOK
  OBVIOUS
<1>1. /\ Len(children) \in Nat /\ Len(children) <= Len(objects) /\ Len(objects) \in Nat
      /\ MaxAddr \in Nat
  BY InputTypes DEF Base, Types
<1>2. phase \in ToSet(Loops) \cup {"failed", "returned"}
  <2>1. DOMAIN Loops = 1 .. 7
    BY DEF Loops
  <2>2. \A i \in 1 .. 7 : Loops[i] \in ToSet(Loops)
    BY <2>1 DEF ToSet
  <2>3. /\ Loops[1] = "objects" /\ Loops[2] = "ranges" /\ Loops[3] = "edges"
        /\ Loops[4] = "goroutines" /\ Loops[5] = "globals" /\ Loops[6] = "finalizers"
        /\ Loops[7] = "totals"
    BY DEF Loops
  <2>4. {"objects", "ranges", "edges", "goroutines", "globals", "finalizers", "totals"}
          \subseteq ToSet(Loops)
    BY <2>2, <2>3
  <2> QED BY <2>4 DEF Base, Types, Phases
<1>3. IdsOnly(children) /\ IdsOnly(references) /\ IdsOnly(roots) /\ ToSet(globalRoots) \subseteq Ids
  <2>1. ASSUME NEW s \in Seq(ObjectIds) PROVE ToSet(s) \subseteq ObjectIds
    BY DEF ToSet
  <2>2. CASE Len(children) = Len(objects)
    <3>1. Ids = ObjectIds
      BY <2>2 DEF Ids, ObjectIds
    <3>2. children \in Seq(Seq(ObjectIds)) /\ references \in Seq(Seq(ObjectIds))
          /\ roots \in Seq(Seq(ObjectIds)) /\ globalRoots \in Seq(ObjectIds)
      BY DEF Base, Types
    <3> DEFINE W == Seq(ObjectIds)
    <3>3. ASSUME NEW lists \in Seq(W) PROVE IdsOnly(lists)
      <4> HIDE DEF W
      <4> SUFFICES ASSUME NEW i \in DOMAIN lists PROVE ToSet(lists[i]) \subseteq ObjectIds
        BY <3>1 DEF IdsOnly
      <4>1. lists[i] \in W
        OBVIOUS
      <4> QED BY <2>1, <4>1 DEF W
    <3> QED BY <2>1, <3>1, <3>2, <3>3
  <2>3. CASE Len(children) < Len(objects)
    <3>1. /\ \A o \in 1 .. Len(children) : children[o] = <<>> /\ references[o] = <<>>
          /\ roots = <<>> /\ globalRoots = <<>>
      BY <2>3 DEF Base, Unlinked
    <3>2. DOMAIN children = 1 .. Len(children) /\ DOMAIN references = 1 .. Len(children)
      BY DEF Base, Types
    <3> QED BY <3>1, <3>2, ElementsOfNone DEF IdsOnly
  <2> QED BY <1>1, <2>2, <2>3
<1>4. \A o \in FindableIn(Len(children)) :
        /\ o \in Ids /\ objects[o + 1].addr \in Addrs /\ objects[o + 1].addr # 0
  <2> TAKE o \in FindableIn(Len(children))
  <2>1. o \in 0 .. Len(children) - 1 /\ objects[o + 1].addr # 0
    BY DEF FindableIn
  <2>2. o + 1 \in 1 .. Len(objects)
    BY <1>1, <2>1
  <2> QED BY <2>1, <2>2, SourceTypes DEF Base, Ids
<1>5. DOMAIN byAddr \subseteq Addrs \ {0}
  BY <1>4 DEF Base, Lookup
<1>6. \A a \in DOMAIN byAddr : byAddr[a] \in Ids /\ objects[byAddr[a] + 1].addr = a
  BY <1>4 DEF Base, Lookup
<1>7. \A r \in ranges : r.id \in Ids /\ 0 < r.start /\ r.start <= r.end /\ r.end <= MaxAddr
  BY RangeTypes DEF Ids
<1> QED BY <1>2, <1>3, <1>5, <1>6, <1>7 DEF TypeOK, Base, Types

\* The graph is well formed at every step of every build: ids are those of
\* its objects, whatever the dump claims, and no range wraps around.
THEOREM TypeCorrect == Spec => []TypeOK
BY BaseInvariant, BaseTypes, PTL

-----------------------------------------------------------------------------
(* The sweep *)

\* A range is its start's.
LEMMA StartsDiffer ==
  ASSUME Base, NEW q \in ranges, NEW r \in ranges, q.start = r.start
  PROVE  q = r
<1>1. q.id \in FindableIn(Len(children)) /\ q.start = objects[q.id + 1].addr /\ q = RangeOf(q.id)
  BY RangeTypes
<1>2. r.id \in FindableIn(Len(children)) /\ r.start = objects[r.id + 1].addr /\ r = RangeOf(r.id)
  BY RangeTypes
<1>3. byAddr[objects[q.id + 1].addr] = q.id /\ byAddr[objects[r.id + 1].addr] = r.id
  BY <1>1, <1>2 DEF Base, Lookup
<1> QED BY <1>1, <1>2, <1>3

\* The range that comes next overlaps one passed before it, or the furthest
\* of those would not reach beyond its start: comparing with that one alone
\* is enough, and the ranges passed are then those up to this one.
LEMMA AtRange ==
  ASSUME Base, Sweeping, NEW cur \in ranges, ComesNext(cur)
  PROVE  /\ Overlapped(cur) <=> cur.start < maxEnd
         /\ {r \in ranges : r.start < cur.start + 1} = Passed \cup {cur}
         /\ phase = "ranges"
<1>1. phase = "ranges" /\ Passed = {r \in ranges : r.start < next}
  BY DEF ComesNext, Passed
<1>2. next <= cur.start /\ \A r \in ranges : next <= r.start => cur.start <= r.start
  BY DEF ComesNext
<1>3. next \in Nat /\ maxEnd \in Nat
  BY DEF Base, Types, Addrs
<1>4. \A r \in ranges : r.start \in Nat /\ r.end \in Nat
  BY RangeTypes
<1>5. /\ \A r \in Passed : r.end <= maxEnd
      /\ maxEnd = 0 \/ \E r \in Passed : r.end = maxEnd
  BY <1>1 DEF Sweeping
<1>6. ASSUME Overlapped(cur) PROVE cur.start < maxEnd
  <2>1. PICK q \in ranges : q.start < cur.start /\ cur.start < q.end
    BY <1>6 DEF Overlapped
  <2>2. q \in Passed
    BY <1>1, <1>2, <1>3, <1>4, <2>1
  <2> QED BY <1>3, <1>4, <1>5, <2>1, <2>2
<1>7. ASSUME cur.start < maxEnd PROVE Overlapped(cur)
  <2>1. maxEnd # 0
    BY <1>3, <1>4, <1>7
  <2>2. PICK r \in Passed : r.end = maxEnd
    BY <1>5, <2>1
  <2>3. r \in ranges /\ r.start < cur.start
    BY <1>1, <1>2, <1>3, <1>4, <2>2
  <2> QED BY <1>7, <2>2, <2>3 DEF Overlapped
<1>8. \A r \in ranges : r.start < cur.start + 1 <=> r.start < next \/ r = cur
  <2> TAKE r \in ranges
  <2>1. ASSUME r.start < cur.start + 1, ~ (r.start < next) PROVE r = cur
    <3>1. r.start = cur.start
      BY <1>2, <1>3, <1>4, <2>1
    <3> QED BY <3>1, StartsDiffer
  <2> QED BY <1>2, <1>3, <1>4, <2>1
<1> QED BY <1>1, <1>6, <1>7, <1>8

\* The sweep's step keeps what it has reported right.
LEMMA SweepSweeps == ASSUME Base, Sweeping, Sweep PROVE Sweeping'
<1>1. PICK cur \in ranges :
        /\ ComesNext(cur)
        /\ \/ /\ cur.start < maxEnd /\ overlapping' = overlapping \cup {cur.id}
              /\ phase' = "failed" \/ (phase' = phase /\ next' = cur.start + 1)
           \/ /\ ~ (cur.start < maxEnd) /\ overlapping' = overlapping
              /\ phase' = phase /\ next' = cur.start + 1
        /\ maxEnd' = IF cur.end > maxEnd THEN cur.end ELSE maxEnd
        /\ ranges' = ranges
  BY DEF Sweep, Past
<1>2. /\ Overlapped(cur) <=> cur.start < maxEnd
      /\ {r \in ranges : r.start < cur.start + 1} = Passed \cup {cur}
      /\ phase = "ranges"
  BY <1>1, AtRange
<1>3. SUFFICES ASSUME phase' # "failed" PROVE Sweeping'
  BY DEF Sweeping
<1>4. Passed' = Passed \cup {cur}
  BY <1>1, <1>2, <1>3 DEF Passed
<1>5. \A r : Overlapped(r)' <=> Overlapped(r)
  BY <1>1 DEF Overlapped
<1>6. /\ overlapping = {r.id : r \in {q \in Passed : Overlapped(q)}}
      /\ \A r \in Passed : r.end <= maxEnd
      /\ maxEnd = 0 \/ \E r \in Passed : r.end = maxEnd
  BY <1>2 DEF Sweeping
<1>7. overlapping' = {r.id : r \in {q \in Passed' : Overlapped(q)}}
  <2>1. {q \in Passed' : Overlapped(q)} =
          {q \in Passed : Overlapped(q)} \cup (IF Overlapped(cur) THEN {cur} ELSE {})
    BY <1>4
  <2> QED BY <1>1, <1>2, <1>6, <2>1
<1>8. maxEnd \in Nat /\ cur.end \in Nat /\ \A r \in Passed : r.end \in Nat
  BY <1>1, RangeTypes DEF Base, Types, Addrs, Passed
<1>9. \A r \in Passed' : r.end <= maxEnd'
  BY <1>1, <1>4, <1>6, <1>8
<1>10. maxEnd' = 0 \/ \E r \in Passed' : r.end = maxEnd'
  BY <1>1, <1>4, <1>6, <1>8
<1> QED BY <1>5, <1>7, <1>9, <1>10 DEF Sweeping

\* The furthest end of the ranges passed is enough to tell every overlap.
LEMMA SweepingInvariant == Spec => []Sweeping
<1>1. Init => Sweeping
  BY DEF Init, Sweeping, Passed
<1>2. ASSUME Base, Sweeping, [Next]_vars PROVE Sweeping'
  <2>1. CASE UNCHANGED vars
    BY <1>2, <2>1 DEF vars, indexVars, Sweeping, Passed, Overlapped
  <2>2. CASE IndexFails \/ BytesOverflow \/ Cancel
    BY <2>2 DEF IndexFails, BytesOverflow, Cancel, Fail, Sweeping
  <2>3. CASE IndexWithoutLookup \/ Index
    <3>1. /\ phase = "objects" /\ phase' = "objects"
          /\ overlapping' = overlapping /\ maxEnd' = maxEnd
      BY <2>3 DEF IndexWithoutLookup, Index, Element, Advance
    <3> QED BY <1>2, <3>1 DEF Sweeping, Passed
  <2>4. CASE Sweep
    BY <1>2, <2>4, SweepSweeps
  <2>5. CASE NextLoop
    <3>1. UNCHANGED <<ranges, overlapping, maxEnd>> /\ next' = 1
      BY <2>5 DEF NextLoop, indexVars
    <3>2. Passed' = Passed
      <4>1. CASE phase = "objects" /\ phase' = "ranges"
        <5>1. \A r \in ranges : ~ (r.start < 1)
          BY <1>2, RangeTypes
        <5> QED BY <3>1, <4>1, <5>1 DEF Passed
      <4>2. CASE phase = "ranges" /\ phase' = "edges"
        <5>1. \A r \in ranges : r.start < next
          BY <2>5, <4>2 DEF NextLoop, Done
        <5> QED BY <3>1, <4>2, <5>1 DEF Passed
      <4>3. CASE phase \notin {"objects", "ranges"} /\ phase' \notin {"objects", "ranges"}
        BY <3>1, <4>3 DEF Passed
      <4> QED BY <2>5, <4>1, <4>2, <4>3, LoopOrder
    <3>3. phase # "failed"
      BY <2>5, LoopOrder
    <3> QED BY <1>2, <3>1, <3>2, <3>3 DEF Sweeping, Overlapped
  <2>6. CASE SkipPointer \/ NextSource \/ (\E target \in Ids : AddEdge(target)) \/ AddGoroutine
             \/ AddGlobal \/ AddFinalizer \/ AddBytes \/ Return
    <3>1. /\ UNCHANGED <<ranges, overlapping, maxEnd>>
          /\ phase \notin {"objects", "ranges", "failed"} /\ phase' \notin {"objects", "ranges"}
      BY <2>6 DEF SkipPointer, NextSource, AddEdge, AddGoroutine, AddGlobal, AddFinalizer,
                  AddBytes, Return, AtPointer, Element, Advance, indexVars
    <3> QED BY <1>2, <3>1 DEF Sweeping, Passed, Overlapped
  <2> QED BY <1>2, <2>1, <2>2, <2>3, <2>4, <2>5, <2>6 DEF Next
<1> QED BY <1>1, <1>2, BaseInvariant, PTL DEF Spec

\* The sweep misses no overlap, whatever is nested in what: after it, the
\* ranges reported are those that start inside another.
THEOREM SweepIsExact == Spec => []OverlapsReported
<1>1. Sweeping => OverlapsReported
  BY DEF Sweeping, OverlapsReported, Swept, Passed, Overlapped
<1> QED BY <1>1, SweepingInvariant, PTL

\* Without an overlap, the one range the lookup looks at is the right one.
THEOREM LookupIsContainment == Spec => []FindIsContainment
<1>1. ASSUME Base, OverlapsReported PROVE FindIsContainment
  <2> DEFINE At(ptr) == {o \in Findable : objects[o + 1].addr = ptr}
             Within(ptr) == {o \in Findable : /\ objects[o + 1].addr < ptr
                                              /\ ptr < objects[o + 1].addr + objects[o + 1].size}
  <2> SUFFICES ASSUME Swept, overlapping = {}, NEW ptr \in 1 .. MaxAddr - 1
               PROVE  Find(ptr) = IF At(ptr) # {} THEN At(ptr) ELSE Within(ptr)
    BY DEF FindIsContainment
  <2>1. /\ Len(children) = Len(objects) /\ Findable = FindableIn(Len(children))
        /\ Len(objects) \in Nat /\ MaxAddr \in Nat /\ ptr \in Nat /\ ptr # 0 /\ ptr < MaxAddr
    BY <1>1, InputTypes DEF Base, Indexed, Swept, Findable, FindableIn
  <2>2. /\ DOMAIN byAddr = {objects[o + 1].addr : o \in Findable}
        /\ \A o \in Findable : byAddr[objects[o + 1].addr] = o
        /\ \A o \in Findable : objects[o + 1].size # 0 => RangeOf(o) \in ranges
    BY <1>1, <2>1 DEF Base, Lookup
  <2>3. \A o \in Findable : objects[o + 1].addr \in Nat /\ objects[o + 1].size \in Nat
    <3> TAKE o \in Findable
    <3>1. o + 1 \in 1 .. Len(objects)
      BY <2>1 DEF Findable
    <3> QED BY <1>1, <3>1, SourceTypes DEF Base
  <2>4. \A r, q \in ranges : ~ (q.start < r.start /\ r.start < q.end)
    BY <1>1 DEF OverlapsReported
  <2>5. CASE ptr \in DOMAIN byAddr
    <3>1. At(ptr) = {byAddr[ptr]}
      BY <2>2, <2>5
    <3> QED BY <2>1, <2>5, <3>1 DEF Find
  <2>6. CASE ptr \notin DOMAIN byAddr
    <3> DEFINE below == {r \in ranges : r.start <= ptr}
    <3>1. At(ptr) = {}
      BY <2>2, <2>6
    <3>2. Find(ptr) = {r.id : r \in {q \in below : /\ \A t \in below : t.start <= q.start
                                                   /\ ptr < q.end}}
      BY <2>1, <2>6 DEF Find
    <3>3. ASSUME NEW r \in ranges, r.start <= ptr, ptr < r.end PROVE r.id \in Within(ptr)
      <4>1. /\ r.id \in Findable /\ r.start = objects[r.id + 1].addr /\ r = RangeOf(r.id)
            /\ r.start \in Nat
        BY <1>1, <2>1, RangeTypes
      <4>2. r.end <= objects[r.id + 1].addr + objects[r.id + 1].size /\ r.end \in Nat
        <5>1. r.end = IF objects[r.id + 1].addr + objects[r.id + 1].size > MaxAddr THEN MaxAddr
                      ELSE objects[r.id + 1].addr + objects[r.id + 1].size
          BY <4>1 DEF RangeOf
        <5> QED BY SMTT(30), <2>1, <2>3, <4>1, <5>1
      <4>3. r.start # ptr
        BY <2>2, <2>6, <4>1
      <4>4. /\ objects[r.id + 1].addr < ptr
            /\ ptr < objects[r.id + 1].addr + objects[r.id + 1].size
        BY <2>1, <2>3, <3>3, <4>1, <4>2, <4>3
      <4> QED BY <4>1, <4>4
    <3>4. ASSUME NEW o \in Within(ptr)
          PROVE  /\ RangeOf(o) \in below /\ ptr < RangeOf(o).end /\ RangeOf(o).id = o
                 /\ \A t \in below : t.start <= RangeOf(o).start
      <4>1. /\ o \in Findable /\ objects[o + 1].addr < ptr
            /\ ptr < objects[o + 1].addr + objects[o + 1].size
            /\ objects[o + 1].addr \in Nat /\ objects[o + 1].size \in Nat
        BY <2>3
      <4>2. objects[o + 1].size # 0
        BY <2>1, <4>1
      <4>3. RangeOf(o) \in ranges
        BY <2>2, <4>1, <4>2
      <4>4. /\ RangeOf(o).start = objects[o + 1].addr /\ RangeOf(o).id = o
            /\ RangeOf(o).end = IF objects[o + 1].addr + objects[o + 1].size > MaxAddr THEN MaxAddr
                                ELSE objects[o + 1].addr + objects[o + 1].size
        BY DEF RangeOf
      <4>5. ptr < RangeOf(o).end /\ RangeOf(o).start <= ptr /\ RangeOf(o).end \in Nat
        BY <2>1, <4>1, <4>4
      <4>6. ASSUME NEW t \in ranges, t.start <= ptr PROVE t.start <= RangeOf(o).start
        <5>1. t.start \in Nat
          BY <1>1, RangeTypes
        <5>2. ~ (RangeOf(o).start < t.start /\ t.start < RangeOf(o).end)
          BY <2>4, <4>3
        <5> QED BY <2>1, <4>1, <4>4, <4>5, <4>6, <5>1, <5>2
      <4> QED BY <4>3, <4>4, <4>5, <4>6
    <3>5. Find(ptr) = Within(ptr)
      <4>1. Find(ptr) \subseteq Within(ptr)
        BY <3>2, <3>3
      <4>2. ASSUME NEW o \in Within(ptr) PROVE o \in Find(ptr)
        BY <3>2, <3>4
      <4> QED BY <4>1, <4>2
    <3> QED BY <3>1, <3>5
  <2> QED BY <2>5, <2>6
<1> QED BY <1>1, BaseInvariant, SweepIsExact, PTL

-----------------------------------------------------------------------------
(* Strict builds *)

\* A strict build that returns has met no duplicate address, no range that
\* wraps around and no overlap: each of them would have ended it.
THEOREM StrictBuildsAreClean == Spec => []StrictIsClean
<1>1. Init => Clean
  BY DEF Init, Clean
<1>2. ASSUME Base, Clean, [Next]_vars PROVE Clean'
  <2> SUFFICES ASSUME strict', phase' # "failed"
               PROVE  overlapping' = {} /\ warned' \subseteq {"zero address", "zero size"}
    BY DEF Clean
  <2>1. CASE UNCHANGED vars
    BY <1>2, <2>1 DEF vars, argVars, indexVars, Clean
  <2>2. CASE IndexFails \/ BytesOverflow \/ Cancel
    BY <2>2 DEF IndexFails, BytesOverflow, Cancel, Fail
  <2>3. CASE IndexWithoutLookup
    BY <1>2, <2>3 DEF IndexWithoutLookup, Element, Warn, argVars, Clean
  <2>4. CASE Index
    <3>1. /\ strict' = strict /\ overlapping' = overlapping /\ phase = "objects"
          /\ src.size > 0 /\ overflows => ~strict
      BY <2>4 DEF Index, Element, argVars
    <3>2. src.size \in Nat
      <4>1. Element("objects") /\ ~full
        BY <2>4 DEF Index
      <4>2. src \in [addr : Addrs, size : Addrs, pointers : Seq(Addrs)]
        BY <1>2, <4>1, AtSource
      <4> QED BY <4>2 DEF Addrs
    <3>3. warned' = warned \/ warned' = warned \cup {"zero size"}
      <4>1. CASE src.size = 0
        BY <2>4, <4>1 DEF Index, Warn
      <4>2. CASE src.size # 0
        <5>1. ~ overflows
          BY <3>1, <3>2, <4>2
        <5> QED BY <2>4, <4>2, <5>1 DEF Index
      <4> QED BY <4>1, <4>2
    <3> QED BY <1>2, <3>1, <3>3 DEF Clean
  <2>5. CASE Sweep
    <3>1. /\ strict' = strict /\ warned' = warned /\ phase = "ranges"
          /\ overlapping' = overlapping \/ (strict /\ phase' = "failed") \/ ~strict
      BY <2>5 DEF Sweep, ComesNext, argVars
    <3> QED BY <1>2, <3>1 DEF Clean
  <2>6. CASE NextLoop \/ SkipPointer \/ NextSource \/ (\E target \in Ids : AddEdge(target))
             \/ AddGoroutine \/ AddGlobal \/ AddFinalizer \/ AddBytes \/ Return
    <3>1. UNCHANGED <<strict, overlapping, warned>> /\ phase # "failed"
      <4>1. NextLoop => phase # "failed"
        BY LoopOrder
      <4> QED
        BY <2>6, <4>1 DEF NextLoop, SkipPointer, NextSource, AddEdge, AddGoroutine, AddGlobal,
              AddFinalizer, AddBytes, Return, AtPointer, Element, argVars, indexVars
    <3> QED BY <1>2, <3>1 DEF Clean
  <2> QED BY <1>2, <2>1, <2>2, <2>3, <2>4, <2>5, <2>6 DEF Next
<1>3. Clean => StrictIsClean
  BY DEF Clean, StrictIsClean
<1> QED BY <1>1, <1>2, <1>3, BaseInvariant, PTL DEF Spec

-----------------------------------------------------------------------------
(* The edges *)

\* A list of sequences in which the i-th has got one more element.
Grown(lists, i, x, grown) ==
  \A o \in 1 .. Len(lists) :
    /\ ToSet(grown[o]) = IF o = i THEN ToSet(lists[o]) \cup {x} ELSE ToSet(lists[o])
    /\ IsInjective(lists[o]) /\ (o = i => x \notin ToSet(lists[o])) => IsInjective(grown[o])

\* Only the i-th sequence changes, and it stays free of duplicates if it has not
\* got the element yet.
LEMMA GrowOne ==
  ASSUME NEW V, NEW lists \in Seq(Seq(V)), NEW i \in 1 .. Len(lists), NEW x \in V
  PROVE  Grown(lists, i, x, [lists EXCEPT ![i] = Append(lists[i], x)])
<1> DEFINE grown == [lists EXCEPT ![i] = Append(lists[i], x)]
<1> DEFINE W == Seq(V)
           longer == Append(lists[i], x)
<1>1. lists \in Seq(W) /\ lists[i] \in W
  OBVIOUS
<1>2. longer \in W
  BY <1>1
<1>3. \A o \in 1 .. Len(lists) :
        grown[o] = IF o = i THEN longer ELSE lists[o]
  <2>1. grown = [lists EXCEPT ![i] = longer]
    OBVIOUS
  <2> HIDE DEF W, longer, grown
  <2> QED BY <1>1, <1>2, <2>1, ExceptInSeq
<1>4. ToSet(longer) = ToSet(lists[i]) \cup {x}
  BY <1>1, ElementsOfAppend
<1>5. ASSUME IsInjective(lists[i]), x \notin ToSet(lists[i]) PROVE IsInjective(longer)
  <2>1. /\ DOMAIN longer = 1 .. Len(lists[i]) + 1 /\ Len(lists[i]) \in Nat
        /\ DOMAIN lists[i] = 1 .. Len(lists[i])
        /\ \A k \in 1 .. Len(lists[i]) + 1 :
             longer[k] = IF k = Len(lists[i]) + 1 THEN x ELSE lists[i][k]
    BY <1>1
  <2>2. \A k \in 1 .. Len(lists[i]) : lists[i][k] # x
    BY <1>5, <2>1 DEF ToSet
  <2>3. \A k, m \in 1 .. Len(lists[i]) : lists[i][k] = lists[i][m] => k = m
    BY <1>5, <2>1 DEF IsInjective
  <2> SUFFICES ASSUME NEW k \in 1 .. Len(lists[i]) + 1, NEW m \in 1 .. Len(lists[i]) + 1,
                      longer[k] = longer[m]
               PROVE  k = m
    BY <2>1 DEF IsInjective
  <2>4. \A j \in 1 .. Len(lists[i]) + 1 : j = Len(lists[i]) + 1 \/ j \in 1 .. Len(lists[i])
    BY <2>1
  <2> HIDE DEF longer
  <2> QED BY <2>1, <2>2, <2>3, <2>4
<1>6. ASSUME NEW o \in 1 .. Len(lists)
      PROVE  /\ ToSet(grown[o]) = IF o = i THEN ToSet(lists[o]) \cup {x} ELSE ToSet(lists[o])
             /\ IsInjective(lists[o]) /\ (o = i => x \notin ToSet(lists[o])) =>
                  IsInjective(grown[o])
  <2> HIDE DEF longer, grown
  <2>1. CASE o = i
    BY <1>3, <1>4, <1>5, <2>1
  <2>2. CASE o # i
    BY <1>3, <2>2
  <2> QED BY <2>1, <2>2
<1> QED BY <1>6 DEF Grown

\* What adding an edge changes: the source's references, and, unless the
\* target is stamped, its children and the stamp.
LEMMA AddEdgeEffect ==
  ASSUME Base, NEW target \in Ids, AddEdge(target)
  PROVE  /\ target \in ObjectIds /\ Len(children') = Len(children)
         /\ \A o \in 1 .. Len(children) : ToSet(references'[o]) =
              IF o = next THEN ToSet(references[o]) \cup {target} ELSE ToSet(references[o])
         /\ \/ /\ seen[target + 1] = epoch /\ UNCHANGED <<seen, children>>
            \/ /\ seen[target + 1] # epoch
               /\ \A t \in ObjectIds : seen'[t + 1] = IF t = target THEN epoch ELSE seen[t + 1]
               /\ \A o \in 1 .. Len(children) : ToSet(children'[o]) =
                    IF o = next THEN ToSet(children[o]) \cup {target} ELSE ToSet(children[o])
               /\ \A o \in 1 .. Len(children) :
                    IsInjective(children[o]) /\ (o = next => target \notin ToSet(children[o])) =>
                      IsInjective(children'[o])
<1>1. AtPointer
  BY DEF AddEdge
<1>2. next \in 1 .. Len(children) /\ Len(children) = Len(objects) /\ Len(children) \in Nat
  BY <1>1, AtEdge
<1>3. /\ children \in Seq(Seq(ObjectIds)) /\ references \in Seq(Seq(ObjectIds))
      /\ Len(references) = Len(children) /\ seen \in Seq(0 .. MaxId) /\ Len(seen) = Len(children)
  BY DEF Base, Types
<1>4. target \in ObjectIds /\ target + 1 \in 1 .. Len(children)
  BY <1>2 DEF Ids, ObjectIds
<1>5. references' = [references EXCEPT ![next] = Append(@, target)]
  BY DEF AddEdge
<1>6. \A o \in 1 .. Len(references) : ToSet(references'[o]) =
        IF o = next THEN ToSet(references[o]) \cup {target} ELSE ToSet(references[o])
  <2>1. next \in 1 .. Len(references)
    BY <1>2, <1>3
  <2>2. Grown(references, next, target, references')
    BY <1>3, <1>4, <1>5, <2>1, GrowOne
  <2> QED BY <2>2 DEF Grown
<1>7. CASE seen[target + 1] = epoch
  <2>1. UNCHANGED <<seen, children>>
    BY <1>7 DEF AddEdge
  <2> QED BY <1>3, <1>4, <1>6, <1>7, <2>1
<1>8. CASE seen[target + 1] # epoch
  <2>1. /\ seen' = [seen EXCEPT ![target + 1] = epoch]
        /\ children' = [children EXCEPT ![next] = Append(@, target)]
    BY <1>8 DEF AddEdge
  <2>2. epoch \in 0 .. MaxId
    BY GraphAssumption DEF Base, Types, epoch
  <2>3. \A t \in ObjectIds : seen'[t + 1] = IF t = target THEN epoch ELSE seen[t + 1]
    <3>1. \A j \in 1 .. Len(seen) : seen'[j] = IF j = target + 1 THEN epoch ELSE seen[j]
      BY <1>3, <1>4, <2>1, <2>2, ExceptInSeq
    <3>2. \A t \in ObjectIds : t + 1 \in 1 .. Len(seen) /\ (t + 1 = target + 1 <=> t = target)
      BY <1>2, <1>3, <1>4 DEF ObjectIds
    <3> QED BY <3>1, <3>2
  <2>4. \A o \in 1 .. Len(children) :
          /\ ToSet(children'[o]) =
               IF o = next THEN ToSet(children[o]) \cup {target} ELSE ToSet(children[o])
          /\ IsInjective(children[o]) /\ (o = next => target \notin ToSet(children[o])) =>
               IsInjective(children'[o])
    <3>1. Grown(children, next, target, children')
      BY <1>2, <1>3, <1>4, <2>1, GrowOne
    <3> QED BY <3>1 DEF Grown
  <2>5. Len(children') = Len(children)
    <3> DEFINE W == Seq(ObjectIds)
    <3>1. children \in Seq(W)
      BY <1>3
    <3> HIDE DEF W
    <3> QED BY <2>1, <3>1
  <2> QED BY <1>3, <1>4, <1>6, <1>8, <2>3, <2>4, <2>5
<1> QED BY <1>7, <1>8

\* The steps that leave the lists of edges alone, or append an empty one, and
\* the phase the loop over the edges is entered from.
LEMMA OtherSteps ==
  ASSUME Base, [Next]_vars, \A target \in Ids : ~ AddEdge(target)
  PROVE  /\ \/ UNCHANGED edgeVars
            \/ phase = "objects" /\ phase' = "objects" /\ AppendObject
         /\ objects' = objects
         /\ phase' = "edges" => phase \in {"ranges", "edges"}
         /\ phase' \in {"objects", "ranges"} => phase \in {"objects", "ranges"}
         /\ phase = "edges" /\ phase' = "edges" =>
              \/ UNCHANGED next
              \/ next' = next + 1 /\ word > Len(objects[next].pointers) /\ next <= Len(objects)
         /\ phase = "ranges" /\ phase' = "edges" => next' = 1
<1>1. CASE UNCHANGED vars
  BY <1>1 DEF vars, edgeVars, argVars, objects
<1>2. CASE IndexFails \/ BytesOverflow \/ Cancel
  BY <1>2 DEF IndexFails, BytesOverflow, Cancel, Fail, argVars, objects, edgeVars
<1>3. CASE IndexWithoutLookup \/ Index
  BY <1>3 DEF IndexWithoutLookup, Index, Element, Advance, argVars, objects
<1>4. CASE Sweep
  <2>1. /\ UNCHANGED edgeVars /\ objects' = objects /\ phase = "ranges"
        /\ phase' \in {"ranges", "failed"}
    BY <1>4 DEF Sweep, ComesNext, Past, argVars, objects
  <2> QED BY <2>1
<1>5. CASE NextLoop
  BY <1>5, LoopOrder DEF NextLoop, argVars, objects
<1>6. CASE NextSource
  BY <1>6 DEF NextSource, Element, Advance, Size, argVars, objects
<1>7. CASE SkipPointer
  BY <1>7 DEF SkipPointer, argVars, objects
<1>8. CASE AddGoroutine \/ AddGlobal \/ AddFinalizer \/ AddBytes \/ Return
  BY <1>8 DEF AddGoroutine, AddGlobal, AddFinalizer, AddBytes, Return, Element, Advance,
              argVars, objects
<1> QED BY <1>1, <1>2, <1>3, <1>4, <1>5, <1>6, <1>7, <1>8 DEF Next

\* While no edge is added yet, every list is empty.
LEMMA NoEdges ==
  ASSUME Base, phase \in {"objects", "ranges"}
  PROVE  /\ EachEdgeOnce /\ EdgesAreReferences
         /\ \A o \in 1 .. Len(children) : ToSet(children[o]) = {} /\ children[o] = <<>>
<1>1. \A o \in 1 .. Len(children) : children[o] = <<>> /\ references[o] = <<>>
  BY DEF Base, Unlinked
<1>2. IsInjective(<<>>)
  BY DEF IsInjective
<1> QED BY <1>1, <1>2, ElementsOfNone DEF EachEdgeOnce, EdgesAreReferences

\* Dropping the targets stamped with the source's epoch leaves no duplicate:
\* the stamps of earlier sources may wrap around and cost an edge, but a
\* target the source has already is stamped.
THEOREM EdgesAreDistinct == Spec => []EachEdgeOnce
<1>1. Init => Stamped
  BY DEF Init, Stamped, EachEdgeOnce
<1>2. ASSUME Base, Base', Stamped, [Next]_vars PROVE Stamped'
  <2>1. ASSUME NEW target \in Ids, AddEdge(target) PROVE Stamped'
    <3>1. /\ phase = "edges" /\ next \in 1 .. Len(children) /\ Len(children) \in Nat
          /\ Len(children) = Len(objects) /\ children[next] \in Seq(ObjectIds)
      BY <1>2, <2>1, AtEdge DEF AddEdge
    <3>2. phase' = phase /\ next' = next /\ epoch' = epoch
      BY <2>1 DEF AddEdge, epoch
    <3>3. Len(children') = Len(children) /\ target \in ObjectIds
      BY <1>2, <2>1, AddEdgeEffect
    <3>4. CASE UNCHANGED <<seen, children>>
      BY <1>2, <3>2, <3>4 DEF Stamped, EachEdgeOnce
    <3>5. CASE seen[target + 1] # epoch /\ ~ UNCHANGED <<seen, children>>
      <4>1. /\ \A t \in ObjectIds : seen'[t + 1] = IF t = target THEN epoch ELSE seen[t + 1]
            /\ \A o \in 1 .. Len(children) : ToSet(children'[o]) =
                 IF o = next THEN ToSet(children[o]) \cup {target} ELSE ToSet(children[o])
            /\ \A o \in 1 .. Len(children) :
                 IsInjective(children[o]) /\ (o = next => target \notin ToSet(children[o])) =>
                   IsInjective(children'[o])
        BY <1>2, <2>1, <3>5, AddEdgeEffect
      <4>2. target \notin ToSet(children[next])
        BY <1>2, <3>1, <3>5 DEF Stamped
      <4>3. EachEdgeOnce'
        BY <1>2, <3>3, <4>1, <4>2 DEF Stamped, EachEdgeOnce
      <4>4. \A o \in next + 1 .. Len(children') : children'[o] = <<>>
        <5>1. children' = [children EXCEPT ![next] = Append(@, target)]
          BY <2>1, <3>5 DEF AddEdge
        <5>2. \A o \in next + 1 .. Len(children) : children'[o] = children[o]
          BY <1>2, <3>1, <5>1 DEF Base, Types
        <5> QED BY <1>2, <3>1, <3>3, <5>2 DEF Stamped
      <4>5. \A t \in ToSet(children'[next]) : seen'[t + 1] = epoch
        <5>1. ToSet(children[next]) \subseteq ObjectIds
          BY <3>1 DEF ToSet
        <5>2. \A t \in ToSet(children[next]) : seen[t + 1] = epoch
          BY <1>2, <3>1 DEF Stamped
        <5> QED BY <3>1, <3>3, <4>1, <5>1, <5>2
      <4>6. \A o \in next' + 1 .. Len(children') : children'[o] = <<>>
        BY <3>2, <4>4
      <4>7. \A t \in ToSet(children'[next']) : seen'[t + 1] = epoch'
        BY <3>2, <4>5, Zenon
      <4> QED BY <4>3, <4>6, <4>7 DEF Stamped
    <3> QED BY <1>2, <2>1, <3>4, <3>5, AddEdgeEffect
  <2>2. ASSUME \A target \in Ids : ~ AddEdge(target) PROVE Stamped'
    <3>1. /\ UNCHANGED edgeVars \/ (phase = "objects" /\ phase' = "objects" /\ AppendObject)
          /\ phase' = "edges" => phase \in {"ranges", "edges"}
          /\ phase = "edges" /\ phase' = "edges" => UNCHANGED next \/ next' = next + 1
          /\ phase = "ranges" /\ phase' = "edges" => next' = 1
      BY <1>2, <2>2, OtherSteps
    <3>2. CASE phase' \in {"objects", "ranges"}
      <4>1. \A o \in 1 .. Len(children') : children'[o] = <<>>
        BY <1>2, <3>2 DEF Base, Unlinked
      <4>2. EachEdgeOnce'
        BY <4>1 DEF EachEdgeOnce, IsInjective
      <4> QED BY <3>2, <4>2 DEF Stamped
    <3>3. CASE UNCHANGED edgeVars /\ phase' \notin {"objects", "ranges", "edges"}
      BY <1>2, <3>3 DEF edgeVars, Stamped, EachEdgeOnce
    <3>4. CASE UNCHANGED edgeVars /\ phase' = "edges"
      <4>1. children' = children /\ seen' = seen
        BY <3>4 DEF edgeVars
      <4>2. EachEdgeOnce'
        BY <1>2, <4>1 DEF Stamped, EachEdgeOnce
      <4>3. next \in Nat /\ Len(children) \in Nat
        BY <1>2 DEF Base, Types
      <4>4. CASE phase = "ranges"
        <5>1. \A o \in 1 .. Len(children) : ToSet(children[o]) = {} /\ children[o] = <<>>
          BY <1>2, <4>4, NoEdges
        <5>2. next' = 1
          BY <3>1, <3>4, <4>4
        <5> QED BY <4>1, <4>2, <4>3, <5>1, <5>2 DEF Stamped
      <4>5. CASE phase = "edges" /\ next' = next
        <5>1. epoch' = epoch
          BY <4>5 DEF epoch
        <5> QED BY <1>2, <4>1, <4>2, <4>5, <5>1 DEF Stamped
      <4>6. CASE phase = "edges" /\ next' = next + 1
        <5>1. \A o \in next + 1 .. Len(children) : children[o] = <<>>
          BY <1>2, <4>6 DEF Stamped
        <5>2. \A o \in next' + 1 .. Len(children') : children'[o] = <<>>
          BY <4>1, <4>3, <4>6, <5>1
        <5>3. next' <= Len(children') => ToSet(children'[next']) = {}
          <6>1. next' <= Len(children') => children'[next'] = <<>>
            BY <4>1, <4>3, <4>6, <5>1
          <6> QED BY <6>1, ElementsOfNone
        <5> QED BY <4>2, <5>2, <5>3 DEF Stamped
      <4> QED BY <3>1, <3>4, <4>4, <4>5, <4>6
    <3> QED BY <3>1, <3>2, <3>3, <3>4
  <2> QED BY <2>1, <2>2
<1>3. Stamped => EachEdgeOnce
  BY DEF Stamped
<1> QED BY <1>1, <1>2, <1>3, BaseInvariant, PTL DEF Spec

\* The stamps lose no edge of a dump with fewer objects than there are stamps.
\* (With as many, the epoch of the last source is 0, the stamp of a target
\* that no source has stamped, and its edges are lost.)
THEOREM StampsLoseNothing ==
  ASSUME \A in \in Inputs : Len(in.objects) <= MaxId
  PROVE  Spec => []EdgesAreReferences
<1>1. Init => StampedOnly /\ Fits
  BY DEF Init, StampedOnly, EdgesAreReferences, Fits, objects
<1>2. ASSUME Base, Base', Fits, StampedOnly, [Next]_vars PROVE Fits' /\ StampedOnly'
  <2>1. ASSUME NEW target \in Ids, AddEdge(target) PROVE Fits' /\ StampedOnly'
    <3>1. /\ phase = "edges" /\ next \in 1 .. Len(children) /\ Len(children) \in Nat
          /\ Len(children) = Len(objects)
      BY <1>2, <2>1, AtEdge DEF AddEdge
    <3>2. /\ phase' = phase /\ next' = next /\ objects' = objects /\ Len(children') = Len(children)
          /\ target \in ObjectIds
          /\ \A o \in 1 .. Len(children) : ToSet(references'[o]) =
               IF o = next THEN ToSet(references[o]) \cup {target} ELSE ToSet(references[o])
      BY <1>2, <2>1, AddEdgeEffect DEF AddEdge, argVars, objects
    <3>3. epoch = next
      BY <1>2, <3>1, GraphAssumption DEF Fits, epoch
    <3>4. /\ \A o \in 1 .. Len(children) : ToSet(children[o]) = ToSet(references[o])
          /\ \A t \in ObjectIds : /\ seen[t + 1] <= next
                                  /\ seen[t + 1] = next => t \in ToSet(children[next])
      BY <1>2, <3>1 DEF StampedOnly, EdgesAreReferences
    <3>5. /\ \A o \in 1 .. Len(children) : ToSet(children'[o]) = ToSet(references'[o])
          /\ \A t \in ObjectIds : /\ seen'[t + 1] <= next
                                  /\ seen'[t + 1] = next => t \in ToSet(children'[next])
      <4>1. CASE seen[target + 1] = epoch /\ UNCHANGED <<seen, children>>
        <5>1. target \in ToSet(children[next])
          BY <3>2, <3>3, <3>4, <4>1
        <5> QED BY <3>2, <3>4, <4>1, <5>1
      <4>2. CASE /\ \A t \in ObjectIds : seen'[t + 1] = IF t = target THEN epoch ELSE seen[t + 1]
                 /\ \A o \in 1 .. Len(children) : ToSet(children'[o]) =
                      IF o = next THEN ToSet(children[o]) \cup {target} ELSE ToSet(children[o])
        BY <3>1, <3>2, <3>3, <3>4, <4>2
      <4> QED BY <1>2, <2>1, <4>1, <4>2, AddEdgeEffect
    <3>6. Fits' /\ EdgesAreReferences'
      BY <1>2, <3>2, <3>5 DEF Fits, EdgesAreReferences
    <3>7. ObjectIds' = ObjectIds
      BY <3>2 DEF ObjectIds
    <3> QED BY <3>1, <3>2, <3>5, <3>6, <3>7 DEF StampedOnly
  <2>2. ASSUME \A target \in Ids : ~ AddEdge(target) PROVE Fits' /\ StampedOnly'
    <3>1. /\ UNCHANGED edgeVars \/ (phase = "objects" /\ phase' = "objects" /\ AppendObject)
          /\ phase' = "edges" => phase \in {"ranges", "edges"}
          /\ phase' \in {"objects", "ranges"} => phase \in {"objects", "ranges"}
          /\ phase = "edges" /\ phase' = "edges" => UNCHANGED next \/ next' = next + 1
          /\ phase = "ranges" /\ phase' = "edges" => next' = 1
          /\ objects' = objects
      BY <1>2, <2>2, OtherSteps
    <3>2. Fits' /\ ObjectIds' = ObjectIds
      BY <1>2, <3>1 DEF Fits, ObjectIds
    <3>3. CASE phase' \in {"objects", "ranges"}
      <4>1. EdgesAreReferences'
        BY <1>2, <3>3 DEF Base, Unlinked, EdgesAreReferences
      <4>2. \A t \in 1 .. Len(children') : seen'[t] = 0
        <5>1. \A t \in 1 .. Len(children) : seen[t] = 0
          BY <1>2, <3>1, <3>3 DEF StampedOnly
        <5>2. seen \in Seq(0 .. MaxId) /\ Len(seen) = Len(children) /\ Len(children) \in Nat
              /\ children \in Seq(Seq(ObjectIds))
          BY <1>2 DEF Base, Types
        <5>3. CASE UNCHANGED edgeVars
          BY <5>1, <5>3 DEF edgeVars
        <5>4. CASE AppendObject
          <6>1. 0 \in 0 .. MaxId
            BY GraphAssumption
          <6>2. Len(seen') = Len(seen) + 1
                /\ \A t \in 1 .. Len(seen) + 1 :
                     seen'[t] = IF t = Len(seen) + 1 THEN 0 ELSE seen[t]
            BY <5>2, <5>4, <6>1 DEF AppendObject
          <6>3. Len(children') = Len(children) + 1
            BY <5>2, <5>4 DEF AppendObject
          <6> QED BY <5>1, <5>2, <6>2, <6>3
        <5> QED BY <3>1, <5>3, <5>4
      <4> QED BY <3>2, <3>3, <4>1, <4>2 DEF StampedOnly
    <3>4. CASE UNCHANGED edgeVars /\ phase' \notin {"objects", "ranges"}
      <4>1. children' = children /\ seen' = seen /\ references' = references
        BY <3>4 DEF edgeVars
      <4>2. EdgesAreReferences'
        BY <1>2, <4>1 DEF StampedOnly, EdgesAreReferences
      <4>3. ASSUME phase' = "edges", NEW t \in ObjectIds
            PROVE  /\ seen[t + 1] <= next'
                   /\ seen[t + 1] = next' /\ next' <= Len(children) => t \in ToSet(children[next'])
        <5>1. next \in Nat
          BY <1>2 DEF Base, Types
        <5>2. t + 1 \in 1 .. Len(children) /\ seen[t + 1] \in Nat
          <6>1. Len(children) = Len(objects) /\ Len(seen) = Len(children)
            BY <1>2, <3>1, <4>1, <4>3 DEF Base, Indexed, Types
          <6>2. t + 1 \in 1 .. Len(seen) /\ seen \in Seq(0 .. MaxId)
            BY <1>2, <6>1 DEF Base, Types, ObjectIds
          <6>3. seen[t + 1] \in 0 .. MaxId
            BY <6>2, ElementTypes
          <6> QED BY <6>1, <6>2, <6>3
        <5>3. CASE phase = "ranges"
          BY <1>2, <3>1, <4>3, <5>2, <5>3 DEF StampedOnly
        <5>4. CASE phase = "edges"
          <6>1. seen[t + 1] <= next
                /\ (seen[t + 1] = next /\ next <= Len(children) => t \in ToSet(children[next]))
            BY <1>2, <5>4 DEF StampedOnly
          <6>2. CASE next' = next
            BY <6>1, <6>2
          <6>3. CASE next' = next + 1
            BY <5>1, <5>2, <6>1, <6>3
          <6> QED BY <3>1, <4>3, <5>4, <6>2, <6>3
        <5> QED BY <3>1, <4>3, <5>3, <5>4
      <4> QED BY <3>2, <3>4, <4>1, <4>2, <4>3 DEF StampedOnly
    <3> QED BY <3>1, <3>3, <3>4
  <2> QED BY <2>1, <2>2
<1>3. StampedOnly => EdgesAreReferences
  BY DEF StampedOnly
<1> QED BY <1>1, <1>2, <1>3, BaseInvariant, PTL DEF Spec

-----------------------------------------------------------------------------
(* What is returned *)

\* Past the indexing, the dump and the lookup stay as they are.
LEMMA FindStays ==
  ASSUME Base, [Next]_vars
  PROVE  /\ input' = input /\ objects' = objects
         /\ phase # "objects" => /\ UNCHANGED <<byAddr, ranges>>
                                 /\ \A w : Find(w)' = Find(w)
<1>1. input' = input /\ objects' = objects
  BY DEF Next, vars, IndexWithoutLookup, Index, IndexFails, Fail, Sweep, SkipPointer, NextSource,
         AddEdge, AddGoroutine, AddGlobal, AddFinalizer, AddBytes, BytesOverflow, Return, NextLoop,
         Cancel, argVars, objects
<1>2. ASSUME phase # "objects" PROVE UNCHANGED <<byAddr, ranges>>
  BY <1>2 DEF Next, vars, IndexWithoutLookup, Index, IndexFails, Fail, Sweep, SkipPointer,
         NextSource, AddEdge, AddGoroutine, AddGlobal, AddFinalizer, AddBytes, BytesOverflow,
         Return, NextLoop, Cancel, Element, indexVars
<1>3. ASSUME UNCHANGED <<byAddr, ranges>> PROVE \A w : Find(w)' = Find(w)
  BY <1>3 DEF Find
<1> QED BY <1>1, <1>2, <1>3

\* What each step does to the position in the loops.
LEMMA Positions ==
  ASSUME Base, Bounded, Unstarted, [Next]_vars, phase' # "failed"
  PROVE  \/ /\ phase \in {"objects", "ranges"} /\ phase' \in {"objects", "ranges"}
            /\ UNCHANGED <<word, rootVars, stats>>
         \/ phase \notin {"objects", "ranges"} /\ UNCHANGED <<phase, next, word, rootVars, stats>>
                                               /\ UNCHANGED references
         \/ NextLoop \/ SkipPointer \/ NextSource \/ (\E target \in Ids : AddEdge(target))
         \/ AddGoroutine \/ AddGlobal \/ AddFinalizer \/ AddBytes \/ Return
<1>1. CASE UNCHANGED vars
  BY <1>1 DEF vars, edgeVars
<1>2. CASE IndexFails \/ BytesOverflow \/ Cancel
  BY <1>2 DEF IndexFails, BytesOverflow, Cancel, Fail
<1>3. CASE IndexWithoutLookup \/ Index
  BY <1>3 DEF IndexWithoutLookup, Index, Element, Advance
<1>4. CASE Sweep
  BY <1>4 DEF Sweep, ComesNext, Past
<1> QED BY <1>1, <1>2, <1>3, <1>4 DEF Next

\* The loops stay within the dump, and roots and counters wait for the sweep.
LEMMA BoundedInvariant == Spec => [](Bounded /\ Unstarted)
<1>1. Init => Bounded /\ Unstarted
  BY DEF Init, Bounded, Unstarted
<1>2. ASSUME Base, Bounded, Unstarted, [Next]_vars PROVE Bounded' /\ Unstarted'
  <2>1. /\ input' = input /\ objects' = objects /\ next \in Nat \ {0} /\ word \in Nat \ {0}
        /\ \A o \in 1 .. Len(objects) : Len(objects[o].pointers) \in Nat
        /\ Len(objects) \in Nat /\ Len(input.goroutines) \in Nat /\ Len(input.globals) \in Nat
        /\ Len(input.finalizers) \in Nat
    <3>1. \A o \in 1 .. Len(objects) : objects[o].pointers \in Seq(Addrs)
      BY <1>2, SourceTypes DEF Base
    <3>2. \A o \in 1 .. Len(objects) : Len(objects[o].pointers) \in Nat
      BY <3>1
    <3> QED BY SMTT(30), <1>2, <3>2, FindStays, InputTypes DEF Base, Types
  <2>2. CASE phase' = "failed"
    BY <2>2 DEF Bounded, Unstarted
  <2>3. CASE /\ phase \in {"objects", "ranges"} /\ phase' \in {"objects", "ranges"}
             /\ UNCHANGED <<word, rootVars, stats>>
    BY <1>2, <2>3 DEF Bounded, Unstarted, rootVars
  <2>4. CASE /\ phase \notin {"objects", "ranges"}
             /\ UNCHANGED <<phase, next, word, rootVars, stats>>
    BY <1>2, <2>1, <2>4 DEF Bounded, Unstarted, Size
  <2>5. CASE NextLoop
    <3>1. next' = 1 /\ UNCHANGED <<word, rootVars, stats>> /\ Done(phase)
      BY <2>5 DEF NextLoop
    <3>2. CASE phase = "objects" /\ phase' = "ranges"
      BY <1>2, <3>1, <3>2 DEF Bounded, Unstarted, rootVars
    <3>3. CASE phase = "ranges" /\ phase' = "edges"
      <4>1. 1 <= Len(objects) => Len(objects[1].pointers) \in Nat
        BY <2>1
      <4> QED BY <1>2, <2>1, <3>1, <3>3, <4>1 DEF Bounded, Unstarted, Size
    <3>4. CASE phase' \in {"goroutines", "globals", "finalizers", "totals"}
      BY <2>1, <3>1, <3>4 DEF Bounded, Unstarted, Size
    <3> QED BY <2>5, <3>2, <3>3, <3>4, LoopOrder
  <2>6. CASE SkipPointer \/ \E target \in Ids : AddEdge(target)
    <3>1. /\ phase = "edges" /\ phase' = "edges" /\ next' = next /\ word' = word + 1
          /\ next <= Len(objects) /\ word <= Len(objects[next].pointers)
      BY <2>6 DEF SkipPointer, AddEdge, AtPointer, NextPointer, Element, Size
    <3>2. Len(objects[next].pointers) \in Nat
      BY <2>1, <3>1
    <3> QED BY <2>1, <3>1, <3>2 DEF Bounded, Unstarted, Size
  <2>7. CASE NextSource
    <3>1. /\ phase = "edges" /\ phase' = "edges" /\ next' = next + 1 /\ word' = 1
          /\ next <= Len(objects)
      BY <2>7 DEF NextSource, Element, Advance, Size
    <3>2. next' <= Len(objects) => Len(objects[next'].pointers) \in Nat
      BY <2>1, <3>1
    <3> QED BY <2>1, <3>1, <3>2 DEF Bounded, Unstarted, Size
  <2>8. CASE AddGoroutine \/ AddGlobal \/ AddFinalizer \/ AddBytes
    <3>1. /\ phase \in {"goroutines", "globals", "finalizers", "totals"} /\ phase' = phase
          /\ next' = next + 1 /\ next <= Size(phase)
      BY <2>8 DEF AddGoroutine, AddGlobal, AddFinalizer, AddBytes, Element, Advance
    <3> QED BY <2>1, <3>1 DEF Bounded, Unstarted, Size
  <2>9. CASE Return
    BY <2>9 DEF Return, Bounded, Unstarted
  <2> QED BY <1>2, <2>2, <2>3, <2>4, <2>5, <2>6, <2>7, <2>8, <2>9, Positions
<1> QED BY <1>1, <1>2, BaseInvariant, PTL DEF Spec

\* No word is handled when the loop over the edges starts; a pointer is then
\* one more word of the source at hand; and no other step handles one.
NoneHandled ==
  /\ phase = "ranges" /\ phase' = "edges" /\ next' = 1 /\ UNCHANGED <<references, word, stats>>
  /\ word = 1 /\ \A o \in 1 .. Len(objects) : HandledWords(o)' = {}
SameHandled ==
  /\ Swept /\ UNCHANGED references
  /\ ~ SkipPointer /\ \A target \in Ids : ~ AddEdge(target)
  /\ \A o \in 1 .. Len(objects) : HandledWords(o)' = HandledWords(o)
OneHandled ==
  /\ phase = "edges" /\ phase' = "edges" /\ next' = next /\ word' = word + 1
  /\ SkipPointer \/ \E target \in Ids : AddEdge(target)
  /\ \A o \in 1 .. Len(objects) : HandledWords(o)' =
       IF o = next THEN HandledWords(o) \cup {pointer} ELSE HandledWords(o)

\* Each step handles at most one pointer, the one at hand.
LEMMA HandledGrows ==
  ASSUME Base, Bounded, Unstarted, [Next]_vars, Swept'
  PROVE  NoneHandled \/ SameHandled \/ OneHandled
<1>1. /\ objects' = objects /\ next \in Nat \ {0} /\ word \in Nat \ {0} /\ Len(objects) \in Nat
      /\ \A o \in 1 .. Len(objects) : Len(objects[o].pointers) \in Nat
  <2>1. \A o \in 1 .. Len(objects) : objects[o].pointers \in Seq(Addrs)
    BY SourceTypes DEF Base
  <2>2. \A o \in 1 .. Len(objects) : Len(objects[o].pointers) \in Nat
    BY <2>1
  <2> QED BY <2>2, FindStays, InputTypes DEF Base, Types
<1>2. \A o : HandledWords(o)' = {objects[o].pointers[i] : i \in 1 .. Handled(o)'}
  BY <1>1 DEF HandledWords
<1>3. ASSUME \A o \in 1 .. Len(objects) : Handled(o)' = Handled(o)
      PROVE  \A o \in 1 .. Len(objects) : HandledWords(o)' = HandledWords(o)
  <2> TAKE o \in 1 .. Len(objects)
  <2>1. Handled(o)' = Handled(o)
    BY <1>3
  <2> QED BY <1>2, <2>1 DEF HandledWords
<1>4. phase' \notin {"objects", "ranges", "failed"}
  BY DEF Swept
<1>5. CASE SkipPointer \/ \E target \in Ids : AddEdge(target)
  <2>1. AtPointer /\ word' = word + 1 /\ next' = next /\ phase' = phase
    BY <1>5 DEF SkipPointer, AddEdge, NextPointer
  <2>2. /\ phase = "edges" /\ next \in 1 .. Len(objects)
        /\ word \in 1 .. Len(objects[next].pointers)
    BY <2>1, AtEdge
  <2>3. Handled(next) = word - 1 /\ Handled(next)' = word
    BY <1>1, <2>1, <2>2 DEF Handled
  <2>4. \A o \in 1 .. Len(objects) : o # next => Handled(o)' = Handled(o)
    BY <1>1, <2>1, <2>2 DEF Handled
  <2>5. HandledWords(next)' = HandledWords(next) \cup {pointer}
    <3>1. 1 .. word = (1 .. (word - 1)) \cup {word}
      BY <1>1
    <3>2. HandledWords(next)' = {objects[next].pointers[i] : i \in 1 .. word}
      BY <1>1, <2>1, <2>3 DEF HandledWords
    <3>3. HandledWords(next) = {objects[next].pointers[i] : i \in 1 .. (word - 1)}
      BY <2>3 DEF HandledWords
    <3> QED BY <3>1, <3>2, <3>3 DEF pointer
  <2>6. \A o \in 1 .. Len(objects) : HandledWords(o)' =
          IF o = next THEN HandledWords(o) \cup {pointer} ELSE HandledWords(o)
    <3> TAKE o \in 1 .. Len(objects)
    <3>1. CASE o = next
      <4>1. HandledWords(o)' = {objects[o].pointers[i] : i \in 1 .. Handled(o)'}
            /\ HandledWords(next)' = {objects[next].pointers[i] : i \in 1 .. Handled(next)'}
        BY <1>2, <2>1, <1>1 DEF HandledWords
      <4>2. Handled(o)' = Handled(next)'
        BY <2>1, <3>1 DEF Handled
      <4> QED BY <2>5, <3>1, <4>1, <4>2
    <3>2. CASE o # next
      <4>1. Handled(o)' = Handled(o)
        BY <2>4, <3>2
      <4> QED BY <1>2, <3>2, <4>1 DEF HandledWords
    <3> QED BY <3>1, <3>2
  <2> QED BY <1>5, <2>1, <2>2, <2>6 DEF OneHandled
<1>6. SUFFICES ASSUME ~ SkipPointer, \A target \in Ids : ~ AddEdge(target)
               PROVE  NoneHandled \/ SameHandled
  BY <1>5
<1>7. CASE NextLoop
  <2>1. next' = 1 /\ word' = word /\ stats' = stats /\ references' = references /\ Done(phase)
    BY <1>7 DEF NextLoop, edgeVars
  <2>2. CASE phase = "ranges" /\ phase' = "edges"
    <3>1. word = 1
      BY <2>2 DEF Unstarted
    <3>2. \A o \in 1 .. Len(objects) : Handled(o)' = 0
      BY <2>1, <2>2, <3>1 DEF Handled
    <3>3. \A o \in 1 .. Len(objects) : HandledWords(o)' = {}
      <4> TAKE o \in 1 .. Len(objects)
      <4>1. Handled(o)' = 0
        BY <3>2
      <4> QED BY <1>2, <4>1
    <3> QED BY <2>1, <2>2, <3>1, <3>3 DEF NoneHandled
  <2>3. CASE phase = "edges" /\ phase' = "goroutines"
    <3>1. next > Len(objects)
      BY <2>1, <2>3 DEF Done, Size
    <3>2. \A o \in 1 .. Len(objects) : Handled(o)' = Handled(o)
      BY <1>1, <2>3, <3>1 DEF Handled
    <3> QED BY <1>3, <1>6, <2>1, <2>3, <3>2 DEF SameHandled, Swept
  <2>4. CASE /\ phase \in {"goroutines", "globals", "finalizers"}
             /\ phase' \in {"globals", "finalizers", "totals"}
    <3>1. \A o \in 1 .. Len(objects) : Handled(o)' = Handled(o)
      BY <1>1, <2>4 DEF Handled
    <3> QED BY <1>3, <1>6, <2>1, <2>4, <3>1 DEF SameHandled, Swept
  <2> QED BY <1>4, <1>7, <2>2, <2>3, <2>4, LoopOrder
<1>8. CASE NextSource
  <2>1. /\ phase = "edges" /\ phase' = "edges" /\ next' = next + 1 /\ word' = 1
        /\ next <= Len(objects) /\ word > Len(objects[next].pointers)
        /\ references' = references
    BY <1>8 DEF NextSource, Element, Advance, Size, edgeVars
  <2>2. word = Len(objects[next].pointers) + 1
    BY <1>1, <2>1 DEF Bounded
  <2>3. \A o \in 1 .. Len(objects) : Handled(o)' = Handled(o)
    BY <1>1, <2>1, <2>2 DEF Handled
  <2> QED BY <1>3, <1>6, <2>1, <2>3 DEF SameHandled, Swept
<1>9. CASE \/ AddGoroutine \/ AddGlobal \/ AddFinalizer \/ AddBytes \/ Return
  <2>1. /\ phase \notin {"objects", "ranges", "failed", "edges"} /\ phase' # "edges"
        /\ references' = references
    BY <1>9 DEF AddGoroutine, AddGlobal, AddFinalizer, AddBytes, Return, Element, Advance, edgeVars
  <2>2. \A o \in 1 .. Len(objects) : Handled(o)' = Handled(o)
    BY <1>1, <2>1 DEF Handled
  <2> QED BY <1>3, <1>6, <2>1, <2>2 DEF SameHandled, Swept
<1>10. CASE /\ phase \notin {"objects", "ranges"} /\ UNCHANGED <<phase, next, word, rootVars, stats>>
           /\ UNCHANGED references
  <2>1. \A o \in 1 .. Len(objects) : Handled(o)' = Handled(o)
    BY <1>1, <1>10 DEF Handled
  <2> QED BY <1>3, <1>6, <1>4, <1>10, <2>1 DEF SameHandled, Swept
<1> QED BY <1>4, <1>6, <1>7, <1>8, <1>9, <1>10, Positions

\* What is found of a set of words is added up word by word.
LEMMA FoundOfMore ==
  /\ FoundOf({}) = {}
  /\ \A words, w : FoundOf(words \cup {w}) = FoundOf(words) \cup Find(w)
BY DEF FoundOf

\* A pointer handled is a reference exactly if it is found.
LEMMA LinkedStep ==
  ASSUME Base, Bounded, Unstarted, Linked, [Next]_vars
  PROVE  Linked'
<1> SUFFICES ASSUME Swept', NEW o \in 1 .. Len(objects)
             PROVE  ToSet(references'[o]) = FoundOf(HandledWords(o))'
  BY FindStays DEF Linked
<1>1. NoneHandled \/ SameHandled \/ OneHandled
  BY HandledGrows
<1>2. phase # "objects" /\ (Swept \/ NoneHandled)
  BY <1>1 DEF NoneHandled, SameHandled, OneHandled, Swept
<1>3. FoundOf(HandledWords(o))' = FoundOf(HandledWords(o)')
  <2>1. \A w : Find(w)' = Find(w)
    BY <1>2, FindStays
  <2> QED BY <2>1 DEF FoundOf
<1>4. Len(children) = Len(objects)
  BY <1>1 DEF Base, Indexed, NoneHandled, SameHandled, OneHandled, Swept
<1>5. CASE NoneHandled
  <2>1. references'[o] = <<>> /\ HandledWords(o)' = {}
    BY <1>4, <1>5 DEF NoneHandled, Base, Unlinked
  <2> QED BY <1>3, <2>1, ElementsOfNone, FoundOfMore
<1>6. CASE SameHandled
  <2>1. ToSet(references[o]) = FoundOf(HandledWords(o))
    BY <1>6 DEF SameHandled, Linked
  <2>2. references' = references /\ HandledWords(o)' = HandledWords(o)
    BY <1>6 DEF SameHandled
  <2> QED BY <1>3, <2>1, <2>2
<1>7. CASE OneHandled
  <2>1. ToSet(references[o]) = FoundOf(HandledWords(o))
    BY <1>7 DEF OneHandled, Linked, Swept
  <2>2. HandledWords(o)' = IF o = next THEN HandledWords(o) \cup {pointer} ELSE HandledWords(o)
    BY <1>7 DEF OneHandled
  <2> DEFINE more == HandledWords(o) \cup {pointer}
  <2> HIDE DEF more
  <2>3. FoundOf(more) = FoundOf(HandledWords(o)) \cup Find(pointer)
    BY FoundOfMore DEF more
  <2>4. IF o = next THEN FoundOf(HandledWords(o))' = FoundOf(more)
        ELSE FoundOf(HandledWords(o))' = FoundOf(HandledWords(o))
    BY <1>3, <2>2, Zenon DEF more
  <2>5. CASE SkipPointer
    <3>1. references' = references /\ Find(pointer) = {}
      BY <2>5 DEF SkipPointer, edgeVars
    <3> QED BY <2>3, <2>4, <2>1, <3>1
  <2>6. CASE \E target \in Ids : AddEdge(target)
    <3>1. PICK target \in Ids : AddEdge(target)
      BY <2>6
    <3>2. ToSet(references'[o]) =
            IF o = next THEN ToSet(references[o]) \cup {target} ELSE ToSet(references[o])
      BY <1>4, <3>1, AddEdgeEffect
    <3>3. Find(pointer) = {target}
      <4>1. target \in Find(pointer)
        BY <3>1 DEF AddEdge
      <4> QED BY <4>1, FindIsAnId
    <3> QED BY <2>3, <2>4, <2>1, <3>2, <3>3
  <2> QED BY <1>7, <2>5, <2>6 DEF OneHandled
<1> QED BY <1>1, <1>5, <1>6, <1>7

\* With a pointer, the number of pointers and of one kind of them grow.
LEMMA PointerCounts ==
  ASSUME NEW c \in Counters, c # "raw", stats \in [Counters -> Nat],
         stats' = [stats EXCEPT !.raw = @ + 1, ![c] = @ + 1]
  PROVE  \A d \in Counters : stats'[d] = IF d \in {"raw", c} THEN stats[d] + 1 ELSE stats[d]
OBVIOUS

\* With the words of a root, one counter grows.
LEMMA WordCounts ==
  ASSUME NEW c \in Counters, NEW k, stats \in [Counters -> Nat],
         stats' = [stats EXCEPT ![c] = @ + k]
  PROVE  \A d \in Counters : stats'[d] = IF d = c THEN stats[d] + k ELSE stats[d]
OBVIOUS

\* The counters an action other than the handling of a pointer changes.
LEMMA CountersStay ==
  ASSUME Base, Bounded, Unstarted, [Next]_vars, phase' # "failed"
  PROVE  /\ ~ SkipPointer /\ (\A target \in Ids : ~ AddEdge(target)) =>
              UNCHANGED <<stats.raw, stats.zero, stats.resolved, stats.unresolved>>
         /\ ~ AddGoroutine => stats'.unresolvedStack = stats.unresolvedStack
         /\ ~ AddGlobal => stats'.unresolvedGlobal = stats.unresolvedGlobal
         /\ ~ AddFinalizer => stats'.unresolvedFinalizer = stats.unresolvedFinalizer
         /\ ~ AddBytes => stats'.bytes = stats.bytes
<1>1. stats \in [Counters -> Nat]
  BY DEF Base, Types
<1>2. CASE SkipPointer
  <2>1. PICK c \in {"zero", "unresolved"} : stats' = [stats EXCEPT !.raw = @ + 1, ![c] = @ + 1]
    BY <1>2 DEF SkipPointer
  <2>2. \A d \in Counters : stats'[d] = IF d \in {"raw", c} THEN stats[d] + 1 ELSE stats[d]
    <3>1. c \in Counters /\ c # "raw"
      BY DEF Counters
    <3> QED BY <1>1, <2>1, <3>1, PointerCounts
  <2> QED BY <1>2, <2>2 DEF Counters
<1>3. CASE \E target \in Ids : AddEdge(target)
  <2>1. stats' = [stats EXCEPT !.raw = @ + 1, !.resolved = @ + 1]
    BY <1>3 DEF AddEdge
  <2>2. \A d \in Counters : stats'[d] = IF d \in {"raw", "resolved"} THEN stats[d] + 1 ELSE stats[d]
    <3>1. "resolved" \in Counters
      BY DEF Counters
    <3> QED BY <1>1, <2>1, <3>1, PointerCounts
  <2> QED BY <1>3, <2>2 DEF Counters
<1>4. CASE AddGoroutine
  <2>1. PICK k : stats' = [stats EXCEPT !.unresolvedStack = @ + k]
    BY <1>4 DEF AddGoroutine, Count
  <2>2. \A d \in Counters : stats'[d] = IF d = "unresolvedStack" THEN stats[d] + k ELSE stats[d]
    <3>1. "unresolvedStack" \in Counters
      BY DEF Counters
    <3> QED BY <1>1, <2>1, <3>1, WordCounts
  <2> QED BY <1>4, <2>2 DEF Counters
<1>5. CASE AddGlobal
  <2>1. CASE UNCHANGED stats
    BY <2>1
  <2>2. CASE \E k : stats' = [stats EXCEPT !.unresolvedGlobal = @ + k]
    <3>1. PICK k : stats' = [stats EXCEPT !.unresolvedGlobal = @ + k]
      BY <2>2
    <3>2. \A d \in Counters : stats'[d] = IF d = "unresolvedGlobal" THEN stats[d] + k ELSE stats[d]
      <4>1. "unresolvedGlobal" \in Counters
        BY DEF Counters
      <4> QED BY <1>1, <3>1, <4>1, WordCounts
    <3> QED BY <1>5, <3>2 DEF Counters
  <2> QED BY <1>5, <2>1, <2>2 DEF AddGlobal, Count
<1>6. CASE AddFinalizer
  <2>1. PICK k : stats' = [stats EXCEPT !.unresolvedFinalizer = @ + k]
    BY <1>6 DEF AddFinalizer, Count
  <2>2. \A d \in Counters : stats'[d] = IF d = "unresolvedFinalizer" THEN stats[d] + k ELSE stats[d]
    <3>1. "unresolvedFinalizer" \in Counters
      BY DEF Counters
    <3> QED BY <1>1, <2>1, <3>1, WordCounts
  <2> QED BY <1>6, <2>2 DEF Counters
<1>7. CASE AddBytes
  <2>1. PICK k : stats' = [stats EXCEPT !.bytes = @ + k]
    BY <1>7 DEF AddBytes, Count
  <2>2. \A d \in Counters : stats'[d] = IF d = "bytes" THEN stats[d] + k ELSE stats[d]
    <3>1. "bytes" \in Counters
      BY DEF Counters
    <3> QED BY <1>1, <2>1, <3>1, WordCounts
  <2> QED BY <1>7, <2>2 DEF Counters
<1>8. CASE UNCHANGED stats
  BY <1>8
<1>9. NextLoop \/ NextSource \/ Return => UNCHANGED stats
  BY DEF NextLoop, NextSource, Return
<1> QED BY <1>2, <1>3, <1>4, <1>5, <1>6, <1>7, <1>8, <1>9, Positions

\* The number of pointers of each object, and the sums of them.
LEMMA LengthsAddUp ==
  ASSUME Base
  PROVE  /\ Len(objects) \in Nat
         /\ \A o \in 1 .. Len(objects) : Lengths[o] = Len(objects[o].pointers) /\ Lengths[o] \in Nat
         /\ SumTo(Lengths, 0) = 0 /\ SumTo(Lengths, Len(objects)) = SumOf(Lengths)
         /\ \A k \in 0 .. Len(objects) : SumTo(Lengths, k) \in Nat
         /\ \A k \in 1 .. Len(objects) : SumTo(Lengths, k) = SumTo(Lengths, k - 1) + Lengths[k]
<1>1. Len(objects) \in Nat /\ DOMAIN objects = 1 .. Len(objects)
  BY InputTypes DEF Base
<1>2. \A o \in 1 .. Len(objects) : Len(objects[o].pointers) \in Nat
  <2>1. \A o \in 1 .. Len(objects) : objects[o].pointers \in Seq(Addrs)
    BY SourceTypes DEF Base
  <2> QED BY <2>1
<1>3. /\ Lengths \in [1 .. Len(objects) -> Nat]
      /\ \A o \in 1 .. Len(objects) : Lengths[o] = Len(objects[o].pointers)
  BY <1>1, <1>2 DEF Lengths
<1>4. /\ SumTo(Lengths, 0) = 0 /\ SumTo(Lengths, Len(objects)) = SumOf(Lengths)
      /\ \A k \in 0 .. Len(objects) : SumTo(Lengths, k) \in Nat
      /\ \A k \in 1 .. Len(objects) : SumTo(Lengths, k) = SumTo(Lengths, k - 1) + Lengths[k]
  <2> DEFINE n == Len(objects)
  <2>1. n \in Nat /\ Lengths \in [1 .. n -> Nat]
    BY <1>1, <1>3
  <2> HIDE DEF n
  <2>2. /\ SumTo(Lengths, 0) = 0 /\ SumTo(Lengths, n) = SumOf(Lengths)
        /\ \A k \in 0 .. n : SumTo(Lengths, k) \in Nat
        /\ \A k \in 1 .. n : SumTo(Lengths, k) = SumTo(Lengths, k - 1) + Lengths[k]
    BY <2>1, SumGrows
  <2> QED BY <2>2 DEF n
<1> QED BY <1>1, <1>2, <1>3, <1>4

\* A pointer counts as one, and as exactly one of the three kinds.
LEMMA CountsAddUp ==
  ASSUME Base, Bounded, Unstarted, Counted, [Next]_vars, Swept'
  PROVE  /\ stats'.raw = IF phase' = "edges" THEN SumTo(Lengths, next' - 1) + (word' - 1)
                         ELSE SumOf(Lengths)
         /\ stats'.raw = stats'.zero + stats'.resolved + stats'.unresolved
<1>1. /\ Len(objects) \in Nat /\ SumTo(Lengths, 0) = 0
      /\ SumTo(Lengths, Len(objects)) = SumOf(Lengths)
      /\ \A o \in 1 .. Len(objects) : Lengths[o] = Len(objects[o].pointers) /\ Lengths[o] \in Nat
      /\ \A k \in 0 .. Len(objects) : SumTo(Lengths, k) \in Nat
      /\ \A k \in 1 .. Len(objects) : SumTo(Lengths, k) = SumTo(Lengths, k - 1) + Lengths[k]
  BY LengthsAddUp
<1>2. /\ stats \in [Counters -> Nat] /\ next \in Nat \ {0} /\ word \in Nat \ {0}
      /\ stats.raw \in Nat /\ stats.zero \in Nat /\ stats.resolved \in Nat
      /\ stats.unresolved \in Nat
  BY DEF Base, Types, Counters
<1>3. phase' \notin {"objects", "ranges", "failed"}
  BY DEF Swept
<1>4. CASE SkipPointer \/ \E target \in Ids : AddEdge(target)
  <2>1. /\ phase = "edges" /\ phase' = "edges" /\ next' = next /\ word' = word + 1
    BY <1>4 DEF SkipPointer, AddEdge, AtPointer, NextPointer, Element
  <2>2. PICK c \in {"zero", "resolved", "unresolved"} :
          stats' = [stats EXCEPT !.raw = @ + 1, ![c] = @ + 1]
    BY <1>4 DEF SkipPointer, AddEdge
  <2>3. \A d \in Counters : stats'[d] = IF d \in {"raw", c} THEN stats[d] + 1 ELSE stats[d]
    <3>1. c \in Counters /\ c # "raw"
      BY DEF Counters
    <3> QED BY <1>2, <2>2, <3>1, PointerCounts
  <2>4. /\ stats'.raw = stats.raw + 1
        /\ stats'.zero + stats'.resolved + stats'.unresolved =
             (stats.zero + stats.resolved + stats.unresolved) + 1
    BY <1>2, <2>3 DEF Counters
  <2>5. /\ stats.raw = SumTo(Lengths, next - 1) + (word - 1)
        /\ stats.raw = stats.zero + stats.resolved + stats.unresolved
    BY <2>1 DEF Counted, Swept
  <2>6. SumTo(Lengths, next - 1) \in Nat
    <3>1. next <= Len(objects) + 1
      BY <2>1 DEF Bounded, Size
    <3>2. next - 1 \in 0 .. Len(objects)
      BY <1>1, <1>2, <3>1
    <3> QED BY <1>1, <3>2
  <2>7. stats'.raw = SumTo(Lengths, next' - 1) + (word' - 1)
    BY <1>2, <2>1, <2>4, <2>5, <2>6
  <2> QED BY <2>1, <2>4, <2>5, <2>7
<1>5. CASE ~ SkipPointer /\ \A target \in Ids : ~ AddEdge(target)
  <2>1. UNCHANGED <<stats.raw, stats.zero, stats.resolved, stats.unresolved>>
    BY <1>3, <1>5, CountersStay
  <2>2. ASSUME Swept PROVE stats'.raw = stats'.zero + stats'.resolved + stats'.unresolved
    BY <2>1, <2>2 DEF Counted
  <2>3. CASE NextLoop /\ phase = "ranges"
    <3>1. phase' = "edges" /\ next' = 1 /\ word' = 1
      BY <2>3, LoopOrder DEF NextLoop, Unstarted
    <3>2. stats.raw = 0 /\ stats.zero = 0 /\ stats.resolved = 0 /\ stats.unresolved = 0
      BY <2>3 DEF Unstarted, Counters
    <3> QED BY <1>1, <2>1, <3>1, <3>2
  <2>4. CASE NextLoop /\ phase = "edges"
    <3>1. next > Len(objects) /\ next <= Len(objects) + 1 /\ word = 1 /\ phase' = "goroutines"
      BY <1>1, <1>2, <2>4, LoopOrder DEF NextLoop, Done, Size, Bounded
    <3>2. next - 1 = Len(objects)
      BY <1>1, <1>2, <3>1
    <3>3. stats.raw = SumTo(Lengths, next - 1) + (word - 1)
      BY <2>4 DEF Counted, Swept
    <3>4. SumTo(Lengths, Len(objects)) \in Nat
      BY <1>1
    <3>5. stats.raw = SumOf(Lengths)
      BY <1>1, <3>1, <3>2, <3>3, <3>4
    <3> QED BY <2>1, <2>2, <2>4, <3>1, <3>5 DEF Swept
  <2>5. CASE NextSource
    <3>1. /\ phase = "edges" /\ phase' = "edges" /\ next' = next + 1 /\ word' = 1
          /\ next <= Len(objects) /\ word > Len(objects[next].pointers)
      BY <2>5 DEF NextSource, Element, Advance, Size
    <3>2. next \in 1 .. Len(objects) /\ next - 1 \in 0 .. Len(objects)
      BY <1>1, <1>2, <3>1
    <3>3. word - 1 = Lengths[next]
      <4>1. word <= Len(objects[next].pointers) + 1
        BY <3>1 DEF Bounded
      <4>2. Lengths[next] = Len(objects[next].pointers) /\ Lengths[next] \in Nat
        BY <1>1, <3>2
      <4> QED BY <1>2, <3>1, <4>1, <4>2
    <3>4. stats.raw = SumTo(Lengths, next - 1) + (word - 1)
      BY <3>1 DEF Counted, Swept
    <3>5. SumTo(Lengths, next) = SumTo(Lengths, next - 1) + Lengths[next]
          /\ SumTo(Lengths, next) \in Nat
      BY <1>1, <3>2
    <3>6. next' - 1 = next /\ word' - 1 = 0
      BY <1>2, <3>1
    <3>7. stats.raw = SumTo(Lengths, next' - 1) + (word' - 1)
      BY <3>3, <3>4, <3>5, <3>6
    <3> QED BY <2>1, <2>2, <3>1, <3>7 DEF Swept
  <2>6. CASE /\ phase \notin {"objects", "ranges", "failed", "edges"} /\ phase' # "edges"
    BY <2>1, <2>2, <2>6 DEF Counted, Swept
  <2>7. CASE phase \notin {"objects", "ranges"} /\ UNCHANGED <<phase, next, word, rootVars, stats>>
    <3>1. phase # "failed" /\ stats' = stats /\ phase' = phase /\ next' = next /\ word' = word
      BY <1>3, <2>7
    <3> QED BY <2>7, <3>1 DEF Counted, Swept
  <2>8. NextLoop => \/ phase = "ranges" \/ phase = "edges"
                    \/ phase \notin {"objects", "ranges", "failed", "edges"} /\ phase' # "edges"
    BY <1>3, LoopOrder
  <2>9. AddGoroutine \/ AddGlobal \/ AddFinalizer \/ AddBytes \/ Return =>
          phase \notin {"objects", "ranges", "failed", "edges"} /\ phase' # "edges"
    BY DEF AddGoroutine, AddGlobal, AddFinalizer, AddBytes, Return, Element, Advance
  <2> QED BY <1>3, <1>5, <2>3, <2>4, <2>5, <2>6, <2>7, <2>8, <2>9, Positions
<1> QED BY <1>4, <1>5

\* A pointer is counted once, as nil, resolved or unresolved.
LEMMA CountedStep ==
  ASSUME Base, Bounded, Unstarted, Counted, [Next]_vars
  PROVE  Counted'
<1> SUFFICES ASSUME Swept' PROVE Counted'
  BY DEF Counted
<1> DEFINE lost == \E o \in 1 .. Len(objects) : \E w \in HandledWords(o) : w # 0 /\ Find(w) = {}
           lostNow == \E o \in 1 .. Len(objects) : \E w \in HandledWords(o)' :
                        w # 0 /\ Find(w) = {}
<1>1. objects' = objects /\ Lengths' = Lengths /\ phase' # "failed"
  BY FindStays DEF Lengths, Swept
<1>2. NoneHandled \/ SameHandled \/ OneHandled
  BY HandledGrows
<1>3. \A w : Find(w)' = Find(w)
  <2>1. phase # "objects"
    BY <1>2 DEF NoneHandled, SameHandled, OneHandled, Swept
  <2> QED BY <2>1, FindStays
<1>4. Swept => (stats.unresolved = 0 <=> ~ lost)
  BY DEF Counted, Known
<1>5. stats \in [Counters -> Nat] /\ stats.unresolved \in Nat
  BY DEF Base, Types, Counters
<1>6. stats'.unresolved = 0 <=> ~ lostNow
  <2>1. CASE NoneHandled
    <3>1. ~ lostNow /\ stats' = stats /\ phase = "ranges"
      BY <2>1 DEF NoneHandled
    <3>2. stats.unresolved = 0
      BY <3>1 DEF Unstarted, Counters
    <3> QED BY <3>1, <3>2
  <2>2. CASE SameHandled
    <3>1. Swept /\ (lost <=> lostNow)
      BY <2>2 DEF SameHandled
    <3>2. stats'.unresolved = stats.unresolved
      BY <1>1, <2>2, CountersStay DEF SameHandled
    <3> HIDE DEF lost, lostNow
    <3> QED BY <1>4, <3>1, <3>2
  <2>3. CASE OneHandled
    <3>1. /\ Swept /\ AtPointer /\ next \in 1 .. Len(objects)
          /\ \A o \in 1 .. Len(objects) : HandledWords(o)' =
               IF o = next THEN HandledWords(o) \cup {pointer} ELSE HandledWords(o)
      BY <2>3, AtEdge DEF OneHandled, Swept, SkipPointer, AddEdge
    <3>2. lostNow <=> lost \/ (pointer # 0 /\ Find(pointer) = {})
      BY <3>1
    <3>3. CASE SkipPointer /\ pointer # 0
      <4>1. Find(pointer) = {} /\ stats' = [stats EXCEPT !.raw = @ + 1, !.unresolved = @ + 1]
        BY <3>3 DEF SkipPointer
      <4>2. "unresolved" \in Counters /\ "unresolved" # "raw"
        BY DEF Counters
      <4>3. stats'.unresolved = stats.unresolved + 1
        BY <1>5, <4>1, <4>2, PointerCounts
      <4> HIDE DEF lost, lostNow
      <4> QED BY <1>5, <3>2, <3>3, <4>1, <4>3
    <3>4. CASE (SkipPointer /\ pointer = 0) \/ \E target \in Ids : AddEdge(target)
      <4>1. ~ (pointer # 0 /\ Find(pointer) = {})
        BY <3>4 DEF AddEdge
      <4>2. PICK c \in {"zero", "resolved"} : stats' = [stats EXCEPT !.raw = @ + 1, ![c] = @ + 1]
        BY <3>4 DEF SkipPointer, AddEdge
      <4>3. c \in Counters /\ c # "raw" /\ c # "unresolved" /\ "unresolved" \in Counters
        BY DEF Counters
      <4>4. stats'.unresolved = stats.unresolved
        BY <1>5, <4>2, <4>3, PointerCounts
      <4> HIDE DEF lost, lostNow
      <4> QED BY <1>4, <3>1, <3>2, <4>1, <4>4
    <3> QED BY <2>3, <3>3, <3>4 DEF OneHandled
  <2> QED BY <1>2, <2>1, <2>2, <2>3
<1>7. lostNow <=> ~ \A o \in 1 .. Len(objects') : Known(HandledWords(o))'
  <2>1. \A o : Known(HandledWords(o))' <=> \A w \in HandledWords(o)' : w = 0 \/ Find(w)' # {}
    BY DEF Known
  <2> QED BY <1>1, <1>3, <2>1
<1>8. /\ stats'.raw = IF phase' = "edges" THEN SumTo(Lengths, next' - 1) + (word' - 1)
                      ELSE SumOf(Lengths)
      /\ stats'.raw = stats'.zero + stats'.resolved + stats'.unresolved
  BY CountsAddUp
<1>9. SumTo(Lengths, next - 1)' = SumTo(Lengths, next' - 1) /\ SumOf(Lengths)' = SumOf(Lengths)
  BY <1>1 DEF SumTo, SumOf, MapThenSumSet, MapThenFoldSet, Lengths
<1> HIDE DEF lost, lostNow
<1> QED BY <1>6, <1>7, <1>8, <1>9 DEF Counted

\* Each loop over root words handles one more per step, and no other step
\* handles one.
LEMMA RootPositions ==
  ASSUME Base, Bounded, Unstarted, [Next]_vars, phase' # "failed"
  PROVE  /\ IF AddGoroutine THEN Goroutines = next - 1 /\ Goroutines' = next
            ELSE Goroutines' = Goroutines /\ roots' = roots
         /\ IF AddGlobal THEN Globals = next - 1 /\ Globals' = next
            ELSE Globals' = Globals /\ seenRoots' = seenRoots
         /\ IF AddFinalizer THEN Finalizers = next - 1 /\ Finalizers' = next
            ELSE Finalizers' = Finalizers
         /\ ~ AddGlobal /\ ~ AddFinalizer => globalRoots' = globalRoots
<1>1. /\ input' = input /\ next \in Nat \ {0} /\ Len(input.goroutines) \in Nat
      /\ Len(input.globals) \in Nat /\ Len(input.finalizers) \in Nat
  BY SMTT(30), FindStays, InputTypes DEF Base, Types
<1>2. /\ AddGoroutine => phase = "goroutines" /\ phase' = "goroutines" /\ next' = next + 1
      /\ AddGlobal => phase = "globals" /\ phase' = "globals" /\ next' = next + 1
      /\ AddFinalizer => phase = "finalizers" /\ phase' = "finalizers" /\ next' = next + 1
  BY DEF AddGoroutine, AddGlobal, AddFinalizer, Element, Advance
<1>3. CASE AddGoroutine
  <2>1. /\ phase = "goroutines" /\ phase' = "goroutines" /\ next' = next + 1
        /\ ~ AddGlobal /\ ~ AddFinalizer /\ UNCHANGED <<globalRoots, seenRoots>>
    BY <1>2, <1>3 DEF AddGoroutine
  <2> QED BY <1>1, <1>3, <2>1 DEF Goroutines, Globals, Finalizers
<1>4. CASE AddGlobal
  <2>1. /\ phase = "globals" /\ phase' = "globals" /\ next' = next + 1
        /\ ~ AddGoroutine /\ ~ AddFinalizer /\ UNCHANGED roots
    BY <1>2, <1>4 DEF AddGlobal
  <2> QED BY <1>1, <1>4, <2>1 DEF Goroutines, Globals, Finalizers
<1>5. CASE AddFinalizer
  <2>1. /\ phase = "finalizers" /\ phase' = "finalizers" /\ next' = next + 1
        /\ ~ AddGoroutine /\ ~ AddGlobal /\ UNCHANGED <<roots, seenRoots>>
    BY <1>2, <1>5 DEF AddFinalizer
  <2> QED BY <1>1, <1>5, <2>1 DEF Goroutines, Globals, Finalizers
<1>6. CASE ~ AddGoroutine /\ ~ AddGlobal /\ ~ AddFinalizer
  <2> SUFFICES /\ Goroutines' = Goroutines /\ Globals' = Globals /\ Finalizers' = Finalizers
               /\ UNCHANGED <<roots, globalRoots, seenRoots>>
    BY <1>6
  <2>1. CASE /\ phase \in {"objects", "ranges"} /\ phase' \in {"objects", "ranges"}
             /\ UNCHANGED <<word, rootVars, stats>>
    BY <2>1 DEF Goroutines, Globals, Finalizers, rootVars
  <2>2. CASE UNCHANGED <<phase, next, word, rootVars, stats>>
    BY <1>1, <2>2 DEF Goroutines, Globals, Finalizers, rootVars
  <2>3. CASE NextLoop
    <3>1. next' = 1 /\ UNCHANGED <<roots, globalRoots, seenRoots>> /\ Done(phase)
      BY <2>3 DEF NextLoop, rootVars
    <3>2. CASE phase \in {"objects", "ranges"} /\ phase' \in {"ranges", "edges"}
      BY <3>1, <3>2 DEF Goroutines, Globals, Finalizers
    <3>3. CASE phase = "edges" /\ phase' = "goroutines"
      BY <3>1, <3>3 DEF Goroutines, Globals, Finalizers
    <3>4. CASE phase = "goroutines" /\ phase' = "globals"
      <4>1. next - 1 = Len(input.goroutines)
        BY <1>1, <3>1, <3>4 DEF Done, Size, Bounded
      <4> QED BY <1>1, <3>1, <3>4, <4>1 DEF Goroutines, Globals, Finalizers
    <3>5. CASE phase = "globals" /\ phase' = "finalizers"
      <4>1. next - 1 = Len(input.globals)
        BY <1>1, <3>1, <3>5 DEF Done, Size, Bounded
      <4> QED BY <1>1, <3>1, <3>5, <4>1 DEF Goroutines, Globals, Finalizers
    <3>6. CASE phase = "finalizers" /\ phase' = "totals"
      <4>1. next - 1 = Len(input.finalizers)
        BY <1>1, <3>1, <3>6 DEF Done, Size, Bounded
      <4> QED BY <1>1, <3>1, <3>6, <4>1 DEF Goroutines, Globals, Finalizers
    <3> QED BY <2>3, <3>2, <3>3, <3>4, <3>5, <3>6, LoopOrder
  <2>4. CASE SkipPointer \/ NextSource \/ \E target \in Ids : AddEdge(target)
    <3>1. phase = "edges" /\ phase' = "edges" /\ UNCHANGED <<roots, globalRoots, seenRoots>>
      BY <2>4 DEF SkipPointer, NextSource, AddEdge, AtPointer, Element, Advance, rootVars
    <3> QED BY <3>1 DEF Goroutines, Globals, Finalizers
  <2>5. CASE AddBytes \/ Return
    <3>1. /\ phase = "totals" /\ phase' \in {"totals", "returned"}
          /\ UNCHANGED <<roots, globalRoots, seenRoots>>
      BY <2>5 DEF AddBytes, Return, Element, Advance, rootVars
    <3> QED BY <1>1, <3>1 DEF Goroutines, Globals, Finalizers
  <2> QED BY <1>6, <2>1, <2>2, <2>3, <2>4, <2>5, Positions
<1> QED BY <1>3, <1>4, <1>5, <1>6

\* A build that has failed does nothing more.
LEMMA FailureLasts ==
  ASSUME Base, Bounded, Unstarted, [Next]_vars, phase' # "failed"
  PROVE  phase # "failed"
<1>1. NextLoop => phase # "failed"
  BY LoopOrder
<1> QED
  BY <1>1, Positions DEF SkipPointer, NextSource, AddEdge, AtPointer, AddGoroutine, AddGlobal,
        AddFinalizer, AddBytes, Return, Element

\* The roots of the goroutine at hand are what its words resolve to.
LEMMA StackRootedStep ==
  ASSUME Base, Bounded, Unstarted, StackRooted, [Next]_vars
  PROVE  StackRooted'
<1> SUFFICES ASSUME phase' # "failed" PROVE StackRooted'
  BY DEF StackRooted
<1> DEFINE lost(n) == \E g \in 1 .. n : \E w \in ToSet(input.goroutines[g].frames) :
                        w # 0 /\ Find(w) = {}
           words(g) == Words(input.goroutines[g])
<1>1. phase # "failed" /\ input' = input
  BY FailureLasts, FindStays
<1>2. /\ Len(roots) = Goroutines
      /\ \A g \in 1 .. Goroutines : ToSet(roots[g]) = FoundOf(words(g))
      /\ stats.unresolvedStack = 0 <=> ~ lost(Goroutines)
  BY <1>1 DEF StackRooted, Known
<1>3. SUFFICES /\ Len(roots') = Goroutines'
               /\ \A g \in 1 .. Goroutines' : ToSet(roots'[g]) = FoundOf(words(g))
               /\ stats'.unresolvedStack = 0 <=> ~ lost(Goroutines')
               /\ Goroutines' = 0 \/ phase # "objects"
  <2>1. CASE Goroutines' = 0
    BY <1>1, <1>3, <2>1 DEF StackRooted
  <2>2. CASE phase # "objects"
    <3>1. \A w : Find(w)' = Find(w)
      BY <2>2, FindStays
    <3> QED BY <1>1, <1>3, <3>1 DEF StackRooted, Known, FoundOf, Words
  <2> QED BY <1>3, <2>1, <2>2
<1>4. CASE ~ AddGoroutine
  <2>1. Goroutines' = Goroutines /\ roots' = roots /\ stats'.unresolvedStack = stats.unresolvedStack
    BY <1>4, RootPositions, CountersStay
  <2>2. Goroutines = 0 \/ phase # "objects"
    BY DEF Goroutines
  <2> HIDE DEF lost, words
  <2> QED BY <1>2, <2>1, <2>2
<1>5. CASE AddGoroutine
  <2> DEFINE g == input.goroutines[next]
  <2>1. /\ Element("goroutines") /\ phase = "goroutines"
        /\ roots' = Append(roots, Resolved(g.frames) \o Resolved(g.sched))
        /\ stats' = [stats EXCEPT !.unresolvedStack = @ + Unresolved(g.frames)]
    BY <1>5 DEF AddGoroutine, Element, Count
  <2>2. /\ next \in 1 .. Len(input.goroutines) /\ g.frames \in Seq(Addrs) /\ g.sched \in Seq(Addrs)
        /\ Len(children) = Len(objects)
    BY <2>1, AtRoot
  <2>3. Goroutines = next - 1 /\ Goroutines' = next
    BY <1>5, RootPositions
  <2>4. /\ Resolved(g.frames) \in Seq(ObjectIds) /\ Resolved(g.sched) \in Seq(ObjectIds)
        /\ ToSet(Resolved(g.frames)) = FoundOf(ToSet(g.frames))
        /\ ToSet(Resolved(g.sched)) = FoundOf(ToSet(g.sched))
    BY <2>2, ResolvedTypes
  <2> DEFINE mine == Resolved(g.frames) \o Resolved(g.sched)
  <2>5. mine \in Seq(ObjectIds) /\ ToSet(mine) = FoundOf(words(next))
    <3>1. ToSet(mine) = ToSet(Resolved(g.frames)) \cup ToSet(Resolved(g.sched))
      BY <2>4, ElementsOfConcat
    <3>2. mine \in Seq(ObjectIds)
      BY <2>4
    <3> QED BY <2>4, <3>1, <3>2 DEF FoundOf, Words
  <2>6. /\ Len(roots') = next
        /\ \A i \in 1 .. next : roots'[i] = IF i = next THEN mine ELSE roots[i]
    <3> DEFINE W == Seq(ObjectIds)
    <3>1. roots \in Seq(W) /\ mine \in W /\ roots' = Append(roots, mine) /\ Len(roots) = next - 1
      BY <1>2, <2>1, <2>3, <2>5 DEF Base, Types
    <3> HIDE DEF W, mine
    <3> QED BY <2>2, <3>1
  <2>7. \A i \in 1 .. next : ToSet(roots'[i]) = FoundOf(words(i))
    <3> TAKE i \in 1 .. next
    <3>1. i = next \/ i \in 1 .. Goroutines
      BY <2>2, <2>3
    <3> HIDE DEF mine, words
    <3> QED BY <1>2, <2>3, <2>5, <2>6, <3>1
  <2>8. stats'.unresolvedStack = 0 <=> ~ lost(next)
    <3>1. /\ Unresolved(g.frames) \in Nat
          /\ Unresolved(g.frames) = 0 <=> \A w \in ToSet(g.frames) : w = 0 \/ Find(w) # {}
      BY <2>2, UnresolvedTypes
    <3>2. stats \in [Counters -> Nat] /\ "unresolvedStack" \in Counters
      BY DEF Base, Types, Counters
    <3>3. stats'.unresolvedStack = stats.unresolvedStack + Unresolved(g.frames)
          /\ stats.unresolvedStack \in Nat
      BY <2>1, <3>1, <3>2, WordCounts
    <3>4. lost(next) <=> lost(Goroutines) \/ \E w \in ToSet(g.frames) : w # 0 /\ Find(w) = {}
      <4>1. \A i : i \in 1 .. next <=> i \in 1 .. Goroutines \/ i = next
        BY <2>2, <2>3
      <4> QED BY <4>1
    <3>5. stats'.unresolvedStack = 0 <=> stats.unresolvedStack = 0 /\ Unresolved(g.frames) = 0
      BY <3>1, <3>3
    <3> HIDE DEF lost, g
    <3> QED BY <1>2, <3>1, <3>4, <3>5
  <2> HIDE DEF lost, words
  <2> QED BY <2>1, <2>3, <2>6, <2>7, <2>8
<1> QED BY <1>4, <1>5

\* A global root seen before adds nothing, and a finalizer's or a new global's
\* word is a root or counted.
LEMMA GlobalRootedStep ==
  ASSUME Base, Bounded, Unstarted, GlobalRooted, [Next]_vars
  PROVE  GlobalRooted'
<1> SUFFICES ASSUME phase' # "failed" PROVE GlobalRooted'
  BY DEF GlobalRooted
<1> DEFINE Seen(n) == {r \in {input.globals[i] : i \in 1 .. n} : r.ptr # 0}
           gs(n) == {input.globals[i].ptr : i \in 1 .. n}
           fs(n) == {input.finalizers[i] : i \in 1 .. n}
           lost(words) == \E w \in words : w # 0 /\ Find(w) = {}
<1>1. phase # "failed" /\ input' = input
  BY FailureLasts, FindStays
<1>2. /\ seenRoots = Seen(Globals)
      /\ ToSet(globalRoots) = FoundOf(gs(Globals) \cup fs(Finalizers))
      /\ stats.unresolvedGlobal = 0 <=> ~ lost(gs(Globals))
      /\ stats.unresolvedFinalizer = 0 <=> ~ lost(fs(Finalizers))
  BY <1>1 DEF GlobalRooted, HandledGlobals, HandledFinalizers, Known
<1>3. SUFFICES /\ seenRoots' = Seen(Globals')
               /\ ToSet(globalRoots') = FoundOf(gs(Globals') \cup fs(Finalizers'))
               /\ stats'.unresolvedGlobal = 0 <=> ~ lost(gs(Globals'))
               /\ stats'.unresolvedFinalizer = 0 <=> ~ lost(fs(Finalizers'))
               /\ phase # "objects" \/ (Globals' = 0 /\ Finalizers' = 0)
  <2>1. /\ HandledGlobals' = gs(Globals') /\ HandledFinalizers' = fs(Finalizers')
        /\ {r \in {input.globals[i] : i \in 1 .. Globals} : r.ptr # 0}' = Seen(Globals')
    BY <1>1 DEF HandledGlobals, HandledFinalizers
  <2>2. CASE Globals' = 0 /\ Finalizers' = 0
    <3>1. gs(Globals') = {} /\ fs(Finalizers') = {}
      BY <2>2
    <3>2. FoundOf(HandledGlobals \cup HandledFinalizers)' = {} /\ FoundOf({}) = {}
      <4>1. HandledGlobals' \cup HandledFinalizers' = {}
        <5> HIDE DEF gs, fs
        <5> QED BY <2>1, <3>1
      <4>2. FoundOf(HandledGlobals \cup HandledFinalizers)' =
              UNION {Find(w)' : w \in HandledGlobals' \cup HandledFinalizers'}
        BY DEF FoundOf
      <4>3. FoundOf({}) = {}
        BY FoundOfMore
      <4> QED BY <4>1, <4>2, <4>3
    <3>3. Known(HandledGlobals)' /\ Known(HandledFinalizers)' /\ ~ lost({})
      <4>1. HandledGlobals' = {} /\ HandledFinalizers' = {}
        <5> HIDE DEF gs, fs
        <5> QED BY <2>1, <3>1
      <4> QED BY <4>1 DEF Known
    <3>4. ToSet(globalRoots') = FoundOf({})
      <4>1. gs(Globals') \cup fs(Finalizers') = {}
        BY <3>1
      <4> HIDE DEF gs, fs
      <4> QED BY <1>3, <4>1
    <3> QED
      <4> HIDE DEF gs, fs, lost, Seen
      <4> QED BY <1>3, <2>1, <3>1, <3>2, <3>3, <3>4 DEF GlobalRooted
  <2>3. CASE phase # "objects"
    <3>1. \A w : Find(w)' = Find(w)
      BY <2>3, FindStays
    <3>2. FoundOf(HandledGlobals \cup HandledFinalizers)' =
            FoundOf(gs(Globals') \cup fs(Finalizers'))
      BY <2>1, <3>1 DEF FoundOf
    <3>3. /\ Known(HandledGlobals)' <=> ~ lost(gs(Globals'))
          /\ Known(HandledFinalizers)' <=> ~ lost(fs(Finalizers'))
      BY <2>1, <3>1 DEF Known
    <3> HIDE DEF gs, fs, lost, Seen
    <3> QED BY <1>3, <2>1, <3>2, <3>3 DEF GlobalRooted
  <2> QED BY <1>3, <2>2, <2>3
<1>4. CASE ~ AddGlobal /\ ~ AddFinalizer
  <2>1. /\ Globals' = Globals /\ Finalizers' = Finalizers
        /\ UNCHANGED <<globalRoots, seenRoots>>
        /\ stats'.unresolvedGlobal = stats.unresolvedGlobal
        /\ stats'.unresolvedFinalizer = stats.unresolvedFinalizer
    BY <1>4, RootPositions, CountersStay
  <2>2. phase # "objects" \/ (Globals = 0 /\ Finalizers = 0)
    BY DEF Globals, Finalizers
  <2> HIDE DEF Seen, gs, fs, lost
  <2> QED BY <1>2, <2>1, <2>2
<1>5. CASE AddGlobal
  <2> DEFINE r == input.globals[next]
  <2>1. /\ Element("globals") /\ phase = "globals"
        /\ IF r.ptr = 0 \/ r \in seenRoots THEN UNCHANGED <<seenRoots, globalRoots, stats>>
           ELSE /\ seenRoots' = seenRoots \cup {r}
                /\ globalRoots' = globalRoots \o Resolved(<<r.ptr>>)
                /\ stats' = [stats EXCEPT !.unresolvedGlobal = @ + Unresolved(<<r.ptr>>)]
    BY <1>5 DEF AddGlobal, Element, Count
  <2>2. next \in 1 .. Len(input.globals) /\ <<r.ptr>> \in Seq(Addrs) /\ Len(children) = Len(objects)
    BY <2>1, AtRoot
  <2>3. /\ Globals = next - 1 /\ Globals' = next /\ Finalizers' = Finalizers
        /\ stats'.unresolvedFinalizer = stats.unresolvedFinalizer
    <3>1. ~ AddFinalizer
      BY <2>1 DEF AddFinalizer, Element
    <3> QED BY <1>5, <3>1, RootPositions, CountersStay
  <2>4. 1 .. next = (1 .. (next - 1)) \cup {next}
    BY <2>2
  <2>5. gs(next) = gs(Globals) \cup {r.ptr}
    BY <2>3, <2>4
  <2>6. Seen(next) = Seen(Globals) \cup (IF r.ptr = 0 THEN {} ELSE {r})
    BY <2>3, <2>4
  <2>7. FoundOf(gs(next) \cup fs(Finalizers)) =
          FoundOf(gs(Globals) \cup fs(Finalizers)) \cup Find(r.ptr)
    BY <2>5 DEF FoundOf
  <2>8. lost(gs(next)) <=> lost(gs(Globals)) \/ (r.ptr # 0 /\ Find(r.ptr) = {})
    BY <2>5
  <2>9. CASE r.ptr = 0 \/ r \in seenRoots
    <3>1. UNCHANGED <<seenRoots, globalRoots, stats>>
      BY <2>1, <2>9
    <3>2. CASE r.ptr = 0
      <4>1. Find(r.ptr) = {}
        BY <3>2 DEF Find
      <4> HIDE DEF Seen, gs, fs, lost, r
      <4> QED BY <1>2, <2>1, <2>3, <2>6, <2>7, <2>8, <3>1, <3>2, <4>1
    <3>3. CASE r.ptr # 0 /\ r \in Seen(Globals)
      <4>1. r.ptr \in gs(Globals)
        BY <3>3
      <4>2. Find(r.ptr) \subseteq FoundOf(gs(Globals) \cup fs(Finalizers))
        <5> HIDE DEF gs, fs, r
        <5> QED BY <4>1 DEF FoundOf
      <4>3. r.ptr # 0 /\ Find(r.ptr) = {} => lost(gs(Globals))
        BY <4>1
      <4> HIDE DEF Seen, gs, fs, lost, r
      <4> QED BY <1>2, <2>1, <2>3, <2>6, <2>7, <2>8, <3>1, <3>3, <4>2, <4>3
    <3> HIDE DEF Seen, r
    <3> QED BY <1>2, <2>9, <3>2, <3>3
  <2>10. CASE r.ptr # 0 /\ r \notin seenRoots
    <3>1. /\ seenRoots' = seenRoots \cup {r}
          /\ globalRoots' = globalRoots \o Resolved(<<r.ptr>>)
          /\ stats' = [stats EXCEPT !.unresolvedGlobal = @ + Unresolved(<<r.ptr>>)]
      BY <2>1, <2>10
    <3>2. /\ Resolved(<<r.ptr>>) \in Seq(ObjectIds) /\ Unresolved(<<r.ptr>>) \in Nat
          /\ ToSet(Resolved(<<r.ptr>>)) = FoundOf(ToSet(<<r.ptr>>))
      BY <2>2, ResolvedTypes, UnresolvedTypes
    <3>3. ToSet(<<r.ptr>>) = {r.ptr} /\ FoundOf({r.ptr}) = Find(r.ptr)
      BY ElementsOfOne DEF FoundOf
    <3>4. ToSet(globalRoots') = ToSet(globalRoots) \cup Find(r.ptr)
      <4>1. globalRoots \in Seq(ObjectIds)
        BY DEF Base, Types
      <4>2. ToSet(globalRoots \o Resolved(<<r.ptr>>)) =
              ToSet(globalRoots) \cup ToSet(Resolved(<<r.ptr>>))
        BY <3>2, <4>1, ElementsOfConcat
      <4> QED BY <3>1, <3>2, <3>3, <4>2
    <3>5. Unresolved(<<r.ptr>>) = 0 <=> ~ (r.ptr # 0 /\ Find(r.ptr) = {})
      BY <2>2, <3>3, UnresolvedTypes
    <3>6. /\ stats'.unresolvedGlobal = stats.unresolvedGlobal + Unresolved(<<r.ptr>>)
          /\ stats.unresolvedGlobal \in Nat
      <4>1. stats \in [Counters -> Nat] /\ "unresolvedGlobal" \in Counters
        BY DEF Base, Types, Counters
      <4> QED BY <3>1, <3>2, <4>1, WordCounts
    <3>7. stats'.unresolvedGlobal = 0 <=> stats.unresolvedGlobal = 0 /\ Unresolved(<<r.ptr>>) = 0
      BY <3>2, <3>6
    <3>8. stats'.unresolvedGlobal = 0 <=> ~ lost(gs(next))
      <4> HIDE DEF gs, lost, r
      <4> QED BY <1>2, <2>8, <3>5, <3>7
    <3> HIDE DEF Seen, gs, fs, lost, r
    <3> QED BY <1>2, <2>1, <2>3, <2>6, <2>7, <2>10, <3>1, <3>4, <3>8
  <2> QED BY <2>9, <2>10
<1>6. CASE AddFinalizer
  <2> DEFINE f == input.finalizers[next]
  <2>1. /\ Element("finalizers") /\ phase = "finalizers"
        /\ globalRoots' = globalRoots \o Resolved(<<f>>)
        /\ stats' = [stats EXCEPT !.unresolvedFinalizer = @ + Unresolved(<<f>>)]
    BY <1>6 DEF AddFinalizer, Element, Count
  <2>2. next \in 1 .. Len(input.finalizers) /\ <<f>> \in Seq(Addrs) /\ Len(children) = Len(objects)
    BY <2>1, AtRoot
  <2>3. /\ Finalizers = next - 1 /\ Finalizers' = next /\ Globals' = Globals
        /\ seenRoots' = seenRoots /\ stats'.unresolvedGlobal = stats.unresolvedGlobal
    <3>1. ~ AddGlobal
      BY <2>1 DEF AddGlobal, Element
    <3> QED BY <1>6, <3>1, RootPositions, CountersStay
  <2>4. 1 .. next = (1 .. (next - 1)) \cup {next}
    BY <2>2
  <2>5. fs(next) = fs(Finalizers) \cup {f}
    BY <2>3, <2>4
  <2>6. FoundOf(gs(Globals) \cup fs(next)) = FoundOf(gs(Globals) \cup fs(Finalizers)) \cup Find(f)
    BY <2>5 DEF FoundOf
  <2>7. lost(fs(next)) <=> lost(fs(Finalizers)) \/ (f # 0 /\ Find(f) = {})
    BY <2>5
  <2>8. /\ Resolved(<<f>>) \in Seq(ObjectIds) /\ Unresolved(<<f>>) \in Nat
        /\ ToSet(Resolved(<<f>>)) = FoundOf(ToSet(<<f>>))
    BY <2>2, ResolvedTypes, UnresolvedTypes
  <2>9. ToSet(<<f>>) = {f} /\ FoundOf({f}) = Find(f)
    BY ElementsOfOne DEF FoundOf
  <2>10. ToSet(globalRoots') = ToSet(globalRoots) \cup Find(f)
    <3>1. globalRoots \in Seq(ObjectIds)
      BY DEF Base, Types
    <3>2. ToSet(globalRoots \o Resolved(<<f>>)) = ToSet(globalRoots) \cup ToSet(Resolved(<<f>>))
      BY <2>8, <3>1, ElementsOfConcat
    <3> QED BY <2>1, <2>8, <2>9, <3>2
  <2>11. Unresolved(<<f>>) = 0 <=> ~ (f # 0 /\ Find(f) = {})
    BY <2>2, <2>9, UnresolvedTypes
  <2>12. /\ stats'.unresolvedFinalizer = stats.unresolvedFinalizer + Unresolved(<<f>>)
         /\ stats.unresolvedFinalizer \in Nat
    <3>1. stats \in [Counters -> Nat] /\ "unresolvedFinalizer" \in Counters
      BY DEF Base, Types, Counters
    <3> QED BY <2>1, <2>8, <3>1, WordCounts
  <2>13. stats'.unresolvedFinalizer = 0 <=> stats.unresolvedFinalizer = 0 /\ Unresolved(<<f>>) = 0
    BY <2>8, <2>12
  <2>14. stats'.unresolvedFinalizer = 0 <=> ~ lost(fs(next))
    <3> HIDE DEF fs, lost, f
    <3> QED BY <1>2, <2>7, <2>11, <2>13
  <2> HIDE DEF Seen, gs, fs, lost, f
  <2> QED BY <1>2, <2>1, <2>3, <2>6, <2>10, <2>14
<1> QED BY <1>4, <1>5, <1>6

\* The sizes of the objects, and the sums of them.
LEMMA SizesAddUp ==
  ASSUME Base
  PROVE  /\ Len(objects) \in Nat
         /\ \A o \in 1 .. Len(objects) : Sizes[o] = objects[o].size /\ Sizes[o] \in Nat
         /\ SumTo(Sizes, 0) = 0 /\ SumTo(Sizes, Len(objects)) = SumOf(Sizes)
         /\ \A k \in 0 .. Len(objects) : SumTo(Sizes, k) \in Nat
         /\ \A k \in 1 .. Len(objects) : SumTo(Sizes, k) = SumTo(Sizes, k - 1) + Sizes[k]
<1>1. Len(objects) \in Nat /\ DOMAIN objects = 1 .. Len(objects)
  BY InputTypes DEF Base
<1>2. \A o \in 1 .. Len(objects) : objects[o].size \in Nat
  BY SourceTypes DEF Base
<1>3. /\ Sizes \in [1 .. Len(objects) -> Nat]
      /\ \A o \in 1 .. Len(objects) : Sizes[o] = objects[o].size
  BY <1>1, <1>2 DEF Sizes
<1> DEFINE n == Len(objects)
<1>4. n \in Nat /\ Sizes \in [1 .. n -> Nat]
  BY <1>1, <1>3
<1> HIDE DEF n
<1>5. /\ SumTo(Sizes, 0) = 0 /\ SumTo(Sizes, n) = SumOf(Sizes)
      /\ \A k \in 0 .. n : SumTo(Sizes, k) \in Nat
      /\ \A k \in 1 .. n : SumTo(Sizes, k) = SumTo(Sizes, k - 1) + Sizes[k]
  BY <1>4, SumGrows
<1> QED BY <1>1, <1>2, <1>3, <1>5 DEF n

\* The byte total is added up one object at a time.
LEMMA SummedStep ==
  ASSUME Base, Bounded, Unstarted, Summed, [Next]_vars
  PROVE  Summed'
<1> SUFFICES ASSUME phase' # "failed" PROVE Summed'
  BY DEF Summed
<1>1. /\ Len(objects) \in Nat /\ SumTo(Sizes, 0) = 0 /\ SumTo(Sizes, Len(objects)) = SumOf(Sizes)
      /\ \A o \in 1 .. Len(objects) : Sizes[o] = objects[o].size /\ Sizes[o] \in Nat
      /\ \A k \in 0 .. Len(objects) : SumTo(Sizes, k) \in Nat
      /\ \A k \in 1 .. Len(objects) : SumTo(Sizes, k) = SumTo(Sizes, k - 1) + Sizes[k]
  BY SizesAddUp
<1>2. /\ phase # "failed" /\ objects' = objects /\ next \in Nat \ {0}
      /\ stats \in [Counters -> Nat] /\ "bytes" \in Counters
  BY FailureLasts, FindStays DEF Base, Types, Counters
<1>3. stats.bytes = IF phase = "totals" THEN SumTo(Sizes, next - 1)
                    ELSE IF phase = "returned" THEN SumOf(Sizes) ELSE 0
  BY <1>2 DEF Summed
<1>4. SUFFICES stats'.bytes = IF phase' = "totals" THEN SumTo(Sizes, next' - 1)
                              ELSE IF phase' = "returned" THEN SumOf(Sizes) ELSE 0
  <2>1. SumTo(Sizes, next - 1)' = SumTo(Sizes, next' - 1) /\ SumOf(Sizes)' = SumOf(Sizes)
    BY <1>2 DEF SumTo, SumOf, MapThenSumSet, MapThenFoldSet, Sizes
  <2> QED BY <1>4, <2>1 DEF Summed
<1>5. CASE AddBytes
  <2>1. /\ phase = "totals" /\ phase' = "totals" /\ next' = next + 1 /\ next <= Len(objects)
        /\ stats' = [stats EXCEPT !.bytes = @ + objects[next].size]
    BY <1>5 DEF AddBytes, Element, Advance, Size, Count
  <2>2. next \in 1 .. Len(objects) /\ next' - 1 = next
    BY <1>1, <1>2, <2>1
  <2>3. stats'.bytes = stats.bytes + objects[next].size
    BY <1>2, <2>1, WordCounts
  <2> QED BY <1>1, <1>3, <2>1, <2>2, <2>3
<1>6. CASE ~ AddBytes
  <2>1. stats'.bytes = stats.bytes
    BY <1>6, CountersStay
  <2>2. CASE NextLoop
    <3>1. next' = 1 /\ phase \notin {"totals", "returned"} /\ phase' # "returned"
      BY <2>2, LoopOrder DEF NextLoop
    <3> QED BY <1>1, <1>3, <2>1, <3>1
  <2>3. CASE Return
    <3>1. /\ phase = "totals" /\ phase' = "returned" /\ next > Len(objects)
      BY <2>3 DEF Return
    <3>2. next - 1 = Len(objects)
      BY <1>1, <1>2, <3>1 DEF Bounded, Size
    <3> QED BY <1>1, <1>3, <2>1, <3>1, <3>2
  <2>4. CASE phase' \notin {"totals", "returned"} /\ phase \notin {"totals", "returned"}
    BY <1>3, <2>1, <2>4
  <2>5. CASE UNCHANGED <<phase, next, word, rootVars, stats>>
    BY <1>3, <2>1, <2>5
  <2>6. SkipPointer \/ NextSource \/ (\E target \in Ids : AddEdge(target)) \/ AddGoroutine
          \/ AddGlobal \/ AddFinalizer =>
          phase' \notin {"totals", "returned"} /\ phase \notin {"totals", "returned"}
    BY DEF SkipPointer, NextSource, AddEdge, AddGoroutine, AddGlobal, AddFinalizer, AtPointer,
           Element, Advance
  <2> QED BY <1>6, <2>2, <2>3, <2>4, <2>5, <2>6, Positions
<1> QED BY <1>5, <1>6

\* Nothing of the dump is lost on the way to the graph that is returned.
THEOREM ReturnsAreComplete == Spec => []ReturnedIsComplete
<1> DEFINE Complete == Linked /\ Counted /\ StackRooted /\ GlobalRooted /\ Summed
<1>1. Init => Complete
  <2> SUFFICES ASSUME Init PROVE Complete
    OBVIOUS
  <2>1. /\ phase = "objects" /\ next = 1 /\ roots = <<>> /\ globalRoots = <<>> /\ seenRoots = {}
        /\ \A c \in Counters : stats[c] = 0
    BY DEF Init
  <2>2. Goroutines = 0 /\ Globals = 0 /\ Finalizers = 0
    BY <2>1 DEF Goroutines, Globals, Finalizers
  <2>3. HandledGlobals = {} /\ HandledFinalizers = {}
    BY <2>2 DEF HandledGlobals, HandledFinalizers
  <2>4. Linked /\ Counted /\ Summed /\ StackRooted
    BY <2>1, <2>2 DEF Linked, Counted, Summed, StackRooted, Swept, Counters
  <2>5. GlobalRooted
    <3>1. /\ FoundOf(HandledGlobals \cup HandledFinalizers) = {}
          /\ ToSet(globalRoots) = {}
          /\ {r \in {input.globals[i] : i \in 1 .. Globals} : r.ptr # 0} = {}
      BY <2>1, <2>2, <2>3, FoundOfMore, ElementsOfNone
    <3> QED BY <2>1, <2>3, <3>1 DEF GlobalRooted, Known, Counters
  <2> QED BY <2>4, <2>5
<1>2. ASSUME Base, Bounded, Unstarted, Complete, [Next]_vars PROVE Complete'
  BY <1>2, LinkedStep, CountedStep, StackRootedStep, GlobalRootedStep, SummedStep
<1>3. ASSUME Base, Complete PROVE ReturnedIsComplete
  <2> SUFFICES ASSUME phase = "returned" PROVE ReturnedIsComplete
    BY DEF ReturnedIsComplete
  <2>1. Swept /\ phase # "failed" /\ phase # "edges" /\ phase # "totals"
    BY DEF Swept
  <2>2. /\ Len(children) = Len(objects) /\ Goroutines = Len(input.goroutines)
        /\ DOMAIN input.goroutines = 1 .. Len(input.goroutines)
        /\ DOMAIN objects = 1 .. Len(objects) /\ DOMAIN roots = 1 .. Len(roots)
    BY <1>3, InputTypes DEF Base, Indexed, Goroutines, Types
  <2>3. Len(roots) = Len(input.goroutines)
        /\ \A g \in DOMAIN roots : ToSet(roots[g]) = FoundOf(Words(input.goroutines[g]))
    BY <1>3, <2>1, <2>2 DEF StackRooted
  <2>4. HandledGlobals \cup HandledFinalizers = GlobalWords
    <3>1. Globals = Len(input.globals) /\ Finalizers = Len(input.finalizers)
      BY DEF Globals, Finalizers
    <3>2. /\ DOMAIN input.globals = 1 .. Len(input.globals)
          /\ DOMAIN input.finalizers = 1 .. Len(input.finalizers)
      BY <1>3, InputTypes DEF Base
    <3> QED BY <3>1, <3>2 DEF HandledGlobals, HandledFinalizers, GlobalWords, ToSet
  <2>5. ToSet(globalRoots) = FoundOf(GlobalWords)
    BY <1>3, <2>1, <2>4 DEF GlobalRooted
  <2>6. \A o \in DOMAIN objects : HandledWords(o) = ToSet(objects[o].pointers)
    <3> TAKE o \in DOMAIN objects
    <3>1. objects[o].pointers \in Seq(Addrs)
      BY <1>3, <2>2, SourceTypes DEF Base
    <3>2. DOMAIN objects[o].pointers = 1 .. Len(objects[o].pointers)
      BY <3>1
    <3>3. Handled(o) = Len(objects[o].pointers)
      BY <2>1 DEF Handled
    <3> QED BY <3>2, <3>3 DEF HandledWords, ToSet
  <2>7. \A o \in DOMAIN objects : ToSet(references[o]) = FoundOf(ToSet(objects[o].pointers))
    <3> TAKE o \in DOMAIN objects
    <3>1. ToSet(references[o]) = FoundOf(HandledWords(o))
      BY <1>3, <2>1, <2>2 DEF Linked
    <3>2. HandledWords(o) = ToSet(objects[o].pointers)
      BY <2>6
    <3> QED BY <3>1, <3>2, Zenon
  <2>8. /\ stats.raw = SumOf([o \in DOMAIN objects |-> Len(objects[o].pointers)])
        /\ stats.raw = stats.zero + stats.resolved + stats.unresolved
        /\ stats.bytes = SumOf([o \in DOMAIN objects |-> objects[o].size])
    BY <1>3, <2>1 DEF Counted, Summed, Lengths, Sizes
  <2>9. (\A w \in CountedWords \ {0} : Find(w) # {}) <=>
          (\A c \in {"unresolved", "unresolvedStack", "unresolvedGlobal", "unresolvedFinalizer"} :
             stats[c] = 0)
    <3>1. /\ stats.unresolved = 0 <=> \A o \in DOMAIN objects : Known(ToSet(objects[o].pointers))
          /\ stats.unresolvedStack = 0 <=>
               \A g \in DOMAIN input.goroutines : Known(ToSet(input.goroutines[g].frames))
          /\ stats.unresolvedGlobal = 0 <=> Known(HandledGlobals)
          /\ stats.unresolvedFinalizer = 0 <=> Known(HandledFinalizers)
      <4>1. stats.unresolved = 0 <=> \A o \in DOMAIN objects : Known(HandledWords(o))
        BY <1>3, <2>1, <2>2 DEF Counted
      <4>2. \A o \in DOMAIN objects : Known(HandledWords(o)) <=> Known(ToSet(objects[o].pointers))
        BY <2>6 DEF Known
      <4>3. stats.unresolvedStack = 0 <=>
               \A g \in DOMAIN input.goroutines : Known(ToSet(input.goroutines[g].frames))
        BY <1>3, <2>1, <2>2 DEF StackRooted
      <4>4. /\ stats.unresolvedGlobal = 0 <=> Known(HandledGlobals)
            /\ stats.unresolvedFinalizer = 0 <=> Known(HandledFinalizers)
        BY <1>3, <2>1 DEF GlobalRooted
      <4> QED BY <4>1, <4>2, <4>3, <4>4
    <3>2. \A w : w \in CountedWords <=>
            \/ \E o \in DOMAIN objects : w \in ToSet(objects[o].pointers)
            \/ \E g \in DOMAIN input.goroutines : w \in ToSet(input.goroutines[g].frames)
            \/ w \in HandledGlobals \/ w \in HandledFinalizers
      <4> DEFINE P == {ToSet(objects[o].pointers) : o \in DOMAIN objects}
                 F == {ToSet(input.goroutines[g].frames) : g \in DOMAIN input.goroutines}
                 pointers == UNION P
                 frames == UNION F
      <4>1. CountedWords = (pointers \cup frames) \cup (HandledGlobals \cup HandledFinalizers)
        <5>1. CountedWords = (HandledGlobals \cup HandledFinalizers) \cup (UNION (P \cup F))
          BY <2>4 DEF CountedWords
        <5> HIDE DEF P, F
        <5>2. UNION (P \cup F) = pointers \cup frames
          OBVIOUS
        <5> QED BY <5>1, <5>2
      <4>2. \A w : w \in pointers <=> \E o \in DOMAIN objects : w \in ToSet(objects[o].pointers)
        OBVIOUS
      <4>3. \A w : w \in frames <=>
              \E g \in DOMAIN input.goroutines : w \in ToSet(input.goroutines[g].frames)
        OBVIOUS
      <4> HIDE DEF pointers, frames
      <4> QED BY <4>1, <4>2, <4>3
    <3>3. (\A w \in CountedWords \ {0} : Find(w) # {}) <=>
            /\ \A o \in DOMAIN objects : Known(ToSet(objects[o].pointers))
            /\ \A g \in DOMAIN input.goroutines : Known(ToSet(input.goroutines[g].frames))
            /\ Known(HandledGlobals) /\ Known(HandledFinalizers)
      BY <3>2 DEF Known
    <3> QED BY <3>1, <3>3
  <2> QED BY <2>2, <2>3, <2>5, <2>7, <2>8, <2>9 DEF ReturnedIsComplete
<1> QED BY <1>1, <1>2, <1>3, BaseInvariant, BoundedInvariant, PTL DEF Spec

-----------------------------------------------------------------------------
(* Reach, for graphs of any size: the walk is well typed, visits each      *)
(* object at most once, and returns exactly the objects reachable from the *)
(* roots. WalkInv says what is known half way: every member of reachable   *)
(* is queued once; the roots before `root`, the children of the objects    *)
(* before `head` and the head's children before `child` are in; and        *)
(* nothing is in that some closed set with the roots leaves out.           *)

LEMMA WalkInitInv == WalkInit => WalkInv
BY NAssumption, ListsAssumption
DEF WalkInit, WalkInv, WalkTypeOK, VisitedOnce, QueueInv, RootsInv, ClosureInv, LeastInv, Objects

\* What Add does to the two collections: nothing, or one new object at the
\* end of the queue and in the set.
LEMMA AddEffect ==
  ASSUME WalkTypeOK, NEW id \in Nat, Add(id)
  PROVE  \/ /\ UNCHANGED <<reachable, queue>>
            /\ validID(id) => id \in reachable
         \/ /\ validID(id) /\ id \notin reachable
            /\ reachable' = reachable \cup {id}
            /\ queue' = Append(queue, id)
BY DEF Add

\* The invariant's parts that Add keeps for any id, as long as the graph and
\* the indexes it reads stay.
LEMMA AddKeeps ==
  ASSUME WalkInv, NEW id \in Nat, Add(id), UNCHANGED <<graph, head>>
  PROVE  /\ reachable' \subseteq Objects /\ reachable \subseteq reachable'
         /\ queue' \in Seq(Objects)
         /\ Len(queue') >= Len(queue)
         /\ \A i \in 1 .. Len(queue) : queue'[i] = queue[i]
         /\ VisitedOnce'
         /\ \A i \in 1 .. Len(queue') : queue'[i] \in reachable'
         /\ \A o \in reachable' : \E i \in 1 .. Len(queue') : queue'[i] = o
         /\ validID(id) => id \in reachable'
<1>1. CASE UNCHANGED <<reachable, queue>> /\ (validID(id) => id \in reachable)
  BY <1>1 DEF WalkInv, WalkTypeOK, VisitedOnce, QueueInv
<1>2. CASE /\ validID(id) /\ id \notin reachable
           /\ reachable' = reachable \cup {id}
           /\ queue' = Append(queue, id)
  <2>1. /\ id \in Objects
        /\ queue \in Seq(Objects)
        /\ queue' \in Seq(Objects)
        /\ Len(queue') = Len(queue) + 1
        /\ queue'[Len(queue) + 1] = id
        /\ \A i \in 1 .. Len(queue) : queue'[i] = queue[i]
    BY <1>2 DEF WalkInv, WalkTypeOK, validID
  <2>2. \A i \in 1 .. Len(queue) : queue[i] # id
    BY <1>2 DEF WalkInv, QueueInv
  <2>3. VisitedOnce'
    BY <2>1, <2>2 DEF WalkInv, VisitedOnce
  <2>4. \A o \in reachable' : \E i \in 1 .. Len(queue') : queue'[i] = o
    <3> SUFFICES ASSUME NEW o \in reachable' PROVE \E i \in 1 .. Len(queue') : queue'[i] = o
      OBVIOUS
    <3>1. CASE o = id
      BY <3>1, <2>1
    <3>2. CASE o # id
      <4>1. PICK i \in 1 .. Len(queue) : queue[i] = o
        BY <3>2, <1>2 DEF WalkInv, QueueInv
      <4> QED
        BY <4>1, <2>1
    <3> QED
      BY <3>1, <3>2
  <2>5. \A i \in 1 .. Len(queue') : queue'[i] \in reachable'
    BY <1>2, <2>1 DEF WalkInv, QueueInv
  <2>6. reachable' \subseteq Objects
    BY <1>2, <2>1 DEF WalkInv, WalkTypeOK
  <2>7. Len(queue') >= Len(queue)
    BY <2>1
  <2> QED
    BY <1>2, <2>1, <2>3, <2>4, <2>5, <2>6, <2>7
<1> QED
  BY <1>1, <1>2, AddEffect DEF WalkInv

LEMMA RootStep == ASSUME WalkInv, AddRoot PROVE WalkInv'
<1> DEFINE id == rootIDs[root]
<1>1. id \in Nat /\ root \in 1 .. Len(rootIDs) /\ root' = root + 1 /\ Add(id)
      /\ UNCHANGED <<graph, head, child>>
  BY DEF WalkInv, WalkTypeOK, AddRoot
<1>2. UNCHANGED <<childrenOf, rootIDs>>
  BY <1>1 DEF graph
<1>3. head = 1 /\ child = 1
  BY <1>1 DEF WalkInv, WalkTypeOK, QueueInv, RootsAdded
<1> HIDE DEF id
<1>4. /\ reachable' \subseteq Objects /\ reachable \subseteq reachable'
      /\ queue' \in Seq(Objects)
      /\ Len(queue') >= Len(queue)
      /\ VisitedOnce'
      /\ \A i \in 1 .. Len(queue') : queue'[i] \in reachable'
      /\ \A o \in reachable' : \E i \in 1 .. Len(queue') : queue'[i] = o
      /\ validID(id) => id \in reachable'
  BY <1>1, AddKeeps
<1>5. WalkTypeOK'
  BY <1>1, <1>2, <1>4 DEF WalkInv, WalkTypeOK
<1>6. QueueInv'
  BY <1>1, <1>3, <1>4 DEF QueueInv
<1>7. RootsInv'
  <2> SUFFICES ASSUME NEW i \in 1 .. Len(rootIDs), i < root + 1, validID(rootIDs[i])
               PROVE  rootIDs[i] \in reachable'
    BY <1>1, <1>2 DEF RootsInv, validID
  <2>1. CASE i = root
    BY <2>1, <1>4 DEF id
  <2>2. CASE i # root
    <3>1. i < root
      BY <2>2, <1>1
    <3> QED
      BY <3>1, <1>4 DEF WalkInv, RootsInv
  <2> QED
    BY <2>1, <2>2
<1>8. ClosureInv'
  BY <1>1, <1>3 DEF ClosureInv
<1>9. LeastInv'
  <2> SUFFICES ASSUME NEW S \in SUBSET Objects, ContainsRoots(S), Closed(S)
               PROVE  reachable' \subseteq S
    BY <1>2 DEF LeastInv, ContainsRoots, Closed
  <2>1. validID(id) => id \in S
    BY <1>1 DEF ContainsRoots, id
  <2>2. reachable' \subseteq reachable \cup {id} /\ (id \in reachable' \ reachable => validID(id))
    BY <1>1 DEF Add
  <2> QED
    BY <2>1, <2>2 DEF WalkInv, LeastInv
<1> QED
  BY <1>4, <1>5, <1>6, <1>7, <1>8, <1>9 DEF WalkInv

LEMMA ChildStep == ASSUME WalkInv, AddChild PROVE WalkInv'
<1> DEFINE o == queue[head]
           id == childrenOf[o][child]
<1>1. /\ RootsAdded
      /\ head \in 1 .. Len(queue) /\ o \in Objects /\ o \in reachable
      /\ child \in 1 .. Len(childrenOf[o]) /\ id \in Nat
      /\ child' = child + 1 /\ Add(id)
      /\ UNCHANGED <<graph, root, head>>
  BY SMTT(30) DEF WalkInv, WalkTypeOK, QueueInv, AddChild
<1>2. UNCHANGED <<childrenOf, rootIDs>>
  BY <1>1 DEF graph
<1> HIDE DEF id
<1>4. /\ reachable' \subseteq Objects /\ reachable \subseteq reachable'
      /\ queue' \in Seq(Objects)
      /\ Len(queue') >= Len(queue)
      /\ \A i \in 1 .. Len(queue) : queue'[i] = queue[i]
      /\ VisitedOnce'
      /\ \A i \in 1 .. Len(queue') : queue'[i] \in reachable'
      /\ \A p \in reachable' : \E i \in 1 .. Len(queue') : queue'[i] = p
      /\ validID(id) => id \in reachable'
  BY <1>1, AddKeeps
<1>5. WalkTypeOK'
  <2>1. head \in 1 .. Len(queue') + 1 /\ child + 1 \in Nat \ {0}
    <3>1. Len(queue) \in Nat /\ Len(queue') \in Nat /\ child \in Nat
      BY <1>4 DEF WalkInv, WalkTypeOK
    <3>2. head \in Nat /\ 1 <= head /\ head <= Len(queue) /\ Len(queue) <= Len(queue')
      BY <3>1, <1>1, <1>4
    <3> QED
      BY <3>1, <3>2
  <2> QED
    BY <2>1, <1>1, <1>2, <1>4 DEF WalkInv, WalkTypeOK
<1>6. QueueInv'
  BY <1>1, <1>2, <1>4 DEF QueueInv, RootsAdded
<1>7. RootsInv'
  BY <1>1, <1>2, <1>4 DEF WalkInv, RootsInv
<1>8. ClosureInv'
  <2> SUFFICES ASSUME NEW i \in 1 .. Len(queue'), NEW c \in 1 .. Len(childrenOf'[queue'[i]]),
                      i < head' \/ (i = head' /\ c < child'),
                      validID(childrenOf'[queue'[i]][c])
               PROVE  childrenOf'[queue'[i]][c] \in reachable'
    BY DEF ClosureInv
  <2>1. i \in 1 .. Len(queue) /\ queue'[i] = queue[i]
    <3>1. i \in Nat \ {0} /\ i <= head
      BY <1>1, <1>4
    <3>2. Len(queue) \in Nat
      BY DEF WalkInv, WalkTypeOK
    <3>3. i \in 1 .. Len(queue)
      BY <3>1, <3>2, <1>1
    <3> QED
      BY <3>3, <1>4
  <2>2. CASE i = head /\ c = child
    BY <2>2, <2>1, <1>2, <1>4 DEF id
  <2>3. CASE ~(i = head /\ c = child)
    <3>1. i < head \/ (i = head /\ c < child)
      BY <2>3, <1>1 DEF WalkInv, WalkTypeOK
    <3> QED
      BY <3>1, <2>1, <1>2, <1>4 DEF WalkInv, ClosureInv
  <2> QED
    BY <2>2, <2>3
<1>9. LeastInv'
  <2> SUFFICES ASSUME NEW S \in SUBSET Objects, ContainsRoots(S), Closed(S)
               PROVE  reachable' \subseteq S
    BY <1>2 DEF LeastInv, ContainsRoots, Closed
  <2>0. reachable \subseteq S
    BY DEF WalkInv, LeastInv
  <2>1. validID(id) => id \in S
    BY <1>1, <2>0 DEF Closed, id
  <2>2. reachable' \subseteq reachable \cup {id} /\ (id \in reachable' \ reachable => validID(id))
    BY <1>1 DEF Add
  <2> QED
    BY <2>0, <2>1, <2>2
<1> QED
  BY <1>4, <1>5, <1>6, <1>7, <1>8, <1>9 DEF WalkInv

LEMMA HeadStep == ASSUME WalkInv, NextHead PROVE WalkInv'
<1>1. /\ RootsAdded
      /\ head \in 1 .. Len(queue) /\ queue[head] \in Objects
      /\ child > Len(childrenOf[queue[head]])
      /\ head' = head + 1 /\ child' = 1
      /\ UNCHANGED <<childrenOf, rootIDs, reachable, queue, root>>
  BY DEF WalkInv, WalkTypeOK, NextHead, graph
<1>2. WalkTypeOK'
  BY <1>1 DEF WalkInv, WalkTypeOK
<1>3. VisitedOnce' /\ QueueInv' /\ RootsInv' /\ LeastInv'
  BY <1>1 DEF WalkInv, VisitedOnce, QueueInv, RootsInv, LeastInv, ContainsRoots, Closed, RootsAdded
<1>4. ClosureInv'
  <2> SUFFICES ASSUME NEW i \in 1 .. Len(queue), NEW c \in 1 .. Len(childrenOf[queue[i]]),
                      i < head + 1 \/ (i = head + 1 /\ c < 1),
                      validID(childrenOf[queue[i]][c])
               PROVE  childrenOf[queue[i]][c] \in reachable
    BY <1>1 DEF ClosureInv
  <2>1. queue[i] \in Objects /\ Len(childrenOf[queue[i]]) \in Nat
    BY DEF WalkInv, WalkTypeOK
  <2>2. i < head \/ (i = head /\ c < child)
    BY <1>1, <2>1 DEF WalkInv, WalkTypeOK
  <2> QED
    BY <2>2 DEF WalkInv, ClosureInv
<1> QED
  BY <1>2, <1>3, <1>4 DEF WalkInv

LEMMA WalkInductive == WalkSpec => []WalkInv
<1>1. WalkInv /\ [WalkNext]_walkVars => WalkInv'
  <2> SUFFICES ASSUME WalkInv, [WalkNext]_walkVars PROVE WalkInv'
    OBVIOUS
  <2>1. CASE UNCHANGED walkVars
    BY <2>1 DEF walkVars, WalkInv, WalkTypeOK, VisitedOnce, QueueInv, RootsInv, ClosureInv,
       LeastInv, ContainsRoots, Closed, RootsAdded
  <2> QED
    BY <2>1, RootStep, ChildStep, HeadStep DEF WalkNext
<1> QED
  BY WalkInitInv, <1>1, PTL DEF WalkSpec

\* The walk only ever holds ids that index an object, and its three cursors
\* stay within the slices they index.
THEOREM WalkTypeCorrect == WalkSpec => []WalkTypeOK
<1>1. WalkInv => WalkTypeOK
  BY DEF WalkInv
<1> QED
  BY WalkInductive, <1>1, PTL

\* No object is queued twice, whatever cycles the graph has.
THEOREM EachOnce == WalkSpec => []VisitedOnce
<1>1. WalkInv => VisitedOnce
  BY DEF WalkInv
<1> QED
  BY WalkInductive, <1>1, PTL

\* ReachableFrom returns the least closed set that contains the roots, for
\* every finite graph, with invalid ids, cycles and shared objects.
THEOREM ReachableIsExact == WalkSpec => []Exact
<1>1. WalkInv => Exact
  <2> SUFFICES ASSUME WalkInv, WalkDone
               PROVE  /\ ContainsRoots(reachable)
                      /\ Closed(reachable)
                      /\ LeastInv
    BY DEF Exact, LeastInv
  <2>1. ContainsRoots(reachable)
    BY DEF WalkDone, RootsAdded, WalkInv, WalkTypeOK, RootsInv, ContainsRoots
  <2>2. Closed(reachable)
    <3> SUFFICES ASSUME NEW o \in reachable, NEW c \in 1 .. Len(childrenOf[o]),
                        validID(childrenOf[o][c])
                 PROVE  childrenOf[o][c] \in reachable
      BY DEF Closed
    <3>1. PICK i \in 1 .. Len(queue) : queue[i] = o
      BY DEF WalkInv, QueueInv
    <3>2. i < head
      BY DEF WalkDone, WalkInv, WalkTypeOK
    <3> QED
      BY <3>1, <3>2 DEF WalkInv, ClosureInv
  <2> QED
    BY <2>1, <2>2 DEF WalkInv
<1> QED
  BY WalkInductive, <1>1, PTL
=============================================================================
