------------------------------- MODULE Answers -------------------------------
(* The answers that README.md and docs/multi-bubble-analysis.md define for    *)
(* the questions of a session, stated object by object and root by root.      *)
(* Modules Selection and Explanations compute them as the code does, with one walk for a whole *)
(* selection, set differences and membership counters; the runs of Session    *)
(* compare the two, with the caches of the session in between.                *)
EXTENDS Explanations

\* What loading hands over: a goroutine's labels are a map, and there are
\* finitely many.  Values stand for strings, in their order.
SoundSource(a) ==
  /\ a.system \subseteq a.goroutines
  /\ IsFiniteSet(UNION {a.labels[g] : g \in a.goroutines})
  /\ \A g \in a.goroutines : \A p, q \in a.labels[g] :
       p = <<p[1], p[2]>> /\ p[2] \in Int /\ (p[1] = q[1] => p = q)

\* A graph has finitely many objects, numbered in order of their addresses.
GraphIsSound ==
  /\ IsFiniteSet(Objects) /\ Objects \subseteq Int /\ SizeBits \in Nat \ {0}
  /\ \A o \in Objects : Size[o] \in Nat /\ Size[o] < PowerOf2[SizeBits]

ReachesFrom(a, g, o) == \E r \in a.roots[g] : o \in Walk({r})
ReachedBy(a, G) == {o \in Objects : \E g \in G : ReachesFrom(a, g, o)}
GlobalReaches(a, o) == \E r \in a.globals : o \in Walk({r})

Chosen(a, inc, want) ==
  {g \in a.goroutines : /\ g \in a.system => inc
                        /\ \A p \in want : p \in a.labels[g]}

\* The matched goroutines, and what they share with globals and, when these
\* may not match, with the system goroutines.
TrueMatch(a, inc, want) ==
  LET S == Chosen(a, inc, want)
      rivals == IF inc THEN {} ELSE a.system
  IN [matched |-> S, reachable |-> ReachedBy(a, S),
      global |-> {o \in ReachedBy(a, S) : GlobalReaches(a, o)},
      system |-> ReachedBy(a, S) \cap ReachedBy(a, rivals)]

\* Exclusive: no global and no goroutine that was not selected reaches it.
TrueInspection(a, inc, want) ==
  LET S == Chosen(a, inc, want)
      Rival(g, o) == g \in a.goroutines \ S /\ ReachesFrom(a, g, o)
      exclusive == {o \in ReachedBy(a, S) : ~GlobalReaches(a, o)
                      /\ \A g \in a.goroutines : ~Rival(g, o)}
  IN [goroutines |-> S, reachable |-> ReachedBy(a, S), exclusive |-> exclusive,
      shared |-> ReachedBy(a, S) \ exclusive,
      global |-> {o \in ReachedBy(a, S) : GlobalReaches(a, o)},
      system |-> {o \in ReachedBy(a, S) : \E g \in a.system : Rival(g, o)},
      other |-> {o \in ReachedBy(a, S) :
                   \E g \in a.goroutines \ a.system : Rival(g, o)}]

TrueComparison(a, inc, wantA, wantB) ==
  LET A == ReachedBy(a, Chosen(a, inc, wantA))
      B == ReachedBy(a, Chosen(a, inc, wantB))
  IN [overlapping |-> Chosen(a, inc, wantA) \cap Chosen(a, inc, wantB),
      aOnly |-> {o \in A : o \notin B}, bOnly |-> {o \in B : o \notin A},
      shared |-> {o \in A : o \in B}, union |-> {o \in Objects : o \in A \/ o \in B}]

\* The partition of multi-bubble-analysis.md: N, another named group reaches
\* it; O, a root outside the named groups does.
TrueRow(a, inc, by, v) ==
  LET mine == Chosen(a, inc, {<<by, v>>})
      keyless == {g \in Chosen(a, inc, {}) : \A p \in a.labels[g] : p[1] # by}
      named == Chosen(a, inc, {}) \ keyless
      outsiders == a.goroutines \ named
      N(o) == \E g \in named \ mine : ReachesFrom(a, g, o)
      O(o) == GlobalReaches(a, o) \/ \E g \in outsiders : ReachesFrom(a, g, o)
      R == ReachedBy(a, mine)
  IN [value |-> v, goroutines |-> Cardinality(mine), reachable |-> R,
      exclusive |-> {o \in R : ~N(o) /\ ~O(o)}, shared |-> {o \in R : N(o) \/ O(o)},
      bubblesOnly |-> {o \in R : N(o) /\ ~O(o)},
      otherRootsOnly |-> {o \in R : ~N(o) /\ O(o)}, both |-> {o \in R : N(o) /\ O(o)},
      global |-> {o \in R : GlobalReaches(a, o)},
      system |-> R \cap ReachedBy(a, outsiders \cap a.system),
      ungrouped |-> R \cap ReachedBy(a, keyless)]

TrueValues(a, inc, by) ==
  LET recovered == UNION {a.labels[g] : g \in a.goroutines}
  IN {v \in {p[2] : p \in recovered} : Chosen(a, inc, {<<by, v>>}) # {}}

\* A limited listing shows the largest groups, and hides no larger one.
TrueRankings(a, inc, by, sort, limit) ==
  LET rows == {TrueRow(a, inc, by, v) : v \in TrueValues(a, inc, by)}
      total == Cardinality(rows)
      size == IF limit = 0 \/ total < limit THEN total ELSE limit
      Largest(shown) == \A q \in shown, r \in rows \ shown :
                          Bytes(q[sort]) >= Bytes(r[sort])
      keyless == {g \in Chosen(a, inc, {}) : \A p \in a.labels[g] : p[1] # by}
  IN {[rows |-> shown, total |-> total, ungrouped |-> Cardinality(keyless),
       excluded |-> Cardinality(a.goroutines \ Chosen(a, inc, {}))] :
        shown \in {S \in SUBSET rows : Cardinality(S) = size /\ Largest(S)}}

\* The first members of S, all of them when the limit is 0.
InOrder(S, Before, limit) ==
  LET n == Cardinality(S)
  IN [i \in 1 .. (IF limit = 0 \/ n < limit THEN n ELSE limit) |->
        CHOOSE e \in S : Cardinality({d \in S : <<d, e>> \in Before}) = i - 1]

Upward == {p \in Int \X Int : p[1] < p[2]}
Larger == {p \in Objects \X Objects :
             Size[p[1]] > Size[p[2]] \/ (Size[p[1]] = Size[p[2]] /\ p[1] < p[2])}

\* A bucket for the sizes 0, 1, 2 and 3, 4 to 7, and so on, when it is used.
TrueDistribution(S) ==
  LET From(m) == {o \in S : m <= Size[o] /\ Size[o] <= IF m = 0 THEN 0 ELSE 2 * m - 1}
      Buckets == {[min |-> m, max |-> IF m = 0 THEN 0 ELSE 2 * m - 1, objects |-> From(m)] :
                    m \in {0} \cup {PowerOf2[k] : k \in 0 .. SizeBits - 1}}
  IN InOrder({b \in Buckets : b.objects # {}}, {p \in Buckets \X Buckets : p[1].min < p[2].min}, 0)

TrueGroups(a, inc, by, o) ==
  {v \in TrueValues(a, inc, by) : o \in ReachedBy(a, Chosen(a, inc, {<<by, v>>}))}

\* What is said of an object: its class in the selection, who else reaches it,
\* and how many groups do, of which some are named.
TrueInfo(a, inc, want, k, o) ==
  LET S == Chosen(a, inc, want)
      groups == TrueGroups(a, inc, k.by, o)
      Outsider(G) == \E g \in G \ S : ReachesFrom(a, g, o)
  IN [object |-> o,
      class |-> IF o \notin ReachedBy(a, S) THEN "not_reachable_from_selection"
                ELSE IF GlobalReaches(a, o) \/ Outsider(a.goroutines) THEN "shared"
                ELSE "exclusive",
      global |-> GlobalReaches(a, o), system |-> Outsider(a.system),
      other |-> Outsider(a.goroutines \ a.system),
      groups |-> InOrder(groups, Upward, k.groupLimit),
      count |-> Cardinality(groups), truncated |-> Cardinality(groups) > k.groupLimit]

\* The largest objects of S, with what is said of each.
TrueRanking(a, inc, k, S, sort) ==
  LET list == InOrder(S, IF sort = "size" THEN Larger ELSE Upward, k.limit)
  IN [i \in DOMAIN list |-> TrueInfo(a, inc, k.want, k, list[i])]

TrueListing(a, inc, k, sort) ==
  LET sets == TrueInspection(a, inc, k.want)
  IN [sets |-> sets, distribution |-> TrueDistribution(sets.reachable),
      objects |-> TrueRanking(a, inc, k, sets.reachable, sort),
      truncated |-> k.limit # 0 /\ Cardinality(sets.reachable) > k.limit]

TrueShared(a, inc, k) ==
  LET pair == TrueComparison(a, inc, k.want, k.with)
  IN [pair |-> pair, objects |-> InOrder(pair.shared, Larger, k.limit),
      truncated |-> k.limit # 0 /\ Cardinality(pair.shared) > k.limit]

\* The objects on a shortest path from R to o, both counted; 0 without one.
TrueDistance(R, o) ==
  LET Chain(n) == \E p \in [1 .. n -> Objects] :
                    /\ p[1] \in R /\ p[n] = o
                    /\ \A i \in 1 .. n - 1 : p[i + 1] \in Children[p[i]]
      lengths == {n \in 1 .. Cardinality(Objects) : Chain(n)}
  IN IF lengths = {} THEN 0 ELSE Min(lengths)

\* Every source that reaches the object is counted: the selections asked for,
\* the other kinds of roots, and the groups; the first maxPaths are traced.
TrueExplanation(a, inc, k, o, selectors) ==
  LET S == Chosen(a, inc, selectors[1])
      Traced(category, name, R) ==
        LET n == TrueDistance(R, o)
        IN [category |-> category, name |-> name, status |-> "found", total |-> n,
            steps |-> Min({n, k.maxSteps}), truncated |-> n > k.maxSteps]
      Kind(category, R) == IF TrueDistance(R, o) = 0 THEN <<>>
                           ELSE <<Traced(category, {}, R)>>
      wanted == [i \in DOMAIN selectors |-> Chosen(a, inc, selectors[i])]
      reaching == {i \in DOMAIN selectors : o \in ReachedBy(a, wanted[i])}
      order == InOrder(reaching, Upward, 0)
      named == InOrder(TrueGroups(a, inc, k.by, o), Upward, 0)
      sources == [i \in DOMAIN order |->
                    Traced("selection", selectors[order[i]], RootsOf(a, wanted[order[i]]))]
                 \o Kind("global", a.globals)
                 \o Kind("other_system", RootsOf(a, a.system \ S))
                 \o Kind("other_goroutines", RootsOf(a, a.goroutines \ (S \cup a.system)))
                 \o [i \in DOMAIN named |->
                       Traced("group", {<<k.by, named[i]>>},
                              RootsOf(a, Chosen(a, inc, {<<k.by, named[i]>>})))]
  IN [info |-> TrueInfo(a, inc, selectors[1], k, o),
      selections |-> [i \in DOMAIN selectors |->
                        [goroutines |-> Cardinality(wanted[i]), reachable |-> i \in reaching]],
      sources |-> Len(sources),
      paths |-> SubSeq(sources, 1, Min({k.maxPaths, Len(sources)})),
      truncated |-> Len(sources) > k.maxPaths]

\* The representatives come from the three lists in turn, best place first.
TrueTop(a, inc, k) ==
  LET sets == TrueInspection(a, inc, k.want)
      lists == <<InOrder(sets.reachable, Larger, k.limit), InOrder(sets.shared, Larger, k.limit),
                 InOrder(sets.exclusive, Larger, k.limit)>>
      places == {q \in (1 .. k.limit) \X (1 .. 3) : q[1] \in DOMAIN lists[q[2]]}
      candidates == {lists[q[2]][q[1]] : q \in places}
      Place(o) == Min({3 * q[1] + q[2] : q \in {p \in places : lists[p[2]][p[1]] = o}})
      Before == {p \in candidates \X candidates : Place(p[1]) < Place(p[2])}
      chosen == InOrder(candidates, Before, k.representatives)
  IN [objects |-> TrueListing(a, inc, k, "size"),
      shared |-> TrueRanking(a, inc, k, sets.shared, "size"),
      exclusive |-> TrueRanking(a, inc, k, sets.exclusive, "size"),
      sharedTruncated |-> Cardinality(sets.shared) > k.limit,
      exclusiveTruncated |-> Cardinality(sets.exclusive) > k.limit,
      explanations |-> [i \in DOMAIN chosen |->
                          TrueExplanation(a, inc, k, chosen[i], <<k.want>>)],
      truncated |-> Cardinality(candidates) > k.representatives]

\* What may be listed as labels: those of the goroutines that may match.
TrueLabels(a, inc) == UNION {a.labels[g] \X {g} : g \in Chosen(a, inc, {})}

\* The answers to a call, none of them when its options or selectors are bad.
Unless(bad, answers) == IF bad THEN {} ELSE answers

TrueAnswers(a, inc, k) ==
  CASE k.op = "query" -> Unless(k.want = {}, {TrueMatch(a, inc, k.want)})
    [] k.op \in {"inspect", "export"} -> Unless(k.want = {}, {TrueInspection(a, inc, k.want)})
    [] k.op = "objects" -> Unless(k.want = {}, {TrueListing(a, inc, k, k.sort)})
    [] k.op = "shared" ->
         Unless({} \in {k.want, k.with} \/ k.limit < 0, {TrueShared(a, inc, k)})
    [] k.op = "explain" ->
         Unless(k.selectors = <<>> \/ {} \in Range(k.selectors),
                {TrueExplanation(a, inc, k, o, k.selectors) : o \in Objects \cap {k.object}})
    [] k.op = "explaintop" -> Unless(k.want = {}, {TrueTop(a, inc, k)})
    [] k.op = "top" ->
         Unless(k.by = "none" \/ k.sort \notin Sorts \/ k.limit < 0,
                TrueRankings(a, inc, k.by, k.sort, k.limit))
    [] k.op = "labels" -> {TrueLabels(a, inc)}
    [] OTHER -> {}

==============================================================================
