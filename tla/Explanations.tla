----------------------------- MODULE Explanations -----------------------------
(* The object lists and explanations of a session (internal/memusage,         *)
(* objects.go, explain.go and Shared in multibubble.go), for an analysis a    *)
(* as in Selection.  Objects are numbered by address.  Searches are without   *)
(* limit here: module PathSearch is about the limit.                          *)
EXTENDS Selection, Sequences, Functions

CONSTANT SizeBits  \* the width of a size

-----------------------------------------------------------------------------
(* Lists of objects                                                           *)

Limited(list, limit) ==
  IF limit = 0 \/ Len(list) <= limit THEN list ELSE SubSeq(list, 1, limit)

\* sort.Slice and sort.Strings, by a strict total order given as its pairs.
Sorted(S, L) ==
  CHOOSE q \in [1 .. Cardinality(S) -> S] : \A i, j \in DOMAIN q : i < j => <<q[i], q[j]>> \in L

Ascending(S) == {p \in S \X S : p[1] < p[2]}
LargestFirst(S) ==
  {p \in S \X S : IF Size[p[1]] # Size[p[2]] THEN Size[p[1]] > Size[p[2]] ELSE p[1] < p[2]}

\* rankedIDs: size descending, then address.
RankedIDs(S, sort) == Sorted(S, IF sort = "size" THEN LargestFirst(S) ELSE Ascending(S))

PowerOf2[k \in 0 .. SizeBits] == IF k = 0 THEN 1 ELSE 2 * PowerOf2[k - 1]

\* bits.Len64.
Len64(n) ==
  CHOOSE k \in 0 .. SizeBits : n < PowerOf2[k] /\ (k = 0 \/ PowerOf2[k - 1] <= n)

\* The buckets that are not empty, in order.
SizeDistribution(S) ==
  LET Bucket(k) == [min |-> IF k = 0 THEN 0 ELSE PowerOf2[k - 1], max |-> PowerOf2[k] - 1,
                    objects |-> {o \in S : Len64(Size[o]) = k}]
      used == {Len64(Size[o]) : o \in S}
      lengths == Sorted(used, Ascending(used))
  IN [i \in DOMAIN lengths |-> Bucket(lengths[i])]

\* groupSources whose walk reaches the object: the names are cut, the count
\* is not.
ReachingGroups(a, inc, by, o) ==
  LET reaching == {v \in Values(a, inc, by) : o \in Walk(RootsOf(a, Group(a, inc, by, v)))}
  IN Sorted(reaching, Ascending(reaching))

\* objectInfo and memberships.
ObjectInfo(a, inc, o, in, k) ==
  LET groups == ReachingGroups(a, inc, k.by, o)
  IN [object |-> o,
      class |-> IF o \notin in.reachable THEN "not_reachable_from_selection"
                ELSE IF o \in in.outside THEN "shared" ELSE "exclusive",
      global |-> o \in in.global, system |-> o \in in.system, other |-> o \in in.other,
      groups |-> Limited(groups, k.groupLimit), count |-> Len(groups),
      truncated |-> Len(groups) > k.groupLimit]

\* inspect, with the whole walks of the other roots.
Surroundings(a, inc, want) ==
  LET ids == Selected(a, inc, want)
      global == Walk(a.globals)
      system == Walk(RootsOf(a, a.system \ ids))
      other == Walk(RootsOf(a, a.goroutines \ (ids \cup a.system)))
  IN [goroutines |-> ids, reachable |-> Walk(RootsOf(a, ids)), global |-> global,
      system |-> system, other |-> other, outside |-> global \cup system \cup other]

Infos(a, inc, list, in, k) == [i \in DOMAIN list |-> ObjectInfo(a, inc, list[i], in, k)]

ObjectList(a, inc, in, sort, k) ==
  LET ids == Limited(RankedIDs(in.reachable, sort), k.limit)
  IN [sets |-> Inspect(a, inc, k.want),
      distribution |-> SizeDistribution(in.reachable),
      objects |-> Infos(a, inc, ids, in, k),
      truncated |-> Len(ids) < Cardinality(in.reachable)]

SharedObjects(a, inc, k) ==
  LET pair == ComparePair(a, inc, k.want, k.with)
      ids == RankedIDs(pair.shared, "size")
  IN [pair |-> pair, objects |-> Limited(ids, k.limit),
      truncated |-> k.limit > 0 /\ Len(ids) > k.limit]

-----------------------------------------------------------------------------
(* Explanations                                                               *)

\* FindPath without a limit: the number of objects on a shortest path, or 0.
PathLength(R, o) ==
  LET Near[n \in 0 .. Cardinality(Objects)] ==
        IF n = 0 THEN {}
        ELSE (R \cap Objects) \cup UNION {Children[p] \cap Objects : p \in Near[n - 1]}
      reaching == {n \in 1 .. Cardinality(Objects) : o \in Near[n]}
  IN IF reaching = {} THEN 0 ELSE CHOOSE n \in reaching : \A m \in reaching : n <= m

PathSource(category, name, roots) == [category |-> category, name |-> name, roots |-> roots]

Path(source, o, k) ==
  LET n == PathLength(source.roots, o)
  IN [category |-> source.category, name |-> source.name,
      status |-> IF n = 0 THEN "not_reachable" ELSE "found", total |-> n,
      steps |-> IF n > k.maxSteps THEN k.maxSteps ELSE n, truncated |-> n > k.maxSteps]

\* explainObject.  Groups beyond maxPaths are counted, not kept; explicit
\* selections and kinds of roots are kept, and cut at the end.
ExplainObject(a, inc, o, selectors, in, k) ==
  LET info == ObjectInfo(a, inc, o, in, k)
      others == a.goroutines \ in.goroutines
      asked == [i \in DOMAIN selectors |->
                  PathSource("selection", selectors[i], RootsOf(a, Selected(a, inc, selectors[i])))]
      reaching == {i \in DOMAIN asked : o \in Walk(asked[i].roots)}
      order == Sorted(reaching, Ascending(reaching))
      explicit == [i \in DOMAIN order |-> asked[order[i]]]
      kinds == (IF info.global THEN <<PathSource("global", {}, a.globals)>> ELSE <<>>)
               \o (IF info.system
                   THEN <<PathSource("other_system", {}, RootsOf(a, others \cap a.system))>>
                   ELSE <<>>)
               \o (IF info.other
                   THEN <<PathSource("other_goroutines", {}, RootsOf(a, others \ a.system))>>
                   ELSE <<>>)
      values == ReachingGroups(a, inc, k.by, o)
      groups == [i \in DOMAIN values |->
                   PathSource("group", {<<k.by, values[i]>>},
                              RootsOf(a, Group(a, inc, k.by, values[i])))]
      room == k.maxPaths - Len(explicit \o kinds)
      kept == explicit \o kinds \o (IF room > 0 THEN Limited(groups, room) ELSE <<>>)
      dropped == IF room > 0 THEN Len(groups) - Len(Limited(groups, room)) ELSE Len(groups)
      printed == Limited(kept, k.maxPaths)
  IN [info |-> info,
      selections |-> [i \in DOMAIN selectors |->
                        [goroutines |-> Cardinality(Selected(a, inc, selectors[i])),
                         reachable |-> o \in Walk(asked[i].roots)]],
      sources |-> dropped + Len(kept),
      paths |-> [i \in DOMAIN printed |-> Path(printed[i], o, k)],
      truncated |-> dropped + Len(kept) > Len(printed)]

Explain(a, inc, k) ==
  ExplainObject(a, inc, k.object, k.selectors, Surroundings(a, inc, k.selectors[1]), k)

\* An object of row i that was not seen before becomes a candidate.
Visit(seen, list, i) ==
  IF i \in DOMAIN list /\ list[i] \notin Range(seen) THEN Append(seen, list[i]) ELSE seen

\* The rows of the three lists in turn, each object at its first place.
RoundRobin(first, second, third) ==
  LET longest == Max({Len(first), Len(second), Len(third)})
      after[i \in 0 .. longest] ==
        IF i = 0 THEN <<>>
        ELSE Visit(Visit(Visit(after[i - 1], first, i), second, i), third, i)
  IN after[longest]

ExplainTop(a, inc, k) ==
  LET in == Surroundings(a, inc, k.want)
      Ranking(S) == Limited(RankedIDs(S, "size"), k.limit)
      shared == Ranking(in.reachable \cap in.outside)
      exclusive == Ranking(in.reachable \ in.outside)
      candidates == RoundRobin(Ranking(in.reachable), shared, exclusive)
      chosen == Limited(candidates, k.representatives)
  IN [objects |-> ObjectList(a, inc, in, "size", k),
      shared |-> Infos(a, inc, shared, in, k), exclusive |-> Infos(a, inc, exclusive, in, k),
      sharedTruncated |-> Len(shared) < Cardinality(in.reachable \cap in.outside),
      exclusiveTruncated |-> Len(exclusive) < Cardinality(in.reachable \ in.outside),
      explanations |-> [i \in DOMAIN chosen |->
                          ExplainObject(a, inc, chosen[i], <<k.want>>, in, k)],
      truncated |-> Len(candidates) > Len(chosen)]

==============================================================================
