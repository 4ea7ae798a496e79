------------------------------ MODULE Selection ------------------------------
(* What the session computes from one loaded analysis: internal/memusage,     *)
(* compute.go, multibubble.go, objects.go and summary.go.  Everything here    *)
(* is a pure function of the object graph and of an immutable source a:       *)
(*   goroutines, system : goroutine ids, and those IsSystem or IsBackground;  *)
(*   roots, globals : the objects the roots of a goroutine, or of the         *)
(*                    process, refer to;                                      *)
(*   labels : the recovered labels, a set of <<key, value>> per goroutine;    *)
(*   failed, missing : Diagnostics.FailedGIDs and StringMissingGIDs.          *)
(* inc is Options.IncludeSystemGoroutines.  An answer keeps the SET of        *)
(* objects where the code keeps its count and bytes (a Measure).              *)
EXTENDS Integers, FiniteSets, FiniteSetsExt

CONSTANTS Objects,   \* the nodes of the graph Build returned
          Children,  \* an object's outgoing references
          Size       \* an object's recorded shallow bytes

-----------------------------------------------------------------------------
(* Walks                                                                      *)

ClosedSets ==
  {S \in SUBSET Objects : \A o \in S : Children[o] \cap Objects \subseteq S}

\* The set a walk returns: module Reach, about ReachableFrom, shows that such a
\* worklist ends with the least closed set around the valid roots.
Walk(R) ==
  {o \in Objects : \A S \in ClosedSets : R \cap Objects \subseteq S => o \in S}

RootsOf(a, G) == UNION {a.roots[g] : g \in G}

Bytes(S) == MapThenSumSet(LAMBDA o : Size[o], S)

-----------------------------------------------------------------------------
(* Who may match, and whether the matching can be trusted                     *)

Excluded(a, inc) == IF inc THEN {} ELSE a.system

Eligible(a, inc) == a.goroutines \ Excluded(a, inc)

LabelsMatch(have, want) == want \subseteq have

Selected(a, inc, want) ==
  {g \in Eligible(a, inc) : LabelsMatch(a.labels[g], want)}

\* A slip: system goroutines never count, though they may match on request.
FailuresOfWorkers(a, inc) == {g \in a.failed \cup a.missing : g \notin a.system}

\* A failure counts when the goroutine may match, or is unknown to the graph.
EligibleFailures(a, inc) ==
  {g \in a.failed \cup a.missing : g \in Eligible(a, inc) \/ g \notin a.goroutines}

FailureError(a, inc) ==
  IF EligibleFailures(a, inc) \cap a.missing # {} THEN "string_missing"
  ELSE IF EligibleFailures(a, inc) # {} THEN "label_recovery_failed"
  ELSE "none"

-----------------------------------------------------------------------------
(* The reports                                                                *)

\* inspect: the selected goroutines against every other root of the process.
\* Exclusive, Summary and Objects report these sets.
Inspect(a, inc, want) ==
  LET ids == Selected(a, inc, want)
      reachable == Walk(RootsOf(a, ids))
      global == Walk(a.globals)
      system == Walk(RootsOf(a, a.system \ ids))
      other == Walk(RootsOf(a, a.goroutines \ (ids \cup a.system)))
      outside == global \cup system \cup other
  IN [goroutines |-> ids, reachable |-> reachable,
      exclusive |-> reachable \ outside, shared |-> reachable \cap outside,
      global |-> reachable \cap global, system |-> reachable \cap system,
      other |-> reachable \cap other]

ComparePair(a, inc, wantA, wantB) ==
  LET ai == Selected(a, inc, wantA)
      bi == Selected(a, inc, wantB)
      as == Walk(RootsOf(a, ai))
      bs == Walk(RootsOf(a, bi))
  IN [overlapping |-> ai \cap bi, aOnly |-> as \ bs, bOnly |-> bs \ as,
      shared |-> as \cap bs, union |-> as \cup bs]

Values(a, inc, by) ==
  {p[2] : p \in {q \in UNION {a.labels[g] : g \in Eligible(a, inc)} : q[1] = by}}

Group(a, inc, by, v) == {g \in Eligible(a, inc) : <<by, v>> \in a.labels[g]}

Keyless(a, inc, by) ==
  Eligible(a, inc) \ UNION {Group(a, inc, by, v) : v \in Values(a, inc, by)}

\* Top classifies an object of a group by its membership counter and by
\* whether a root outside the named groups reaches it.
Breakdowns(a, inc, by) ==
  LET values == Values(a, inc, by)
      keyless == Keyless(a, inc, by)
      global == Walk(a.globals)
      system == Walk(RootsOf(a, Excluded(a, inc) \cup (keyless \cap a.system)))
      rest == Walk(RootsOf(a, keyless))
      outside == global \cup system \cup rest
      set == [v \in values |-> Walk(RootsOf(a, Group(a, inc, by, v)))]
      membership == [o \in Objects |-> Cardinality({v \in values : o \in set[v]})]
      crowded == {o \in Objects : membership[o] > 1}
      Row(v) ==
        [value |-> v, goroutines |-> Cardinality(Group(a, inc, by, v)),
         reachable |-> set[v],
         exclusive |-> set[v] \ (crowded \cup outside),
         shared |-> set[v] \cap (crowded \cup outside),
         bubblesOnly |-> (set[v] \cap crowded) \ outside,
         otherRootsOnly |-> (set[v] \cap outside) \ crowded,
         both |-> set[v] \cap crowded \cap outside,
         global |-> set[v] \cap global, system |-> set[v] \cap system,
         ungrouped |-> set[v] \cap rest]
  IN {Row(v) : v \in values}

Sorts == {"reachable", "exclusive", "shared"}

\* The order of Top's rows: metric descending, then value.
RanksBefore(sort, q, r) ==
  \/ Bytes(q[sort]) > Bytes(r[sort])
  \/ Bytes(q[sort]) = Bytes(r[sort]) /\ q.value < r.value

\* Sorting and limiting come last: a hidden group has already been counted.
TopGroups(a, inc, by, sort, limit) ==
  LET rows == Breakdowns(a, inc, by)
      Ahead(r) == {q \in rows : RanksBefore(sort, q, r)}
  IN [rows |-> {r \in rows : limit = 0 \/ Cardinality(Ahead(r)) < limit},
      total |-> Cardinality(rows),
      ungrouped |-> Cardinality(Keyless(a, inc, by)),
      excluded |-> Cardinality(Excluded(a, inc))]

==============================================================================
