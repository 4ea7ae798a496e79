------------------------------ MODULE MCSession ------------------------------
(***************************************************************************)
(* Two clients of a session over four objects, two workers and one system  *)
(* goroutine.  The sources vary who carries which label, whether globals   *)
(* and the system goroutine reach what the workers share, and whose labels *)
(* failed to decode: nobody's, the system goroutine's, a worker's, or      *)
(* those of a goroutine the graph does not know.                           *)
(***************************************************************************)
EXTENDS Session

w1 == "w1"
w2 == "w2"
sys == "sys"
ghost == "ghost"

t1 == <<"tenant", 1>>
t2 == <<"tenant", 2>>
r1 == <<"role", 1>>

\* 1 and 2 are the workers' own, 3 what they share, 4 behind it, in a cycle.
MCObjects == 1 .. 4
MCChildren == [o \in MCObjects |-> CASE o = 1 -> {3} [] o = 2 -> {3, 2}
                                   [] o = 3 -> {4} [] o = 4 -> {3}]
MCSize == [o \in MCObjects |-> CASE o = 2 -> 3 [] o = 3 -> 0 [] OTHER -> 1]

MCSizeBits == 2

Roots == [w1 |-> {1}, w2 |-> {2}, sys |-> {4}]

Source(roots, globals, labels, failed, missing) ==
  [goroutines |-> {w1, w2, sys}, system |-> {sys}, roots |-> roots, globals |-> globals,
   labels |-> labels, failed |-> failed, missing |-> missing]

MCSources ==
  {Source(Roots, {}, [w1 |-> {t1, r1}, w2 |-> {t2}, sys |-> {}], {}, {}),
   Source([Roots EXCEPT !.sys = {2}], {2},
          [w1 |-> {t1, r1}, w2 |-> {t1}, sys |-> {t2}], {}, {}),
   Source([Roots EXCEPT !.w1 = {1, 2}, !.sys = {}], {1},
          [w1 |-> {t1}, w2 |-> {}, sys |-> {r1}], {}, {}),
   Source(Roots, {}, [w1 |-> {t1, r1}, w2 |-> {t2}, sys |-> {}], {sys}, {sys}),
   Source(Roots, {}, [w1 |-> {t1}, w2 |-> {}, sys |-> {}], {w2}, {}),
   Source(Roots, {}, [w1 |-> {t1}, w2 |-> {t1}, sys |-> {}], {ghost}, {})}

MCCalls ==
  {[op |-> "query", want |-> w] : w \in {{}, {t1}, {t1, r1}}}
  \cup {[op |-> "export", want |-> {t1}],
        [op |-> "objects", want |-> {t1}, by |-> "tenant", groupLimit |-> 1,
         sort |-> "address", limit |-> 2],
        [op |-> "shared", want |-> {t1}, with |-> {t2}, limit |-> 1],
        [op |-> "shared", want |-> {t1}, with |-> {t2}, limit |-> -1],
        [op |-> "explain", object |-> 3, selectors |-> <<{t2}, {t1}>>, by |-> "tenant",
         groupLimit |-> 1, maxPaths |-> 2, maxSteps |-> 1],
        [op |-> "explaintop", want |-> {t1}, by |-> "tenant", limit |-> 2,
         representatives |-> 2, groupLimit |-> 1, maxPaths |-> 3, maxSteps |-> 2],
        [op |-> "top", by |-> "tenant", sort |-> "reachable", limit |-> 0],
        [op |-> "top", by |-> "tenant", sort |-> "exclusive", limit |-> 1],
        [op |-> "top", by |-> "none", sort |-> "reachable", limit |-> 0],
        [op |-> "top", by |-> "tenant", sort |-> "size", limit |-> 0],
        [op |-> "labels"], [op |-> "close"]}

\* The calls ask something of the sources.
ASSUME Truths # [x \in DOMAIN Truths |-> {}]
ASSUME \E x \in DOMAIN Reports : Reports # [y \in DOMAIN Reports |-> Reports[x]]

\* The hypotheses of SessionImplementsPromise hold of them.
ASSUME Hypotheses
==============================================================================
