----------------------------- MODULE ExportForest -----------------------------
(* The stacks of a pprof export in "paths" mode (internal/memusage/            *)
(* export_paths.go): one breadth-first forest over everything the roots reach, *)
(* and for each object the beginning and the end of its path in the forest.    *)
(*                                                                             *)
(* children maps an object to the list of its references, roots is the list    *)
(* of the objects the roots refer to, in the order of the analysis, and owner  *)
(* has the goroutine id of each; ids that index nothing may occur in both      *)
(* lists of objects.  A forest has a node for each visited object, and the     *)
(* queue.  The slots of references are left out.                               *)
EXTENDS Integers, Sequences, FiniteSets

\* An id that indexes nothing, or that was visited before, is skipped.
Plant(f, objects, o, node) ==
  IF o \notin objects \/ o \in DOMAIN f.nodes THEN f
  ELSE [nodes |-> [x \in DOMAIN f.nodes \cup {o} |-> IF x = o THEN node ELSE f.nodes[x]],
        queue |-> Append(f.queue, o)]

\* The nodes of a list, one after another.
PlantAll(f, objects, list) ==
  LET Planted[i \in 0 .. Len(list)] ==
        IF i = 0 THEN f ELSE Plant(Planted[i - 1], objects, list[i].id, list[i].node)
  IN Planted[Len(list)]

\* A root is where its own prefix ends; its parent is never looked at.
RootNodes(roots) ==
  [i \in 1 .. Len(roots) |->
     [id |-> roots[i],
      node |-> [parent |-> 0, prefixEnd |-> roots[i], root |-> i, depth |-> 1]]]

PlantRoots(objects, roots) == PlantAll([nodes |-> <<>>, queue |-> <<>>], objects, RootNodes(roots))

\* A slip: the anchor moves one object too far.
AnchorTooFar(node, child, prefixDepth) ==
  IF node.depth <= prefixDepth THEN child ELSE node.prefixEnd

\* The object the rendered prefix of a child's path ends with.
Anchor(node, child, prefixDepth) ==
  IF node.depth < prefixDepth THEN child ELSE node.prefixEnd

ChildNodes(f, children, id, prefixDepth) ==
  [i \in 1 .. Len(children[id]) |->
     [id |-> children[id][i],
      node |-> [parent |-> id, prefixEnd |-> Anchor(f.nodes[id], children[id][i], prefixDepth),
                root |-> f.nodes[id].root, depth |-> f.nodes[id].depth + 1]]]

PlantChildren(f, children, id, prefixDepth) ==
  PlantAll(f, DOMAIN children, ChildNodes(f, children, id, prefixDepth))

\* The queue is scanned while it grows.
Forest(children, roots, prefixDepth) ==
  LET Scanned[head \in 0 .. Cardinality(DOMAIN children)] ==
        IF head = 0 THEN PlantRoots(DOMAIN children, roots)
        ELSE LET f == Scanned[head - 1]
             IN IF head > Len(f.queue) THEN f
                ELSE PlantChildren(f, children, f.queue[head], prefixDepth)
  IN Scanned[Cardinality(DOMAIN children)]

\* The last n objects of the path to id.
Collect(f, id, n) ==
  LET Ancestor[k \in 0 .. n - 1] ==
        IF k = 0 THEN id ELSE f.nodes[Ancestor[k - 1]].parent
  IN [i \in 1 .. n |-> Ancestor[n - i]]

\* A path of more than maxDepth objects loses its middle; 0 is no limit.
Segments(f, id, maxDepth) ==
  LET depth == f.nodes[id].depth
      first == maxDepth \div 2
  IN IF maxDepth = 0 \/ depth <= maxDepth
     THEN [prefix |-> Collect(f, id, depth), suffix |-> <<>>, omitted |-> 0]
     ELSE [prefix |-> Collect(f, f.nodes[id].prefixEnd, first),
           suffix |-> Collect(f, id, maxDepth - first),
           omitted |-> depth - maxDepth]

\* Goroutines by id, and by the order of the analysis where ids are equal.
Before(owner, i, j) == owner[i] < owner[j] \/ (owner[i] = owner[j] /\ i < j)

\* A slip: the goroutines are not sorted.
AnalysisOrder(owner) == [i \in 1 .. Len(owner) |-> i]

\* The roots of the goroutines, sorted; each entry is a place in the analysis.
ExportOrder(owner) ==
  CHOOSE order \in [1 .. Len(owner) -> 1 .. Len(owner)] :
    \A i, j \in 1 .. Len(owner) : i < j => Before(owner, order[i], order[j])

\* What ExportPprof renders, with the forest it builds for this maxDepth.
Stack(children, roots, owner, id, maxDepth) ==
  LET order == ExportOrder(owner)
      f == Forest(children, [i \in 1 .. Len(order) |-> roots[order[i]]], maxDepth \div 2)
  IN IF id \notin DOMAIN f.nodes THEN [shown |-> FALSE]
     ELSE [shown |-> TRUE, root |-> order[f.nodes[id].root], path |-> Segments(f, id, maxDepth)]
==============================================================================
