---------------------------- MODULE MCPathSearch ----------------------------
(***************************************************************************)
(* Every graph of five objects whose children are one of five lists, with  *)
(* cycles, shortcuts, duplicates and the id 5, which indexes no object;    *)
(* chains of all five, so that a stack loses one to three objects in its   *)
(* middle; limits below, at and above the number of reachable objects. The *)
(* roots are those of one goroutine, or of two that an export swaps.       *)
(***************************************************************************)
EXTENDS PathSearch

MCChildLists == {<<>>, <<1, 5>>, <<2, 0>>, <<3, 1, 2>>, <<4, 4>>}
MCRootLists == {<<0>>, <<5, 2, 0>>}
MCOwnerLists == {<<1>>, <<1, 1, 1>>, <<2, 2, 1>>}
=============================================================================
