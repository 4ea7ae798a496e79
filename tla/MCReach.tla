------------------------------- MODULE MCReach -------------------------------
(***************************************************************************)
(* Every graph of three objects whose children are one of nine lists,      *)
(* walked from one of eight root lists: chains, cycles, self edges, shared *)
(* children, duplicates and the id 3, which indexes no object.             *)
(***************************************************************************)
EXTENDS Reach

MCChildLists ==
  {<<>>, <<0>>, <<1>>, <<2>>, <<3, 1>>, <<1, 2>>, <<2, 0>>, <<0, 1, 2>>, <<2, 2>>}
MCRootLists ==
  {<<>>, <<0>>, <<1>>, <<3>>, <<1, 1>>, <<2, 0>>, <<3, 2>>, <<0, 1, 2>>}
=============================================================================
