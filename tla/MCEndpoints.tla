----------------------------- MODULE MCEndpoints -----------------------------
(***************************************************************************)
(* One goroutine per endpoint, each serving one request after another, so  *)
(* that a request meets the other endpoint's and the leftovers of its own  *)
(* predecessor. Three chunks: a limit or a failure can cut the stream      *)
(* before the first, before the second or before the end marker.           *)
(***************************************************************************)
EXTENDS Endpoints, TLC

CONSTANTS m1, b1

MCKind == (m1 :> "memusage") @@ (b1 :> "bundle")
MCCooldowns == -1 .. 2
=============================================================================
