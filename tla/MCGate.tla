------------------------------- MODULE MCGate -------------------------------
(***************************************************************************)
(* Three requests on one gate. A second is two ticks, so the cooldowns 0,  *)
(* 1, 2 and 3 are none, a fraction of a second, a whole one and one and a  *)
(* half; -1 is the invalid configuration.                                  *)
(***************************************************************************)
EXTENDS Gate

MCCooldowns == -1 .. 3
=============================================================================
