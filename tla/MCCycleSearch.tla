---------------------------- MODULE MCCycleSearch ----------------------------
(***************************************************************************)
(* The search for cycles on all small graphs.                              *)
(***************************************************************************)
EXTENDS CycleInvariant, MCGraph
=============================================================================
