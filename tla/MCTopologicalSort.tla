-------------------------- MODULE MCTopologicalSort --------------------------
(***************************************************************************)
(* The topological sort on all small graphs.                               *)
(***************************************************************************)
EXTENDS SortInvariant, MCGraph
=============================================================================
