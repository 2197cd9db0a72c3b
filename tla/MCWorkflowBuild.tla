-------------------------- MODULE MCWorkflowBuild ---------------------------
(***************************************************************************)
(* Every workflow on four ids, built with lists of at most two ids, which  *)
(* may repeat one, and with two chains of all four.                        *)
(***************************************************************************)
EXTENDS WorkflowBuild

FourIds == 1 .. 4
ManyLists ==
  UNION {[1 .. n -> FourIds] : n \in 0 .. 2} \cup {<<4, 2, 1, 3>>, <<3, 1, 4, 2>>}
=============================================================================
