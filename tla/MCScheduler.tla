---------------------------- MODULE MCScheduler ----------------------------
(***************************************************************************)
(* An instance of the scheduler for TLC.                                   *)
(***************************************************************************)
EXTENDS Scheduler

MCName     == 1 .. 2
MCInterval == {-1, 0, 1}
=============================================================================
