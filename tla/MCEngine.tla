------------------------------ MODULE MCEngine ------------------------------
(***************************************************************************)
(* Instances of the engine for TLC: two small workflows, with the          *)
(* batches that dag.py and run() derive from them.                         *)
(***************************************************************************)
EXTENDS EngineInvariant

Graph == INSTANCE Dag

Workflow(up) == [tasks |-> DOMAIN up, dependencies |-> up]

(***************************************************************************)
(* Two roots, a task below one, a task below both, and a last task below   *)
(* both of these: when 1 fails, 3 and 4 are in the same batch, each absent *)
(* when the other's walk may reach it.                                     *)
(***************************************************************************)
JoinTask     == 1 .. 5
JoinUpstream == <<{}, {}, {1}, {1, 2}, {3, 4}>>
JoinAttempts == <<2, 1, 1, 1, 1>>
JoinLevels   == <<0, 0, 1, 1, 2>>

(***************************************************************************)
(* Three tasks of one batch below 1, one of them below 2 as well, and a    *)
(* last task below one of them and, skipping a level, below 2: the walks   *)
(* of three threads overlap, reach a record a batch ahead, and two roots   *)
(* compete for the blame.                                                  *)
(***************************************************************************)
ForkTask     == 1 .. 6
ForkUpstream == <<{}, {}, {1}, {1}, {1, 2}, {2, 3}>>
ForkAttempts == <<1, 2, 1, 1, 1, 1>>
ForkLevels   == <<0, 0, 1, 1, 1, 2>>

ASSUME ScheduleAssumption ==
  /\ JoinLevels = Graph!run_batches(Workflow(JoinUpstream), 2)
  /\ ForkLevels = Graph!run_batches(Workflow(ForkUpstream), 3)
=============================================================================
