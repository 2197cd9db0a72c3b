------------------------------ MODULE MCLoading ------------------------------
(***************************************************************************)
(* Small workflow files.                                                   *)
(***************************************************************************)
EXTENDS Loading

FileIds == 1 .. 4
NoIds   == {4}

Files(ids, entries, max) ==
  [workflow_id : ids, tasks : UNION {[1 .. n -> entries] : n \in 1 .. max}]

(***************************************************************************)
(* Up to three tasks with at most one dependency each, which may name a    *)
(* later task, no task, the task itself, or close a cycle; ids may repeat. *)
(***************************************************************************)
Graphs ==
  Files({1}, [task_id : 1 .. 3, callable : {"extract"},
              depends_on : {<<>>, <<1>>, <<2>>, <<3>>}], 3)

(***************************************************************************)
(* Up to two tasks with whatever can be wrong in a file.                   *)
(***************************************************************************)
Mistakes ==
  Files({1, 4}, [task_id : {1, 2, 4}, callable : {"extract", "typo"},
                 depends_on : {<<>>, <<1>>, <<2>>, <<4>>, <<1, 2>>, <<2, 1>>}], 2)

SomeConfigs == Graphs \cup Mistakes
=============================================================================
