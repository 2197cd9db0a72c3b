------------------------------- MODULE States -------------------------------
(***************************************************************************)
(* Task and workflow state machines (states.py): the states, the two       *)
(* transition tables and the rule that derives a run's state from the      *)
(* states of its tasks.  Every other module takes its states from here.    *)
(***************************************************************************)

TaskState ==
  {"pending", "running", "success", "retrying", "failed",
   "upstream_failed", "skipped", "cancelled"}

WorkflowState == {"pending", "running", "success", "failed", "cancelled"}

FAILURE_STATES == {"failed", "upstream_failed"}

(***************************************************************************)
(* The tables are dicts keyed by state, so they are records here.          *)
(***************************************************************************)
TASK_TRANSITIONS ==
  [pending         |-> {"running", "retrying", "upstream_failed",
                        "skipped", "cancelled"},
   running         |-> {"success", "failed", "cancelled"},
   retrying        |-> {"running", "cancelled"},
   failed          |-> {"retrying", "upstream_failed"},
   upstream_failed |-> {"retrying", "skipped", "cancelled"},
   success         |-> {},
   skipped         |-> {},
   cancelled       |-> {}]

WORKFLOW_TRANSITIONS ==
  [pending   |-> {"running", "cancelled"},
   running   |-> {"success", "failed", "cancelled"},
   success   |-> {},
   failed    |-> {},
   cancelled |-> {}]

can_transition(current, target) == target \in TASK_TRANSITIONS[current]

can_transition_workflow(current, target) ==
  target \in WORKFLOW_TRANSITIONS[current]

(***************************************************************************)
(* The state of a run whose tasks are in the given set of states; the      *)
(* rules are tried in order.  An empty run has no state ("none").          *)
(***************************************************************************)
aggregate_workflow_state(states) ==
  IF states = {} THEN "none"
  ELSE IF states \cap {"running", "retrying"} # {} THEN "running"
  ELSE IF "failed" \in states THEN "failed"
  ELSE IF "cancelled" \in states THEN "cancelled"
  ELSE "success"
=============================================================================
