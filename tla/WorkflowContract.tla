-------------------------- MODULE WorkflowContract --------------------------
(***************************************************************************)
(* What a run promises, whatever threads, batches and records do: a task   *)
(* runs only after all it depends on has succeeded, at most once to its    *)
(* end, a task below a failure is settled as blocked without having run,   *)
(* and the outcome is decided once, when every task is settled, by whether *)
(* some task has failed.                                                   *)
(***************************************************************************)
CONSTANTS Task, Upstream

VARIABLES status, outcome

contractVars == <<status, outcome>>

Settled == {"succeeded", "failed", "blocked"}

ContractInit ==
  /\ status = [t \in Task |-> "waiting"]
  /\ outcome = "open"

Become(t, from, to) ==
  /\ outcome = "open"
  /\ status[t] = from
  /\ status' = [status EXCEPT ![t] = to]
  /\ UNCHANGED outcome

Start(t) ==
  /\ \A u \in Upstream[t] : status[u] = "succeeded"
  /\ Become(t, "waiting", "running")

Succeed(t) == Become(t, "running", "succeeded")
Fail(t)    == Become(t, "running", "failed")

Block(t) ==
  /\ \E u \in Upstream[t] : status[u] \in {"failed", "blocked"}
  /\ Become(t, "waiting", "blocked")

Complete ==
  /\ outcome = "open"
  /\ \A t \in Task : status[t] \in Settled
  /\ outcome' = IF \E t \in Task : status[t] = "failed" THEN "failed" ELSE "success"
  /\ UNCHANGED status

(***************************************************************************)
(* An exception of user code that is not a task failure ends the run.      *)
(***************************************************************************)
Abort ==
  /\ outcome = "open"
  /\ outcome' = "aborted"
  /\ UNCHANGED status

ContractNext ==
  \/ \E t \in Task : Start(t) \/ Succeed(t) \/ Fail(t) \/ Block(t)
  \/ Complete
  \/ Abort

ContractSpec == ContractInit /\ [][ContractNext]_contractVars
=============================================================================
