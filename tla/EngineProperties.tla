-------------------------- MODULE EngineProperties --------------------------
(***************************************************************************)
(* What a run of the engine must satisfy, and the contract it implements.  *)
(***************************************************************************)
EXTENDS Engine

(***************************************************************************)
(* A failure that no retry follows.                                        *)
(***************************************************************************)
Exhausted(t) == state[t] = "failed" /\ attempts[t] = MaxAttempts[t]

(***************************************************************************)
(* "A task whose upstream hasn't succeeded never runs": once a task has    *)
(* made an attempt, each of its dependencies has succeeded and stays so,   *)
(* although the check is made without the lock while other threads of the  *)
(* batch run (engine.py 284-288, 449-456).                                 *)
(***************************************************************************)
UpstreamSucceeded ==
  \A t \in Task : attempts[t] > 0 => \A u \in Upstream[t] : state[u] = "success"

(***************************************************************************)
(* A task marked upstream_failed names, in its error, a task that has used *)
(* all its attempts, and depends on it: no retry can come after somebody   *)
(* has been blocked for it, and no blocked task is named as the culprit,   *)
(* although a walk takes any upstream in FAILURE_STATES (449-455).         *)
(***************************************************************************)
BlameIsReal ==
  \A t \in Task : state[t] = "upstream_failed" =>
    /\ error[t] # None
    /\ Exhausted(error[t])
    /\ t \in Descendants[error[t]]

(***************************************************************************)
(* When run() aggregates, every task has a record in a final state, so     *)
(* that the transition check at 228 cannot raise and the callers that      *)
(* index run.records by every task id find it.                             *)
(***************************************************************************)
CleanFinalization ==
  pc \in {"finalize", "ended"} =>
    \A t \in Task : state[t] \in {"success"} \cup FAILURE_STATES

(***************************************************************************)
(* A returned run is a success exactly when every task succeeded, and its  *)
(* blocked tasks are exactly the transitive dependents of failed ones: an  *)
(* independent branch is unaffected and no dependent is missed by the lazy *)
(* walks.                                                                  *)
(***************************************************************************)
OutcomeMatches ==
  pc = "ended" =>
    /\ wfState = "success" <=> \A t \in Task : state[t] = "success"
    /\ wfState = "failed" <=> \E t \in Task : state[t] = "failed"
    /\ \A t \in Task :
         state[t] = "upstream_failed" <=>
           \E u \in Task : state[u] = "failed" /\ t \in Descendants[u]

(***************************************************************************)
(* A thread that may write its record writes the one in run.records, not   *)
(* one that the unlocked insertion of another thread has replaced (93-95   *)
(* against 428); the second lookup at 285 is what makes it so.             *)
(***************************************************************************)
NoDetachedExecutor ==
  \A t \in detached :
    phase[t] \notin {"starting", "calling", "failing", "backoff"}

(***************************************************************************)
(* A step leaves the state of t alone, moves it along the table, or resets *)
(* it below an exhausted failure in a batch that has another task.         *)
(***************************************************************************)
HasPeer(t) == \E w \in Task \ {t} : Batch[w] = Batch[t]

MovesLawfully(t) ==
  state[t] \notin {"absent", state'[t]} =>
    \/ can_transition(state[t], state'[t])
    \/ /\ state[t] = "upstream_failed" /\ state'[t] = "pending"
       /\ \E u \in Task : Exhausted(u) /\ t \in Descendants[u]
       /\ HasPeer(t)

AllMoveLawfully == \A t \in Task : MovesLawfully(t)

(***************************************************************************)
(* Every change of a task's state is one of TASK_TRANSITIONS, except that  *)
(* the unlocked insertion may reset a blocked record (94), and then only   *)
(* of a task below an exhausted failure, which will be blocked again, and  *)
(* only where threads run side by side: the walk of one of the same batch  *)
(* comes between the lookup and the insertion.                             *)
(***************************************************************************)
OnlyDoomedRecordsReset ==
  [][AllMoveLawfully]_vars

(***************************************************************************)
(* "An illegal transition can never occur silently" (engine.py 7-10): a    *)
(* record's state changes only along TASK_TRANSITIONS.  It holds when      *)
(* tasks run one at a time.                                                *)
(***************************************************************************)
LegalTransitions ==
  [][\A t \in Task :
       state[t] \notin {"absent", state'[t]} => can_transition(state[t], state'[t])]_vars

(***************************************************************************)
(* When run() raises, its pool has been drained: no thread still executes  *)
(* a task behind the caller's back, and no later batch has begun (218-224).*)
(***************************************************************************)
RaiseDrainsPool ==
  pc = "raised" =>
    \A t \in Task : /\ phase[t] \in {"idle"} \cup Over
                    /\ Batch[t] > batch => attempts[t] = 0

(***************************************************************************)
(* run() returns or raises: no walk goes round, no thread waits for ever   *)
(* for the lock or a free worker, retries end.                             *)
(***************************************************************************)
Termination == <>(pc \in {"ended", "raised"})

(***************************************************************************)
(* After an exhausted failure every transitive dependent gets blocked,     *)
(* unless the run raises.                                                  *)
(***************************************************************************)
FailureBlocksDependents ==
  \A u \in Task :
    Exhausted(u) ~>
      (pc = "raised" \/ \A t \in Descendants[u] : state[t] = "upstream_failed")
-----------------------------------------------------------------------------
(***************************************************************************)
(* The contract as it shows in a run.  A blocked record counts once its    *)
(* thread is done with it, a failure once no retry can follow.             *)
(***************************************************************************)
StatusOf(t) ==
  CASE state[t] \in {"running", "retrying"} -> "running"
    [] state[t] = "success" -> "succeeded"
    [] state[t] = "failed" -> IF phase[t] \in Over THEN "failed" ELSE "running"
    [] state[t] = "upstream_failed" /\ phase[t] = "done" -> "blocked"
    [] OTHER -> "waiting"

OutcomeOf ==
  CASE pc = "ended" -> wfState
    [] pc = "raised" -> "aborted"
    [] OTHER -> "open"

Contract == INSTANCE WorkflowContract WITH
  status <- [t \in Task |-> StatusOf(t)], outcome <- OutcomeOf

(***************************************************************************)
(* The engine implements the contract: whatever the interleaving of the    *)
(* threads, a task starts once, after its dependencies, and settles once.  *)
(***************************************************************************)
ImplementsContract == Contract!ContractSpec
=============================================================================
