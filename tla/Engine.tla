------------------------------- MODULE Engine -------------------------------
(***************************************************************************)
(* One call of WorkflowEngine.run (engine.py): the calling thread, which   *)
(* dispatches the tasks batch by batch and joins each batch, and the       *)
(* worker threads, each of which executes one task at a time with retries. *)
(* All of them share the run's records; the engine's lock guards most, but *)
(* not all, of the accesses to them.                                       *)
(*                                                                         *)
(* A step is what a thread does between two points where another thread    *)
(* can be seen to interfere: reading or inserting a record without the     *)
(* lock, taking the lock, or calling user code.  Left out: timestamps, the *)
(* log, the context passed to a callable and the length of a backoff.      *)
(***************************************************************************)
EXTENDS States, Integers, FiniteSets

CONSTANTS
  Task,          \* task ids; ordered like the strings they stand for
  Upstream,      \* the workflow's dependencies, a set of tasks for each task
  MaxAttempts,   \* Task.max_attempts of every task
  Batch,         \* the batch of run() that dispatches each task (see MCEngine)
  MaxWorkers,    \* the engine's max_workers
  RaisingHooks,  \* the hooks whose user code may raise
  Interruptible  \* whether a callable may raise something not an Exception

Hook == {"on_workflow_start", "on_task_start", "on_task_success",
         "on_task_failure", "on_task_retry", "on_workflow_end"}

ASSUME TaskAssumption ==
  /\ Task # {} /\ Task \subseteq Nat \ {0} /\ IsFiniteSet(Task)
ASSUME GraphAssumption == Upstream \in [Task -> SUBSET Task]
ASSUME BatchAssumption ==
  /\ Batch \in [Task -> Nat]
  /\ \A t \in Task : \A u \in Upstream[t] : Batch[u] < Batch[t]
  /\ \A t \in Task : \A b \in 0 .. Batch[t] : \E u \in Task : Batch[u] = b
ASSUME ParameterAssumption ==
  /\ MaxAttempts \in [Task -> Nat \ {0}]
  /\ MaxWorkers \in Nat \ {0}
  /\ RaisingHooks \subseteq Hook
  /\ Interruptible \in BOOLEAN

None == 0

Downstream(u) == {d \in Task : u \in Upstream[d]}

(***************************************************************************)
(* The transitive dependents of a: the least set that contains the direct  *)
(* ones and those of its own members.                                      *)
(***************************************************************************)
Descendants ==
  [a \in Task |->
     {d \in Task : \A S \in SUBSET Task :
        Downstream(a) \cup UNION {Downstream(s) : s \in S} \subseteq S
          => d \in S}]
-----------------------------------------------------------------------------
VARIABLES
  pc,        \* where run() is: created, dispatch, waiting, finalize, or over
  batch,     \* the batch being dispatched or waited for
  wfState,   \* run.workflow_state
  state,     \* run.records[t].state, or "absent" while t has no record
  attempts,  \* run.records[t].attempts
  error,     \* run.records[t].error: None, t itself (its own exception), or
             \* the task that the "upstream task '...' failed" message names
  phase,     \* where the thread executing t is
  lock,      \* the engine's lock: the task whose thread holds it, or None
  target,    \* the task the holder of the lock is marking in its walk
  culprit,   \* local failed_task_id of the walk of t's thread
  todo,      \* local pending_visit of that walk
  visited,   \* local visited of that walk
  detached   \* tasks whose thread holds a record run.records has lost

walk == <<lock, target, culprit, todo, visited>>
vars == <<pc, batch, wfState, state, attempts, error, phase, lock, target,
          culprit, todo, visited, detached>>

Phase ==
  {"idle", "queued", "creating", "fetching", "scanning", "walking",
   "putting", "marking", "admit", "starting", "calling", "failing",
   "backoff", "done", "raised"}

Members == {t \in Task : Batch[t] = batch}
Over    == {"done", "raised"}
Busy    == {t \in Task : phase[t] \notin {"idle", "queued"} \cup Over}
Workers == IF MaxWorkers < Cardinality(Members)
             THEN MaxWorkers ELSE Cardinality(Members)

(***************************************************************************)
(* Where a thread may be after calling hook h on its way to next.          *)
(***************************************************************************)
AfterHook(h, next) ==
  {next} \cup (IF h \in RaisingHooks THEN {"raised"} ELSE {})

(***************************************************************************)
(* The fields of WorkflowRun and TaskRunRecord hold values of their        *)
(* declared types, attempts are never negative, and threads and walks name *)
(* tasks of the workflow.                                                  *)
(***************************************************************************)
TypeOK ==
  /\ pc \in {"created", "dispatch", "waiting", "finalize", "ended", "raised"}
  /\ batch \in Nat
  /\ wfState \in WorkflowState
  /\ state \in [Task -> TaskState \cup {"absent"}]
  /\ attempts \in [Task -> Nat]
  /\ error \in [Task -> Task \cup {None}]
  /\ phase \in [Task -> Phase]
  /\ lock \in Task \cup {None}
  /\ target \in Task \cup {None}
  /\ culprit \in [Task -> Task \cup {None}]
  /\ todo \in [Task -> SUBSET Task]
  /\ visited \in [Task -> SUBSET Task]
  /\ detached \in SUBSET Task

Init ==
  /\ pc = "created"
  /\ batch = 0
  /\ wfState = "pending"
  /\ state = [t \in Task |-> "absent"]
  /\ attempts = [t \in Task |-> 0]
  /\ error = [t \in Task |-> None]
  /\ phase = [t \in Task |-> "idle"]
  /\ lock = None
  /\ target = None
  /\ culprit = [t \in Task |-> None]
  /\ todo = [t \in Task |-> {}]
  /\ visited = [t \in Task |-> {}]
  /\ detached = {}
-----------------------------------------------------------------------------
(***************************************************************************)
(* The thread that called run().                                           *)
(***************************************************************************)
StartRun ==
  /\ pc = "created"
  /\ can_transition_workflow(wfState, "running")
  /\ wfState' = "running"
  /\ \E p \in AfterHook("on_workflow_start", "dispatch") : pc' = p
  /\ UNCHANGED <<batch, state, attempts, error, phase, walk, detached>>

(***************************************************************************)
(* Every task of the batch is handed to the pool (or called in place when  *)
(* it is the only one, which is a pool of one).                            *)
(***************************************************************************)
Dispatch ==
  /\ pc = "dispatch"
  /\ pc' = "waiting"
  /\ phase' = [t \in Task |-> IF t \in Members THEN "queued" ELSE phase[t]]
  /\ UNCHANGED <<batch, wfState, state, attempts, error, walk, detached>>

(***************************************************************************)
(* Two wrong joins: one waits for the first future only, one lets an       *)
(* exception out before the other threads are done.                        *)
(***************************************************************************)
JoinFirst ==
  /\ pc = "waiting"
  /\ \E t \in Members : phase[t] \in Over
  /\ pc' = IF \E t \in Task : Batch[t] = batch + 1 THEN "dispatch" ELSE "finalize"
  /\ batch' = IF pc' = "dispatch" THEN batch + 1 ELSE batch
  /\ UNCHANGED <<wfState, state, attempts, error, phase, walk, detached>>

JoinWithoutDrain ==
  /\ pc = "waiting"
  /\ \E t \in Members : phase[t] = "raised"
  /\ pc' = "raised"
  /\ UNCHANGED <<batch, wfState, state, attempts, error, phase, walk, detached>>

(***************************************************************************)
(* The pool is drained before an exception leaves the with block; the      *)
(* first exception then leaves run().                                      *)
(***************************************************************************)
Join ==
  /\ pc = "waiting"
  /\ \A t \in Members : phase[t] \in Over
  /\ LET more == \E t \in Task : Batch[t] = batch + 1 IN
     /\ pc' = IF \E t \in Members : phase[t] = "raised" THEN "raised"
              ELSE IF more THEN "dispatch" ELSE "finalize"
     /\ batch' = IF pc' = "dispatch" THEN batch + 1 ELSE batch
  /\ UNCHANGED <<wfState, state, attempts, error, phase, walk, detached>>

Recorded == {t \in Task : state[t] # "absent"}
FinalState == aggregate_workflow_state({state[t] : t \in Recorded})

Finalize ==
  /\ pc = "finalize"
  /\ IF FinalState # "none" /\ can_transition_workflow(wfState, FinalState)
       THEN /\ wfState' = FinalState
            /\ \E p \in AfterHook("on_workflow_end", "ended") : pc' = p
       ELSE /\ pc' = "raised"
            /\ UNCHANGED wfState
  /\ UNCHANGED <<batch, state, attempts, error, phase, walk, detached>>

Main == StartRun \/ Dispatch \/ Join \/ Finalize
-----------------------------------------------------------------------------
(***************************************************************************)
(* _execute_task, on the thread of task t.                                 *)
(***************************************************************************)
Goto(t, p) == phase' = [phase EXCEPT ![t] = p]

(***************************************************************************)
(* A free worker takes the oldest submission and looks its record up.      *)
(***************************************************************************)
Enter(t) ==
  /\ phase[t] = "queued"
  /\ \A u \in Task : phase[u] = "queued" => t <= u
  /\ Cardinality(Busy) < Workers
  /\ Goto(t, IF state[t] = "absent" THEN "creating" ELSE "fetching")
  /\ UNCHANGED <<pc, batch, wfState, state, attempts, error, walk, detached>>

(***************************************************************************)
(* A record found absent is inserted without the lock, over any record     *)
(* that a walk has inserted since.                                         *)
(***************************************************************************)
Insert(t) ==
  /\ phase[t] = "creating"
  /\ state' = [state EXCEPT ![t] = "pending"]
  /\ attempts' = [attempts EXCEPT ![t] = 0]
  /\ error' = [error EXCEPT ![t] = None]
  /\ Goto(t, "fetching")
  /\ UNCHANGED <<pc, batch, wfState, walk, detached>>

Fetch(t) ==
  /\ phase[t] = "fetching"
  /\ Goto(t, IF state[t] = "pending" THEN "scanning" ELSE "done")
  /\ UNCHANGED <<pc, batch, wfState, state, attempts, error, walk, detached>>

(***************************************************************************)
(* Wrong: the loop returns after its first iteration.                      *)
(***************************************************************************)
FirstUpstreamFailed(t) ==
  {u \in Upstream[t] : /\ state[u] \in FAILURE_STATES
                      /\ \A v \in Upstream[t] : u <= v}

FailedUpstream(t) == {u \in Upstream[t] : state[u] \in FAILURE_STATES}

(***************************************************************************)
(* Upstream ids come out of a frozenset, so any failed one may be the      *)
(* first.                                                                  *)
(***************************************************************************)
ScanFindsFailure(t) ==
  /\ phase[t] = "scanning"
  /\ \E u \in FailedUpstream(t) :
       /\ culprit' = [culprit EXCEPT ![t] = u]
       /\ todo' = [todo EXCEPT ![t] = Downstream(u)]
  /\ Goto(t, "walking")
  /\ UNCHANGED <<pc, batch, wfState, state, attempts, error, lock, target,
                 visited, detached>>

ScanClean(t) ==
  /\ phase[t] = "scanning"
  /\ FailedUpstream(t) = {}
  /\ Goto(t, "admit")
  /\ UNCHANGED <<pc, batch, wfState, state, attempts, error, walk, detached>>
-----------------------------------------------------------------------------
(***************************************************************************)
(* Wrong: a visit that does not take the lock before it looks.             *)
(***************************************************************************)
LookUnlocked(t, d) ==
  /\ phase[t] = "walking"
  /\ d \in todo[t]
  /\ lock' = t
  /\ target' = d
  /\ Goto(t, IF state[d] = "absent" THEN "putting" ELSE "marking")
  /\ UNCHANGED <<pc, batch, wfState, state, attempts, error, culprit, todo,
                 visited, detached>>

(***************************************************************************)
(* _block_downstream.  The breadth-first order is abstracted: the next     *)
(* task may be any that waits to be visited.  A visit takes the lock and   *)
(* looks the record up (Look), inserts it if it was absent (Put), and      *)
(* marks it if it is pending (Mark).  A record overwritten between its     *)
(* lookup and its mark behaves as if overwritten right after the mark.     *)
(***************************************************************************)
Look(t, d) ==
  /\ phase[t] = "walking"
  /\ d \in todo[t]
  /\ lock = None
  /\ lock' = t
  /\ target' = d
  /\ Goto(t, IF state[d] = "absent" THEN "putting" ELSE "marking")
  /\ UNCHANGED <<pc, batch, wfState, state, attempts, error, culprit, todo,
                 visited, detached>>

Put(t) ==
  /\ phase[t] = "putting"
  /\ state' = [state EXCEPT ![target] = "pending"]
  /\ attempts' = [attempts EXCEPT ![target] = 0]
  /\ error' = [error EXCEPT ![target] = None]
  /\ detached' = IF target \in Busy /\ phase[target] \notin {"creating", "fetching"}
                   THEN detached \cup {target} ELSE detached
  /\ Goto(t, "marking")
  /\ UNCHANGED <<pc, batch, wfState, walk>>

(***************************************************************************)
(* Wrong: only the direct dependents are marked.                           *)
(***************************************************************************)
MarkDirect(t) ==
  /\ phase[t] = "marking"
  /\ IF state[target] = "pending"
       THEN /\ state' = [state EXCEPT ![target] = "upstream_failed"]
            /\ error' = [error EXCEPT ![target] = culprit[t]]
       ELSE UNCHANGED <<state, error>>
  /\ visited' = [visited EXCEPT ![t] = @ \cup {target}]
  /\ todo' = [todo EXCEPT ![t] = @ \ visited'[t]]
  /\ lock' = None
  /\ target' = None
  /\ Goto(t, "walking")
  /\ UNCHANGED <<pc, batch, wfState, attempts, culprit, detached>>

Mark(t) ==
  /\ phase[t] = "marking"
  /\ IF state[target] = "pending"
       THEN /\ state' = [state EXCEPT ![target] = "upstream_failed"]
            /\ error' = [error EXCEPT ![target] = culprit[t]]
       ELSE UNCHANGED <<state, error>>
  /\ visited' = [visited EXCEPT ![t] = @ \cup {target}]
  /\ todo' = [todo EXCEPT ![t] = (@ \cup Downstream(target)) \ visited'[t]]
  /\ lock' = None
  /\ target' = None
  /\ Goto(t, "walking")
  /\ UNCHANGED <<pc, batch, wfState, attempts, culprit, detached>>

WalkDone(t) ==
  /\ phase[t] = "walking"
  /\ todo[t] = {}
  /\ culprit' = [culprit EXCEPT ![t] = None]
  /\ visited' = [visited EXCEPT ![t] = {}]
  /\ Goto(t, "admit")
  /\ UNCHANGED <<pc, batch, wfState, state, attempts, error, lock, target,
                 todo, detached>>
-----------------------------------------------------------------------------
(***************************************************************************)
(* Two wrong admissions: one keeps the record of the first lookup, one     *)
(* does not look at its state again.                                       *)
(***************************************************************************)
AdmitStale(t) ==
  /\ phase[t] = "admit"
  /\ Goto(t, IF t \in detached \/ state[t] = "pending" THEN "starting" ELSE "done")
  /\ UNCHANGED <<pc, batch, wfState, state, attempts, error, walk, detached>>

AdmitAny(t) ==
  /\ phase[t] = "admit"
  /\ detached' = detached \ {t}
  /\ Goto(t, "starting")
  /\ UNCHANGED <<pc, batch, wfState, state, attempts, error, walk>>

(***************************************************************************)
(* The record is looked up again, and decides whether the task may run.    *)
(* The transition check that follows reads the state just read.            *)
(***************************************************************************)
Admit(t) ==
  /\ phase[t] = "admit"
  /\ detached' = detached \ {t}
  /\ Goto(t, IF state[t] = "pending" THEN "starting" ELSE "done")
  /\ UNCHANGED <<pc, batch, wfState, state, attempts, error, walk>>

(***************************************************************************)
(* Wrong: the attempt is not counted.                                      *)
(***************************************************************************)
BeginUncounted(t) ==
  /\ phase[t] = "starting"
  /\ lock = None
  /\ state' = [state EXCEPT ![t] = "running"]
  /\ \E p \in AfterHook("on_task_start", "calling") : Goto(t, p)
  /\ UNCHANGED <<pc, batch, wfState, attempts, error, walk, detached>>

(***************************************************************************)
(* The state was checked before the lock was taken and is not read again.  *)
(***************************************************************************)
BeginAttempt(t) ==
  /\ phase[t] = "starting"
  /\ lock = None
  /\ state' = [state EXCEPT ![t] = "running"]
  /\ attempts' = [attempts EXCEPT ![t] = @ + 1]
  /\ \E p \in AfterHook("on_task_start", "calling") : Goto(t, p)
  /\ UNCHANGED <<pc, batch, wfState, error, walk, detached>>

(***************************************************************************)
(* transition_task, then the write under the lock.                         *)
(***************************************************************************)
Move(t, to, next) ==
  /\ lock = None
  /\ IF can_transition(state[t], to)
       THEN /\ state' = [state EXCEPT ![t] = to]
            /\ \E p \in next : Goto(t, p)
       ELSE /\ Goto(t, "raised")
            /\ UNCHANGED state

CallSucceeds(t) ==
  /\ phase[t] = "calling"
  /\ Move(t, "success", AfterHook("on_task_success", "done"))
  /\ UNCHANGED <<pc, batch, wfState, attempts, error, walk, detached>>

CallFails(t) ==
  /\ phase[t] = "calling"
  /\ Move(t, "failed", {"failing"})
  /\ error' = [error EXCEPT ![t] = IF can_transition(state[t], "failed") THEN t ELSE @]
  /\ UNCHANGED <<pc, batch, wfState, attempts, walk, detached>>

(***************************************************************************)
(* Wrong: a BaseException is swallowed and the record left as it is.       *)
(***************************************************************************)
InterruptSwallowed(t) ==
  /\ Interruptible
  /\ phase[t] = "calling"
  /\ Goto(t, "done")
  /\ UNCHANGED <<pc, batch, wfState, state, attempts, error, walk, detached>>

(***************************************************************************)
(* A BaseException passes the handler: the record stays as it is.          *)
(***************************************************************************)
CallInterrupted(t) ==
  /\ Interruptible
  /\ phase[t] = "calling"
  /\ Goto(t, "raised")
  /\ UNCHANGED <<pc, batch, wfState, state, attempts, error, walk, detached>>

(***************************************************************************)
(* Wrong: the next attempt begins from the failed state.                   *)
(***************************************************************************)
RetryFromFailed(t) ==
  /\ phase[t] = "failing"
  /\ attempts[t] < MaxAttempts[t]
  /\ \E p \in AfterHook("on_task_retry", "starting") : Goto(t, p)
  /\ UNCHANGED <<pc, batch, wfState, state, attempts, error, walk, detached>>

Retry(t) ==
  /\ phase[t] = "failing"
  /\ attempts[t] < MaxAttempts[t]
  /\ Move(t, "retrying", AfterHook("on_task_retry", "backoff"))
  /\ UNCHANGED <<pc, batch, wfState, attempts, error, walk, detached>>

(***************************************************************************)
(* Backoff is over; the state is checked for the next attempt.             *)
(***************************************************************************)
Resume(t) ==
  /\ phase[t] = "backoff"
  /\ Goto(t, IF can_transition(state[t], "running") THEN "starting" ELSE "raised")
  /\ UNCHANGED <<pc, batch, wfState, state, attempts, error, walk, detached>>

(***************************************************************************)
(* A permanent failure is logged and told to the hook; the dependents'     *)
(* records are left for their own threads to block.                        *)
(***************************************************************************)
GiveUp(t) ==
  /\ phase[t] = "failing"
  /\ attempts[t] >= MaxAttempts[t]
  /\ lock = None
  /\ \E p \in AfterHook("on_task_failure", "done") : Goto(t, p)
  /\ UNCHANGED <<pc, batch, wfState, state, attempts, error, walk, detached>>

Thread(t) ==
  \/ Enter(t) \/ Insert(t) \/ Fetch(t)
  \/ ScanFindsFailure(t) \/ ScanClean(t)
  \/ (\E d \in Task : Look(t, d)) \/ Put(t) \/ Mark(t) \/ WalkDone(t)
  \/ Admit(t) \/ BeginAttempt(t)
  \/ CallSucceeds(t) \/ CallFails(t) \/ CallInterrupted(t)
  \/ Retry(t) \/ Resume(t) \/ GiveUp(t)

(***************************************************************************)
(* run() has returned or raised.                                           *)
(***************************************************************************)
Finished == pc \in {"ended", "raised"} /\ UNCHANGED vars

Next == Main \/ (\E t \in Task : Thread(t)) \/ Finished

Spec == Init /\ [][Next]_vars

(***************************************************************************)
(* Some thread that can take a step does: the operating system never stops *)
(* all of them, and user code returns.  Nothing more is assumed about      *)
(* which thread that is.                                                   *)
(***************************************************************************)
FairSpec == Spec /\ WF_vars(Next)
=============================================================================
