---------------------------- MODULE EngineProofs ----------------------------
(***************************************************************************)
(* Proofs that IInv is an invariant of the engine, for every workflow,     *)
(* number of workers and choice of raising hooks, and of the safety        *)
(* properties that follow from it; and that the engine implements the      *)
(* contract of a run: under the mapping of EngineProperties every step of  *)
(* a thread is a step of the contract or leaves it unchanged.  At the end, *)
(* what liveness needs beside fairness: a run takes finitely many steps,   *)
(* and somebody can take one until it is over.                             *)
(***************************************************************************)
EXTENDS EngineInvariant, FiniteSetTheorems, TLAPS

Graph == INSTANCE DagLemmas

USE DEF None

(***************************************************************************)
(* Well-typedness is preserved: a visited task is one of the walk's todo.  *)
(***************************************************************************)
LEMMA TypeOKStep == IInv /\ [Next]_vars => TypeOK'
<1> SUFFICES ASSUME IInv, [Next]_vars PROVE TypeOK'
  OBVIOUS
<1> USE TaskAssumption, GraphAssumption, BatchAssumption, ParameterAssumption
<1>t. TypeOK
  BY DEF IInv
<1>1. CASE StartRun
  BY <1>1, <1>t DEF StartRun, TypeOK, AfterHook, WorkflowState, walk
<1>2. CASE Dispatch
  BY <1>2, <1>t DEF Dispatch, TypeOK, Phase, walk
<1>3. CASE Join
  BY <1>3, <1>t DEF Join, TypeOK, walk
<1>4. CASE Finalize
  BY <1>4, <1>t DEF Finalize, TypeOK, AfterHook, FinalState, aggregate_workflow_state, WorkflowState, walk
<1>5. ASSUME NEW t \in Task, Enter(t) PROVE TypeOK'
  BY <1>5, <1>t DEF Enter, TypeOK, Goto, Phase, walk
<1>6. ASSUME NEW t \in Task, Insert(t) PROVE TypeOK'
  BY <1>6, <1>t DEF Insert, TypeOK, Goto, Phase, TaskState, walk
<1>7. ASSUME NEW t \in Task, Fetch(t) PROVE TypeOK'
  BY <1>7, <1>t DEF Fetch, TypeOK, Goto, Phase, walk
<1>8. ASSUME NEW t \in Task, ScanFindsFailure(t) PROVE TypeOK'
  BY <1>8, <1>t DEF ScanFindsFailure, FailedUpstream, Downstream, TypeOK, Goto, Phase, walk
<1>9. ASSUME NEW t \in Task, ScanClean(t) PROVE TypeOK'
  BY <1>9, <1>t DEF ScanClean, TypeOK, Goto, Phase, walk
<1>10. ASSUME NEW t \in Task, NEW d \in Task, Look(t, d) PROVE TypeOK'
  BY <1>10, <1>t DEF Look, TypeOK, Goto, Phase, walk
<1>11. ASSUME NEW t \in Task, Put(t) PROVE TypeOK'
  <2>1. target \in Task
    BY <1>11, <1>t DEF Put, IInv, LockedVisit, Visiting, TypeOK
  <2> QED
    BY <1>11, <1>t, <2>1 DEF Put, TypeOK, Goto, Phase, TaskState, walk
<1>12. ASSUME NEW t \in Task, Mark(t) PROVE TypeOK'
  <2>1. target \in Task
    BY <1>12, <1>t DEF Mark, IInv, LockedVisit, Visiting, TypeOK
  <2> QED
    BY <1>12, <1>t, <2>1 DEF Mark, TypeOK, Goto, Phase, TaskState, Downstream, walk
<1>13. ASSUME NEW t \in Task, WalkDone(t) PROVE TypeOK'
  BY <1>13, <1>t DEF WalkDone, TypeOK, Goto, Phase, walk
<1>14. ASSUME NEW t \in Task, Admit(t) PROVE TypeOK'
  BY <1>14, <1>t DEF Admit, TypeOK, Goto, Phase, walk
<1>15. ASSUME NEW t \in Task, BeginAttempt(t) PROVE TypeOK'
  BY <1>15, <1>t DEF BeginAttempt, TypeOK, Goto, Phase, TaskState, AfterHook, walk
<1>16. ASSUME NEW t \in Task, CallSucceeds(t) PROVE TypeOK'
  BY <1>16, <1>t DEF CallSucceeds, Move, TypeOK, Goto, Phase, TaskState, AfterHook, walk
<1>17. ASSUME NEW t \in Task, CallFails(t) PROVE TypeOK'
  BY <1>17, <1>t DEF CallFails, Move, TypeOK, Goto, Phase, TaskState, AfterHook, walk
<1>18. ASSUME NEW t \in Task, CallInterrupted(t) PROVE TypeOK'
  BY <1>18, <1>t DEF CallInterrupted, TypeOK, Goto, Phase, walk
<1>19. ASSUME NEW t \in Task, Retry(t) PROVE TypeOK'
  BY <1>19, <1>t DEF Retry, Move, TypeOK, Goto, Phase, TaskState, AfterHook, walk
<1>20. ASSUME NEW t \in Task, Resume(t) PROVE TypeOK'
  BY <1>20, <1>t DEF Resume, TypeOK, Goto, Phase, walk
<1>21. ASSUME NEW t \in Task, GiveUp(t) PROVE TypeOK'
  BY <1>21, <1>t DEF GiveUp, TypeOK, Goto, Phase, AfterHook, walk
<1>22. CASE UNCHANGED vars
  BY <1>22, <1>t DEF vars, TypeOK
<1> QED
  BY <1>1, <1>2, <1>3, <1>4, <1>5, <1>6, <1>7, <1>8, <1>9, <1>10, <1>11,
     <1>12, <1>13, <1>14, <1>15, <1>16, <1>17, <1>18, <1>19, <1>20, <1>21,
     <1>22 DEF Next, Main, Thread, Finished

(***************************************************************************)
(* The transitions an executing thread asks for are all legal.             *)
(***************************************************************************)
LEMMA ExecutionIsLegal ==
  /\ can_transition("running", "success")
  /\ can_transition("running", "failed")
  /\ can_transition("failed", "retrying")
  /\ can_transition("retrying", "running")
  BY DEF can_transition, TASK_TRANSITIONS

(***************************************************************************)
(* What a thread's step does to control: it moves its own task, of the     *)
(* current batch, on from where it was, and leaves run() alone.            *)
(***************************************************************************)
LEMMA ThreadMoves ==
  ASSUME IInv, NEW t \in Task, Thread(t)
  PROVE  /\ UNCHANGED <<pc, batch, wfState>>
         /\ phase[t] \notin {"idle"} \cup Over
         /\ pc = "waiting" /\ Batch[t] = batch
         /\ \E p \in Phase \ {"idle", "queued"} : phase' = [phase EXCEPT ![t] = p]
<1> USE TaskAssumption, GraphAssumption, BatchAssumption
<1>1. /\ UNCHANGED <<pc, batch, wfState>>
      /\ phase[t] \notin {"idle"} \cup Over
      /\ \E p \in Phase \ {"idle", "queued"} : phase' = [phase EXCEPT ![t] = p]
  BY DEF Thread, Enter, Insert, Fetch, ScanFindsFailure, ScanClean, Look, Put,
         Mark, WalkDone, Admit, BeginAttempt, CallSucceeds, CallFails,
         CallInterrupted, Retry, Resume, GiveUp, Move, Goto, AfterHook, Phase,
         Over, walk
<1>2. pc = "waiting" /\ Batch[t] = batch
  BY <1>1 DEF IInv, TypeOK, Pipeline, Over
<1> QED
  BY <1>1, <1>2

(***************************************************************************)
(* The batches stay in order: only Dispatch starts threads and only Join   *)
(* moves on, when none is left (engine.py 209-224).                        *)
(***************************************************************************)
LEMMA PipelineStep == IInv /\ [Next]_vars => Pipeline'
<1> SUFFICES ASSUME IInv, [Next]_vars PROVE Pipeline'
  OBVIOUS
<1> USE TaskAssumption, GraphAssumption, BatchAssumption
<1>t. TypeOK /\ Pipeline
  BY DEF IInv
<1>1. CASE StartRun
  BY <1>1, <1>t DEF StartRun, TypeOK, Pipeline, AfterHook, Over, Phase
<1>2. CASE Dispatch
  BY <1>2, <1>t DEF Dispatch, TypeOK, Pipeline, Members, Over, Phase
<1>3. CASE Join
  <2>1. \A t \in Task : Batch[t] <= batch => phase[t] \in Over
    BY <1>3, <1>t DEF Join, TypeOK, Pipeline, Members, Over
  <2>2. CASE pc' = "raised"
    BY <1>3, <1>t, <2>1, <2>2 DEF Join, TypeOK, Pipeline, Over
  <2>3. CASE pc' = "dispatch"
    BY <1>3, <1>t, <2>1, <2>3 DEF Join, TypeOK, Pipeline, Members, Over
  <2>4. CASE pc' = "finalize"
    <3>1. ~ \E t \in Task : Batch[t] = batch + 1
      BY <1>3, <2>4 DEF Join
    <3>2. \A t \in Task : Batch[t] <= batch
      BY <3>1, <1>t DEF TypeOK
    <3> QED
      BY <1>3, <1>t, <2>1, <2>4, <3>2 DEF Join, TypeOK, Pipeline, Members, Over
  <2> QED
    BY <1>3, <2>2, <2>3, <2>4 DEF Join
<1>4. CASE Finalize
  BY <1>4, <1>t DEF Finalize, TypeOK, Pipeline, AfterHook, Over, Phase
<1>5. ASSUME NEW t \in Task, Thread(t) PROVE Pipeline'
  BY <1>5, <1>t, ThreadMoves DEF TypeOK, Pipeline, Over
<1>6. CASE UNCHANGED vars
  BY <1>6, <1>t DEF vars, Pipeline
<1> QED
  BY <1>1, <1>2, <1>3, <1>4, <1>5, <1>6 DEF Next, Main, Finished

(***************************************************************************)
(* A task that a walk has visited or will visit has not been admitted:     *)
(* one of its dependencies did not succeed.                                *)
(***************************************************************************)
LEMMA DoomedIsNotAdmitted ==
  ASSUME IInv, NEW w \in Task, phase[w] \in Walking,
         NEW d \in todo[w] \cup visited[w]
  PROVE  /\ d \in Task
         /\ state[d] \in Fresh
         /\ ~ UpstreamDone(d)
         /\ attempts[d] = 0
         /\ phase[d] \notin Executing
<1> USE TaskAssumption, GraphAssumption
<1>1. d \in Task /\ state[d] \in Fresh
  BY DEF IInv, TypeOK, WalkIsDoomed, Doomed
<1>2. ~ UpstreamDone(d)
  <2>1. PICK u \in Upstream[d] : u \in visited[w] \/ u = culprit[w]
    BY DEF IInv, WalkIsDoomed, Doomed
  <2>2. state[u] # "success"
    BY <2>1 DEF IInv, WalkIsDoomed, Doomed, Exhausted, Fresh
  <2> QED
    BY <2>2 DEF UpstreamDone
<1> QED
  BY <1>1, <1>2 DEF IInv, Admitted, TypeOK

(***************************************************************************)
(* The state of a record keeps agreeing with where its thread is, since    *)
(* nobody else writes a record that has been started.                      *)
(***************************************************************************)
LEMMA StateFitsPhaseStep == IInv /\ [Next]_vars => StateFitsPhase'
<1> SUFFICES ASSUME IInv, [Next]_vars PROVE StateFitsPhase'
  OBVIOUS
<1> USE TaskAssumption, GraphAssumption, BatchAssumption, ParameterAssumption
<1>t. TypeOK /\ StateFitsPhase
  BY DEF IInv
<1> USE DEF Fresh, Over
<1>1. CASE StartRun
  BY <1>1, <1>t DEF StartRun, StateFitsPhase
<1>2. CASE Dispatch
  <2>1. \A t \in Members : phase[t] = "idle"
    BY <1>2 DEF Dispatch, Members, IInv, Pipeline
  <2>2. \A t \in Task : phase'[t] \in {phase[t], "queued"} /\ (phase'[t] # phase[t] => t \in Members)
    BY <1>2, <1>t DEF Dispatch, TypeOK
  <2> QED
    BY <1>2, <1>t, <2>1, <2>2 DEF Dispatch, StateFitsPhase, Fits, Members, Walking
<1>3. CASE Join
  BY <1>3, <1>t DEF Join, StateFitsPhase
<1>4. CASE Finalize
  BY <1>4, <1>t DEF Finalize, StateFitsPhase
<1>5. ASSUME NEW t \in Task, Enter(t) PROVE StateFitsPhase'
  BY <1>5, <1>t DEF Enter, StateFitsPhase, Fits, TypeOK, Goto, Walking
<1>6. ASSUME NEW t \in Task, Insert(t) PROVE StateFitsPhase'
  BY <1>6, <1>t DEF Insert, StateFitsPhase, Fits, TypeOK, Goto, Walking
<1>7. ASSUME NEW t \in Task, Fetch(t) PROVE StateFitsPhase'
  BY <1>7, <1>t DEF Fetch, StateFitsPhase, Fits, TypeOK, Goto, Walking
<1>8. ASSUME NEW t \in Task, ScanFindsFailure(t) PROVE StateFitsPhase'
  BY <1>8, <1>t DEF ScanFindsFailure, StateFitsPhase, Fits, TypeOK, Goto, Walking
<1>9. ASSUME NEW t \in Task, ScanClean(t) PROVE StateFitsPhase'
  BY <1>9, <1>t DEF ScanClean, StateFitsPhase, Fits, TypeOK, Goto, Walking
<1>10. ASSUME NEW t \in Task, NEW d \in Task, Look(t, d) PROVE StateFitsPhase'
  BY <1>10, <1>t DEF Look, StateFitsPhase, Fits, TypeOK, Goto, Walking
<1>11. ASSUME NEW t \in Task, Put(t) PROVE StateFitsPhase'
  <2>1. /\ phase[target] \in {"idle", "queued", "creating", "fetching",
                              "scanning", "walking"}
        /\ target \in Task
    BY <1>11 DEF Put, IInv, LockedVisit, Visiting, TypeOK
  <2> QED
    BY <1>11, <1>t, <2>1 DEF Put, StateFitsPhase, Fits, TypeOK, Goto, Walking
<1>12. ASSUME NEW t \in Task, Mark(t) PROVE StateFitsPhase'
  <2>1. target \in todo[t] /\ phase[t] \in Walking
    BY <1>12 DEF Mark, IInv, LockedVisit, Visiting, Walking
  <2>2. target \in Task /\ phase[target] \notin Executing /\ attempts[target] = 0
    BY <2>1, DoomedIsNotAdmitted
  <2> QED
    BY <1>12, <1>t, <2>2 DEF Mark, StateFitsPhase, Fits, TypeOK, Goto, Walking, Executing, Phase
<1>13. ASSUME NEW t \in Task, WalkDone(t) PROVE StateFitsPhase'
  BY <1>13, <1>t DEF WalkDone, StateFitsPhase, Fits, TypeOK, Goto, Walking
<1>14. ASSUME NEW t \in Task, Admit(t) PROVE StateFitsPhase'
  BY <1>14, <1>t DEF Admit, StateFitsPhase, Fits, TypeOK, Goto, Walking
<1>15. ASSUME NEW t \in Task, BeginAttempt(t) PROVE StateFitsPhase'
  BY <1>15, <1>t DEF BeginAttempt, StateFitsPhase, Fits, TypeOK, Goto, AfterHook, Walking
<1>16. ASSUME NEW t \in Task, CallSucceeds(t) PROVE StateFitsPhase'
  BY <1>16, <1>t, ExecutionIsLegal DEF CallSucceeds, Move, StateFitsPhase, Fits, TypeOK, Goto, AfterHook, Walking
<1>17. ASSUME NEW t \in Task, CallFails(t) PROVE StateFitsPhase'
  BY <1>17, <1>t, ExecutionIsLegal DEF CallFails, Move, StateFitsPhase, Fits, TypeOK, Goto, Walking
<1>18. ASSUME NEW t \in Task, CallInterrupted(t) PROVE StateFitsPhase'
  BY <1>18, <1>t DEF CallInterrupted, StateFitsPhase, Fits, TypeOK, Goto, Walking
<1>19. ASSUME NEW t \in Task, Retry(t) PROVE StateFitsPhase'
  BY <1>19, <1>t, ExecutionIsLegal DEF Retry, Move, StateFitsPhase, Fits, TypeOK, Goto, AfterHook, Walking
<1>20. ASSUME NEW t \in Task, Resume(t) PROVE StateFitsPhase'
  BY <1>20, <1>t, ExecutionIsLegal DEF Resume, StateFitsPhase, Fits, TypeOK, Goto, Walking
<1>21. ASSUME NEW t \in Task, GiveUp(t) PROVE StateFitsPhase'
  BY <1>21, <1>t DEF GiveUp, StateFitsPhase, Fits, TypeOK, Goto, AfterHook, Walking
<1>22. CASE UNCHANGED vars
  BY <1>22, <1>t DEF vars, StateFitsPhase
<1> QED
  BY <1>1, <1>2, <1>3, <1>4, <1>5, <1>6, <1>7, <1>8, <1>9, <1>10, <1>11,
     <1>12, <1>13, <1>14, <1>15, <1>16, <1>17, <1>18, <1>19, <1>20, <1>21,
     <1>22 DEF Next, Main, Thread, Finished

(***************************************************************************)
(* Apart from the visits of a walk, a thread touches only its own record.  *)
(***************************************************************************)
LEMMA OwnRecordOnly ==
  ASSUME IInv, NEW t \in Task, Thread(t), ~ Put(t), ~ Mark(t),
         NEW u \in Task, u # t
  PROVE  UNCHANGED <<state[u], attempts[u], error[u]>>
  BY DEF IInv, TypeOK, Thread, Enter, Insert, Fetch, ScanFindsFailure,
         ScanClean, Look, WalkDone, Admit, BeginAttempt, CallSucceeds,
         CallFails, CallInterrupted, Retry, Resume, GiveUp, Move

(***************************************************************************)
(* A task whose thread is over keeps its record for good.                  *)
(***************************************************************************)
LEMMA OverIsStable ==
  ASSUME IInv, [Next]_vars, NEW u \in Task, phase[u] \in Over
  PROVE  UNCHANGED <<phase[u], state[u], attempts[u], error[u]>>
<1>t. TypeOK /\ StateFitsPhase
  BY DEF IInv
<1>1. CASE Main
  BY <1>1, <1>t DEF Main, StartRun, Dispatch, Join, Finalize, IInv, Pipeline,
                    Members, Over, TypeOK
<1>2. ASSUME NEW t \in Task, Thread(t)
      PROVE  UNCHANGED <<phase[u], state[u], attempts[u], error[u]>>
  <2>1. u # t
    BY <1>2, ThreadMoves
  <2>2. UNCHANGED phase[u]
    BY <1>2, <2>1, <1>t, ThreadMoves DEF TypeOK
  <2>3. CASE Put(t)
    <3>1. target # u
      BY <2>3 DEF Put, IInv, LockedVisit, Over
    <3> QED
      BY <2>2, <2>3, <3>1, <1>t DEF Put, TypeOK
  <2>4. CASE Mark(t)
    <3>1. state[u] # "pending"
      BY <1>t DEF StateFitsPhase, Fits, Over
    <3> QED
      BY <2>2, <2>4, <3>1, <1>t DEF Mark, TypeOK
  <2> QED
    BY <1>2, <2>1, <2>2, <2>3, <2>4, OwnRecordOnly
<1>3. CASE UNCHANGED vars
  BY <1>3 DEF vars
<1> QED
  BY <1>1, <1>2, <1>3 DEF Next, Finished

(***************************************************************************)
(* A task that has succeeded stays so: its thread is over.                 *)
(***************************************************************************)
LEMMA SuccessIsStable ==
  ASSUME IInv, [Next]_vars, NEW u \in Task, state[u] = "success"
  PROVE  state'[u] = "success"
<1>1. phase[u] \in Over
  BY DEF IInv, TypeOK, StateFitsPhase, Fits, Fresh, Walking, Phase, Over
<1> QED
  BY <1>1, OverIsStable

(***************************************************************************)
(* When a thread is at work, those of all its dependencies are done.       *)
(***************************************************************************)
LEMMA UpstreamIsDone ==
  ASSUME IInv, NEW t \in Task, NEW u \in Upstream[t], phase[t] # "idle"
  PROVE  u \in Task /\ phase[u] = "done"
<1>1. u \in Task /\ Batch[u] < Batch[t] /\ Batch[t] \in Nat /\ Batch[u] \in Nat
  BY GraphAssumption, BatchAssumption
<1>2. Batch[t] <= batch
  BY <1>1 DEF IInv, TypeOK, Pipeline
<1> QED
  BY <1>1, <1>2 DEF IInv, TypeOK, Pipeline

(***************************************************************************)
(* A scan that finds no failure has seen only successes.                   *)
(***************************************************************************)
LEMMA CleanScan ==
  ASSUME IInv, NEW t \in Task, ScanClean(t)
  PROVE  UpstreamDone(t)
<1>1. \A u \in Upstream[t] : phase[u] = "done" /\ u \in Task
  BY UpstreamIsDone DEF ScanClean
<1> QED
  BY <1>1 DEF ScanClean, FailedUpstream, FAILURE_STATES, UpstreamDone, IInv,
              StateFitsPhase, Fits

(***************************************************************************)
(* Nobody is admitted before its dependencies have succeeded: the scan     *)
(* finds every one that has not, and blocks the task (449-456, 284-288).   *)
(***************************************************************************)
LEMMA AdmittedStep == IInv /\ [Next]_vars => Admitted'
<1> SUFFICES ASSUME IInv, [Next]_vars PROVE Admitted'
  OBVIOUS
<1> USE TaskAssumption, GraphAssumption, BatchAssumption
<1>t. TypeOK /\ StateFitsPhase /\ Admitted
  BY DEF IInv
<1>s. \A t \in Task : UpstreamDone(t) => UpstreamDone(t)'
  BY SuccessIsStable DEF UpstreamDone
<1> USE DEF Executing
<1>1. CASE Main
  <2>1. UNCHANGED <<state, attempts>>
    BY <1>1 DEF Main, StartRun, Dispatch, Join, Finalize
  <2>2. \A t \in Task : phase'[t] \in {phase[t], "queued"}
    BY <1>1, <1>t DEF Main, StartRun, Dispatch, Join, Finalize, TypeOK
  <2> QED
    BY <2>1, <2>2, <1>s, <1>t DEF Admitted
<1>2. ASSUME NEW t \in Task, Put(t) PROVE Admitted'
  <2>1. target \in Task /\ phase[target] \notin Executing \cup {"admit"} /\ target # t
    BY <1>2 DEF Put, IInv, LockedVisit, Visiting, TypeOK
  <2> QED
    BY <1>2, <2>1, <1>s, <1>t DEF Put, Admitted, TypeOK, Goto
<1>3. ASSUME NEW t \in Task, Mark(t) PROVE Admitted'
  <2>1. target \in Task
    BY <1>3 DEF Mark, IInv, LockedVisit, Visiting, TypeOK
  <2> QED
    BY <1>3, <2>1, <1>s, <1>t DEF Mark, Admitted, TypeOK, Goto
<1>4. ASSUME NEW t \in Task, Thread(t), ~ Put(t), ~ Mark(t) PROVE Admitted'
  <2>1. \A v \in Task : v # t => UNCHANGED <<phase[v], state[v], attempts[v]>>
    BY <1>4, <1>t, OwnRecordOnly, ThreadMoves DEF TypeOK
  <2>2. CASE ScanClean(t)
    <3>1. UpstreamDone(t)
      BY <2>2, CleanScan
    <3> QED
      BY <2>1, <2>2, <3>1, <1>s, <1>t DEF ScanClean, Admitted, TypeOK, Goto
  <2>3. CASE WalkDone(t)
    <3>1. state[t] = "upstream_failed"
      BY <2>3 DEF WalkDone, IInv, WalkIsDoomed, Walking
    <3> QED
      BY <2>1, <2>3, <3>1, <1>s, <1>t DEF WalkDone, Admitted, TypeOK, Goto
  <2>4. CASE Admit(t)
    BY <2>1, <2>4, <1>s, <1>t DEF Admit, Admitted, TypeOK, Goto
  <2>5. CASE ~ ScanClean(t) /\ ~ WalkDone(t) /\ ~ Admit(t)
    <3>1. /\ phase'[t] # "admit"
          /\ phase'[t] \in Executing => phase[t] \in Executing
          /\ attempts'[t] > 0 => attempts[t] > 0 \/ phase[t] \in Executing
      BY <1>4, <2>5, <1>t DEF Thread, Enter, Insert, Fetch, ScanFindsFailure,
           Look, BeginAttempt, CallSucceeds, CallFails, CallInterrupted, Retry,
           Resume, GiveUp, Move, Goto, AfterHook, TypeOK
    <3> QED
      BY <2>1, <3>1, <1>s, <1>t DEF Admitted
  <2> QED
    BY <2>2, <2>3, <2>4, <2>5
<1>5. CASE UNCHANGED vars
  BY <1>5, <1>t DEF vars, Admitted, UpstreamDone
<1> QED
  BY <1>1, <1>2, <1>3, <1>4, <1>5 DEF Next, Finished

(***************************************************************************)
(* A doomed task stays unexecuted, and keeps a record once it has one.     *)
(***************************************************************************)
LEMMA DoomedStaysFresh ==
  ASSUME IInv, [Next]_vars, NEW w \in Task, phase[w] \in Walking,
         NEW d \in todo[w] \cup visited[w]
  PROVE  /\ state'[d] \in Fresh
         /\ state[d] # "absent" => state'[d] # "absent"
<1>t. TypeOK
  BY DEF IInv
<1>d. d \in Task /\ state[d] \in Fresh /\ phase[d] \notin Executing
  BY DoomedIsNotAdmitted
<1>1. CASE Main
  BY <1>1, <1>d DEF Main, StartRun, Dispatch, Join, Finalize
<1>2. ASSUME NEW t \in Task, Thread(t)
      PROVE  state'[d] \in Fresh /\ (state[d] # "absent" => state'[d] # "absent")
  BY <1>2, <1>t, <1>d DEF Thread, Enter, Insert, Fetch, ScanFindsFailure,
     ScanClean, Look, Put, Mark, WalkDone, Admit, BeginAttempt, CallSucceeds,
     CallFails, CallInterrupted, Retry, Resume, GiveUp, Move, TypeOK, Fresh,
     Executing
<1>3. CASE UNCHANGED vars
  BY <1>3, <1>d DEF vars
<1> QED
  BY <1>1, <1>2, <1>3 DEF Next, Finished

(***************************************************************************)
(* A thread moves no other thread, and no walk but its own.                *)
(***************************************************************************)
LEMMA OwnWalkOnly ==
  ASSUME IInv, NEW t \in Task, Thread(t), NEW w \in Task, w # t
  PROVE  UNCHANGED <<phase[w], culprit[w], todo[w], visited[w]>>
<1>1. UNCHANGED phase[w]
  BY ThreadMoves DEF IInv, TypeOK
<1> QED
  BY <1>1 DEF IInv, TypeOK, Thread, Enter, Insert, Fetch, ScanFindsFailure,
     ScanClean, Look, Put, Mark, WalkDone, Admit, BeginAttempt, CallSucceeds,
     CallFails, CallInterrupted, Retry, Resume, GiveUp, Move, walk

(***************************************************************************)
(* A task that its own walk has blocked is not reset while the walk lasts. *)
(***************************************************************************)
LEMMA WalkerStaysBlocked ==
  ASSUME IInv, [Next]_vars, NEW w \in Task, phase[w] \in Walking,
         state[w] = "upstream_failed"
  PROVE  state'[w] = "upstream_failed"
<1>t. TypeOK
  BY DEF IInv
<1>1. CASE Main
  BY <1>1 DEF Main, StartRun, Dispatch, Join, Finalize
<1>2. ASSUME NEW t \in Task, Thread(t) PROVE state'[w] = "upstream_failed"
  <2>1. CASE Put(t)
    <3>1. target # w
      BY <2>1 DEF Put, IInv, LockedVisit
    <3> QED
      BY <2>1, <3>1, <1>t DEF Put, TypeOK
  <2>2. CASE Mark(t)
    BY <2>2, <1>t DEF Mark, TypeOK
  <2>3. CASE t # w /\ ~ Put(t) /\ ~ Mark(t)
    BY <1>2, <2>3, OwnRecordOnly
  <2>4. CASE t = w /\ ~ Put(t) /\ ~ Mark(t)
    BY <1>2, <2>4, <1>t DEF Thread, Enter, Insert, Fetch, ScanFindsFailure,
       ScanClean, Look, WalkDone, Admit, BeginAttempt, CallSucceeds,
       CallFails, CallInterrupted, Retry, Resume, GiveUp, Walking
  <2> QED
    BY <2>1, <2>2, <2>3, <2>4
<1>3. CASE UNCHANGED vars
  BY <1>3 DEF vars
<1> QED
  BY <1>1, <1>2, <1>3 DEF Next, Finished

(***************************************************************************)
(* The dependents of a task are among its descendants, and so are the      *)
(* dependents of its descendants.                                          *)
(***************************************************************************)
LEMMA DescendantsClosed ==
  ASSUME NEW a \in Task
  PROVE  /\ Downstream(a) \subseteq Descendants[a]
         /\ \A d \in Descendants[a] : Downstream(d) \subseteq Descendants[a]
         /\ Descendants[a] \subseteq Task
<1> DEFINE Closed(S) == Downstream(a) \cup UNION {Downstream(s) : s \in S} \subseteq S
<1>1. Descendants[a] = {d \in Task : \A S \in SUBSET Task : Closed(S) => d \in S}
  BY DEF Descendants
<1>2. \A d : Downstream(d) \subseteq Task
  BY DEF Downstream
<1>3. Downstream(a) \subseteq Descendants[a]
  BY <1>1, <1>2
<1>4. ASSUME NEW d \in Descendants[a], NEW x \in Downstream(d)
      PROVE  x \in Descendants[a]
  <2>1. ASSUME NEW S \in SUBSET Task, Closed(S) PROVE x \in S
    <3>1. d \in S
      BY <1>1, <2>1
    <3> QED
      BY <3>1, <2>1, <1>4
  <2> QED
    BY <1>1, <1>2, <1>4, <2>1
<1> QED
  BY <1>1, <1>3, <1>4

(***************************************************************************)
(* A walk keeps to tasks that cannot start, below a failure that cannot be *)
(* retried (413-438).                                                      *)
(***************************************************************************)
LEMMA WalkIsDoomedStep == IInv /\ [Next]_vars => WalkIsDoomed'
<1> SUFFICES ASSUME IInv, [Next]_vars, NEW w \in Task
             PROVE  /\ phase'[w] \in Walking =>
                         /\ culprit'[w] \in Upstream[w]
                         /\ Exhausted(culprit[w])' /\ phase'[culprit'[w]] = "done"
                         /\ w \in todo'[w] \cup visited'[w]
                         /\ w \in visited'[w] => state'[w] = "upstream_failed"
                         /\ \A d \in todo'[w] \cup visited'[w] : Doomed(w, d)'
                         /\ \A d \in visited'[w] : state'[d] # "absent"
                    /\ phase'[w] \notin Walking => todo'[w] = {} /\ visited'[w] = {}
  BY DEF WalkIsDoomed
<1> USE TaskAssumption, GraphAssumption, BatchAssumption
<1> DEFINE WalkAsBefore == /\ UNCHANGED <<culprit[w], todo[w], visited[w]>>
                           /\ phase[w] \in Walking <=> phase'[w] \in Walking
<1>t. TypeOK /\ WalkIsDoomed /\ StateFitsPhase
  BY DEF IInv
<1>1. CASE WalkAsBefore
  <2>1. CASE phase[w] \notin Walking
    BY <1>1, <2>1, <1>t DEF WalkIsDoomed
  <2>2. CASE phase[w] \in Walking
    <3>1. culprit[w] \in Task /\ Exhausted(culprit[w]) /\ phase[culprit[w]] = "done"
      BY <2>2, <1>t DEF WalkIsDoomed
    <3>2. Exhausted(culprit[w])' /\ phase'[culprit'[w]] = "done"
      BY <1>1, <3>1, OverIsStable DEF Over, Exhausted
    <3>3. \A d \in todo'[w] \cup visited'[w] : Doomed(w, d)'
      BY <1>1, <2>2, <1>t, DoomedStaysFresh DEF WalkIsDoomed, Doomed
    <3>4. \A d \in visited'[w] : state'[d] # "absent"
      BY <1>1, <2>2, <1>t, DoomedStaysFresh DEF WalkIsDoomed
    <3>5. w \in visited'[w] => state'[w] = "upstream_failed"
      BY <1>1, <2>2, <1>t, WalkerStaysBlocked DEF WalkIsDoomed
    <3> QED
      BY <1>1, <2>2, <3>2, <3>3, <3>4, <3>5, <1>t DEF WalkIsDoomed
  <2> QED
    BY <2>1, <2>2
<1>2. CASE Main
  <2>1. \/ phase'[w] = phase[w]
        \/ phase[w] = "idle" /\ phase'[w] = "queued"
    BY <1>2, <1>t DEF Main, StartRun, Dispatch, Join, Finalize, Members, IInv,
                      Pipeline, TypeOK
  <2> QED
    BY <1>1, <1>2, <2>1 DEF Main, StartRun, Dispatch, Join, Finalize, walk, Walking
<1>3. CASE \E t \in Task : t # w /\ Thread(t)
  BY <1>1, <1>3, OwnWalkOnly
<1>4. CASE ScanFindsFailure(w)
  <2>1. PICK u \in FailedUpstream(w) :
          /\ culprit' = [culprit EXCEPT ![w] = u]
          /\ todo' = [todo EXCEPT ![w] = Downstream(u)]
    BY <1>4 DEF ScanFindsFailure
  <2>2. u \in Task /\ u \in Upstream[w] /\ phase[u] = "done" /\ state[u] \in FAILURE_STATES
    BY <1>4, UpstreamIsDone DEF ScanFindsFailure, FailedUpstream
  <2>3. state[u] # "upstream_failed"
    <3>1. Batch[u] < Batch[w]
      BY <2>2
    <3>2. Batch[w] = batch
      BY <1>4, ThreadMoves DEF Thread
    <3> QED
      BY <1>4, <2>2, <3>1, <3>2 DEF ScanFindsFailure, IInv, BlockedSpreads, Downstream
  <2>4. Exhausted(u)
    BY <2>2, <2>3, <1>t DEF FAILURE_STATES, Exhausted, StateFitsPhase, Fits, Over
  <2>5. \A d \in Downstream(u) : state[d] \in Fresh /\ d \in Descendants[u] /\ u \in Upstream[d]
    <3>1. \A d \in Downstream(u) : d \in Task /\ u \in Upstream[d] /\ ~ UpstreamDone(d)
      BY <2>4 DEF Downstream, UpstreamDone, Exhausted
    <3>2. ASSUME NEW d \in Downstream(u) PROVE attempts[d] = 0
      <4>1. attempts[d] \in Nat /\ (attempts[d] > 0 => UpstreamDone(d))
        BY <3>1 DEF IInv, Admitted, TypeOK
      <4> QED
        BY <3>1, <4>1
    <3> QED
      BY <3>1, <3>2, <2>2, <1>t, DescendantsClosed DEF StateFitsPhase, Fits
  <2>6. culprit'[w] = u /\ todo'[w] = Downstream(u) /\ visited'[w] = {} /\ u # w
    BY <1>4, <2>1, <2>2, <1>t DEF ScanFindsFailure, TypeOK, WalkIsDoomed, Walking
  <2>7. /\ phase'[w] = "walking" /\ phase'[u] = "done"
        /\ Exhausted(u)'
        /\ UNCHANGED state
    BY <1>4, <2>2, <2>4, <2>6, <1>t DEF ScanFindsFailure, Goto, TypeOK, Exhausted
  <2> QED
    BY <2>2, <2>5, <2>6, <2>7 DEF Walking, Downstream, Doomed
<1>5. CASE Mark(w)
  <2>1. target \in todo[w] /\ target \in Task /\ state[target] # "absent"
    BY <1>5 DEF Mark, IInv, LockedVisit, Visiting, TypeOK
  <2>2. /\ phase[w] \in Walking /\ phase'[w] = "walking" /\ phase'[w] \in Walking
        /\ visited'[w] = visited[w] \cup {target}
        /\ todo'[w] = (todo[w] \cup Downstream(target)) \ visited'[w]
        /\ UNCHANGED culprit
    BY <1>5, <1>t DEF Mark, Goto, TypeOK, Walking
  <2>3. culprit[w] \in Task /\ Exhausted(culprit[w]) /\ phase[culprit[w]] = "done"
    BY <2>2, <1>t DEF WalkIsDoomed
  <2>4. Exhausted(culprit[w])' /\ phase'[culprit'[w]] = "done"
    BY <2>2, <2>3, OverIsStable DEF Over, Exhausted
  <2>5. Doomed(w, target) /\ state[target] \in {"pending", "upstream_failed"}
    BY <2>1, <2>2, <1>t DEF WalkIsDoomed, Doomed, Fresh
  <2>6. state'[target] = "upstream_failed"
    BY <1>5, <2>1, <2>5, <1>t DEF Mark, TypeOK
  <2>7. ASSUME NEW d \in todo[w] \cup visited[w] PROVE Doomed(w, d)'
    <3>1. state'[d] \in Fresh
      BY <2>2, DoomedStaysFresh
    <3>2. Doomed(w, d)
      BY <2>2, <1>t DEF WalkIsDoomed
    <3> QED
      BY <2>2, <3>1, <3>2 DEF Doomed
  <2>8. ASSUME NEW d \in Downstream(target) PROVE Doomed(w, d)'
    <3>1. d \in Task /\ target \in Upstream[d] /\ ~ UpstreamDone(d)
      BY <2>5 DEF Downstream, UpstreamDone
    <3>2. phase[d] \notin Executing /\ attempts[d] = 0 /\ state[d] \in Fresh
      BY <3>1, <1>t DEF IInv, Admitted, StateFitsPhase, Fits, TypeOK
    <3>3. state'[d] \in Fresh
      BY <1>5, <3>1, <3>2, <1>t DEF Mark, TypeOK, Fresh
    <3>4. d \in Descendants[culprit[w]]
      BY <2>3, <2>5, DescendantsClosed DEF Doomed
    <3> QED
      BY <2>2, <3>1, <3>3, <3>4 DEF Doomed
  <2>9. \A d \in visited'[w] : state'[d] # "absent"
    BY <2>2, <2>6, <1>t, DoomedStaysFresh DEF WalkIsDoomed
  <2>10. w \in visited'[w] => state'[w] = "upstream_failed"
    BY <2>2, <2>6, <1>t, WalkerStaysBlocked DEF WalkIsDoomed
  <2>11. w \in todo'[w] \cup visited'[w]
    BY <2>2, <1>t DEF WalkIsDoomed
  <2>12. \A d \in todo'[w] \cup visited'[w] : Doomed(w, d)'
    BY <2>1, <2>2, <2>7, <2>8
  <2>13. culprit'[w] \in Upstream[w]
    BY <2>2, <1>t DEF WalkIsDoomed
  <2> QED
    BY <2>2, <2>4, <2>9, <2>10, <2>11, <2>12, <2>13
<1>6. CASE WalkDone(w)
  BY <1>6, <1>t DEF WalkDone, Goto, TypeOK, Walking
<1>7. CASE (\E d \in Task : Look(w, d)) \/ Put(w)
  BY <1>1, <1>7, <1>t DEF Look, Put, Goto, TypeOK, Walking, walk
<1>8. CASE /\ Thread(w)
           /\ ~ ScanFindsFailure(w) /\ ~ Mark(w) /\ ~ WalkDone(w)
           /\ ~ (\E d \in Task : Look(w, d)) /\ ~ Put(w)
  BY <1>1, <1>8, <1>t DEF Thread, Enter, Insert, Fetch, ScanClean, Admit,
     BeginAttempt, CallSucceeds, CallFails, CallInterrupted, Retry, Resume,
     GiveUp, Move, Goto, AfterHook, TypeOK, Walking, walk
<1>9. CASE UNCHANGED vars
  BY <1>1, <1>9 DEF vars
<1> QED
  BY <1>2, <1>3, <1>4, <1>5, <1>6, <1>7, <1>8, <1>9 DEF Next, Finished

(***************************************************************************)
(* A thread that holds the lock excludes every other visit.                *)
(***************************************************************************)
LEMMA LockedVisitStep == IInv /\ [Next]_vars => LockedVisit'
<1> SUFFICES ASSUME IInv, [Next]_vars PROVE LockedVisit'
  OBVIOUS
<1> USE TaskAssumption, GraphAssumption, BatchAssumption
<1>t. TypeOK /\ LockedVisit /\ StateFitsPhase /\ WalkIsDoomed
  BY DEF IInv
<1>1. CASE Main
  <2>1. UNCHANGED <<state, lock, target, todo, visited>>
    BY <1>1 DEF Main, StartRun, Dispatch, Join, Finalize, walk
  <2>2. \A t \in Task : \/ phase'[t] = phase[t]
                        \/ phase[t] = "idle" /\ phase'[t] = "queued"
    BY <1>1, <1>t DEF Main, StartRun, Dispatch, Join, Finalize, Members, IInv,
                      Pipeline, TypeOK
  <2>3. \A t \in Task : phase[t] \in Visiting => target \in Task
    BY <1>t DEF LockedVisit, TypeOK
  <2> QED
    BY <2>1, <2>2, <2>3, <1>t, ZenonT(40) DEF LockedVisit, Visiting
<1>2. ASSUME NEW t \in Task, NEW d \in Task, Look(t, d) PROVE LockedVisit'
  <2>1. \A w \in Task : phase[w] \notin Visiting
    BY <1>2, <1>t DEF Look, LockedVisit
  <2>2. /\ lock' = t /\ target' = d /\ d \in todo[t]
        /\ UNCHANGED <<state, todo, visited>>
        /\ phase' = [phase EXCEPT ![t] = IF state[d] = "absent" THEN "putting" ELSE "marking"]
    BY <1>2 DEF Look, Goto
  <2>3. state[d] = "absent" => /\ d # t
                               /\ phase[d] \in {"idle", "queued", "creating"}
                               /\ visited[d] = {}
    BY <1>2, <1>t DEF Look, StateFitsPhase, Fits, Phase, TypeOK, Walking, WalkIsDoomed, Fresh
  <2> QED
    BY <2>1, <2>2, <2>3, <1>t DEF LockedVisit, Visiting, TypeOK
<1>3. ASSUME NEW t \in Task, Put(t) PROVE LockedVisit'
  <2>1. lock = t /\ target \in todo[t] /\ target \in Task
    BY <1>3, <1>t DEF Put, LockedVisit, Visiting, TypeOK
  <2>2. \A w \in Task : w # t => phase[w] \notin Visiting
    BY <2>1, <1>t DEF LockedVisit
  <2> QED
    BY <1>3, <2>1, <2>2, <1>t DEF Put, Goto, LockedVisit, Visiting, TypeOK, walk
<1>4. ASSUME NEW t \in Task, Mark(t) PROVE LockedVisit'
  <2>1. lock = t
    BY <1>4, <1>t DEF Mark, LockedVisit, Visiting
  <2>2. \A w \in Task : w # t => phase[w] \notin Visiting
    BY <2>1, <1>t DEF LockedVisit
  <2> QED
    BY <1>4, <2>1, <2>2, <1>t DEF Mark, Goto, LockedVisit, Visiting, TypeOK
<1>5. ASSUME NEW t \in Task, Thread(t),
             ~ Put(t), ~ Mark(t), ~ \E d \in Task : Look(t, d)
      PROVE  LockedVisit'
  <2>1. /\ UNCHANGED <<lock, target>>
        /\ phase[t] \notin Visiting /\ phase'[t] \notin Visiting
        /\ visited'[t] \in {{}, visited[t]}
        /\ state'[t] # "upstream_failed" \/ state'[t] = state[t]
    BY <1>5, <1>t DEF Thread, Enter, Insert, Fetch, ScanFindsFailure, ScanClean,
       WalkDone, Admit, BeginAttempt, CallSucceeds, CallFails, CallInterrupted,
       Retry, Resume, GiveUp, Move, Goto, AfterHook, TypeOK, Visiting, walk
  <2>2. \A w \in Task : w # t => UNCHANGED <<phase[w], todo[w], visited[w], state[w]>>
    BY <1>5, OwnWalkOnly, OwnRecordOnly, ZenonT(40)
  <2>3. ASSUME NEW w \in Task, phase[w] \in Visiting
        PROVE  w # t /\ target \in todo[w] /\ target \in Task /\ phase[w] \in Walking
    BY <2>1, <2>3, <1>t DEF LockedVisit, TypeOK, Visiting, Walking
  <2>4. ASSUME NEW w \in Task, phase[w] = "marking" PROVE state'[target'] # "absent"
    <3>1. state[target] # "absent"
      BY <2>4, <1>t DEF LockedVisit
    <3> QED
      BY <2>1, <2>3, <2>4, <3>1, DoomedStaysFresh DEF Visiting
  <2>5. ASSUME NEW w \in Task, phase[w] = "putting", target = t
        PROVE  phase'[t] \in {"idle", "queued", "creating", "fetching",
                             "scanning", "walking"}
    <3>1. /\ state[t] # "upstream_failed" /\ visited[t] = {} /\ lock # None
          /\ phase[t] \in {"idle", "queued", "creating", "fetching", "scanning", "walking"}
      BY <2>5, <1>t DEF LockedVisit, Visiting, TypeOK
    <3>2. ~ ScanClean(t)
      BY <2>3, <2>5, CleanScan, DoomedIsNotAdmitted DEF Visiting
    <3>3. ~ WalkDone(t)
      BY <3>1, <1>t DEF WalkDone, WalkIsDoomed, Walking
    <3> QED
      BY <1>5, <3>1, <3>2, <3>3, <1>t DEF Thread, Enter, Insert, Fetch,
         ScanFindsFailure, Admit, BeginAttempt, CallSucceeds, CallFails,
         CallInterrupted, Retry, Resume, GiveUp, Goto, TypeOK, StateFitsPhase, Fits
  <2>6. ASSUME NEW w \in Task, phase[w] = "putting"
        PROVE  /\ state'[target] # "upstream_failed"
               /\ phase'[target] \in {"idle", "queued", "creating", "fetching",
                                      "scanning", "walking"}
               /\ visited'[target] = {}
    <3>1. target \in Task /\ state[target] # "upstream_failed" /\ visited[target] = {}
      BY <2>3, <2>6, <1>t DEF LockedVisit, Visiting
    <3>2. CASE target # t
      BY <2>2, <2>6, <3>1, <3>2, <1>t DEF LockedVisit
    <3>3. CASE target = t
      BY <2>1, <2>5, <2>6, <3>1, <3>3
    <3> QED
      BY <3>2, <3>3
  <2>7. \A w \in Task : lock' = w <=> phase'[w] \in Visiting
    BY <2>1, <2>2, <1>t DEF LockedVisit
  <2>8. \A w \in Task : phase'[w] \in Visiting => target' \in todo'[w]
    BY <2>1, <2>2, <2>3
  <2> QED
    BY <2>1, <2>2, <2>4, <2>6, <2>7, <2>8 DEF LockedVisit, Visiting
<1>6. CASE UNCHANGED vars
  BY <1>6, <1>t DEF vars, LockedVisit
<1> QED
  BY <1>1, <1>2, <1>3, <1>4, <1>5, <1>6 DEF Next, Finished

(***************************************************************************)
(* A record, once inserted, is never removed.                              *)
(***************************************************************************)
LEMMA RecordsStay ==
  ASSUME IInv, NEW t \in Task, Thread(t), NEW d \in Task, state[d] # "absent"
  PROVE  state'[d] # "absent"
  BY DEF IInv, TypeOK, Thread, Enter, Insert, Fetch, ScanFindsFailure,
     ScanClean, Look, Put, Mark, WalkDone, Admit, BeginAttempt, CallSucceeds,
     CallFails, CallInterrupted, Retry, Resume, GiveUp, Move

(***************************************************************************)
(* Only marking blocks a record.                                           *)
(***************************************************************************)
LEMMA OnlyMarkBlocks ==
  ASSUME IInv, NEW t \in Task, Thread(t), NEW u \in Task,
         state'[u] = "upstream_failed", state[u] # "upstream_failed"
  PROVE  Mark(t) /\ target = u /\ state[u] = "pending"
<1>1. Mark(t)
  BY DEF IInv, TypeOK, Thread, Enter, Insert, Fetch, ScanFindsFailure,
     ScanClean, Look, Put, WalkDone, Admit, BeginAttempt, CallSucceeds,
     CallFails, CallInterrupted, Retry, Resume, GiveUp, Move
<1> QED
  BY <1>1 DEF Mark, IInv, TypeOK

(***************************************************************************)
(* The dependents of a blocked task are visited before its batch is over,  *)
(* although each walk is made by one thread among many.                    *)
(***************************************************************************)
LEMMA BlockedSpreadsStep == IInv /\ [Next]_vars => BlockedSpreads'
<1> SUFFICES ASSUME IInv, [Next]_vars PROVE BlockedSpreads'
  OBVIOUS
<1> USE TaskAssumption, GraphAssumption, BatchAssumption
<1>t. TypeOK /\ BlockedSpreads /\ LockedVisit /\ WalkIsDoomed
  BY DEF IInv
<1>d. \A u \in Task : \A d \in Downstream(u) :
        d \in Task /\ u \in Upstream[d] /\ Batch[u] < Batch[d]
  BY DEF Downstream
<1>1. CASE Join
  <2>1. \A t \in Task : phase[t] \notin Walking /\ (Batch[t] > batch => phase[t] = "idle")
    <3>1. Pipeline
      BY DEF IInv
    <3> QED
      BY <1>1, <1>t, <3>1 DEF Join, Members, Pipeline, TypeOK, Over, Walking
  <2>2. UNCHANGED <<state, phase, todo, target>> /\ batch' \in {batch, batch + 1}
    BY <1>1 DEF Join, walk
  <2>3. ASSUME NEW u \in Task, state[u] = "upstream_failed", Batch[u] = batch,
               NEW d \in Downstream(u)
        PROVE  state[d] = "upstream_failed" /\ phase[d] = "idle"
    <3>1. phase[d] = "idle" /\ d \in Task
      BY <1>d, <2>1, <2>3, <1>t DEF TypeOK
    <3>2. state[d] # "absent" /\ state[d] # "pending"
      BY <2>1, <2>3, <3>1, <1>t DEF BlockedSpreads, Walking
    <3> QED
      BY <3>1, <3>2 DEF IInv, StateFitsPhase, Fits, Fresh
  <2>4. ASSUME NEW u \in Task, Batch[u] < batch' PROVE Batch[u] < batch \/ Batch[u] = batch
    BY <2>2, <2>4, <1>t DEF TypeOK
  <2> QED
    BY <2>2, <2>3, <2>4, <1>t DEF BlockedSpreads
<1>2. CASE StartRun \/ Dispatch \/ Finalize
  <2>1. UNCHANGED <<state, batch, todo, target>>
    BY <1>2 DEF StartRun, Dispatch, Finalize, walk
  <2>2. \A t \in Task : \/ phase'[t] = phase[t]
                        \/ phase[t] = "idle" /\ phase'[t] = "queued"
    BY <1>2, <1>t DEF StartRun, Dispatch, Finalize, Members, IInv, Pipeline, TypeOK
  <2>3. \A t \in Task : /\ phase[t] \in Walking => phase'[t] \in Walking
                        /\ phase[t] = "marking" => phase'[t] = "marking"
    BY <2>2 DEF Walking
  <2>4. (\A u \in Task : state[u] = "upstream_failed" /\ Batch[u] < batch =>
           \A d \in Downstream(u) :
             /\ state[d] = "upstream_failed"
             /\ phase[d] \in {"idle", "queued", "fetching", "done"})'
    BY <2>1, <2>2, <1>d, <1>t DEF BlockedSpreads
  <2>5. (\A d \in Task : state[d] = "pending" /\ phase[d] \in {"idle", "queued"} =>
           \E w \in Task : phase[w] = "marking" /\ target = d)'
    BY <2>1, <2>2, <2>3, <1>t DEF BlockedSpreads
  <2> QED
    BY <2>1, <2>3, <2>4, <2>5, <1>t DEF BlockedSpreads
<1>3. ASSUME NEW t \in Task, Thread(t) PROVE BlockedSpreads'
  <2>1. ASSUME NEW u \in Task, state'[u] = "upstream_failed",
               NEW d \in Downstream(u), state'[d] = "absent"
        PROVE  \E w \in Task : phase'[w] \in Walking /\ d \in todo'[w]
    <3>1. d \in Task /\ state[d] = "absent"
      BY <1>3, <1>d, <2>1, RecordsStay
    <3>2. CASE state[u] = "upstream_failed"
      <4>1. PICK w \in Task : phase[w] \in Walking /\ d \in todo[w]
        BY <2>1, <3>1, <3>2, <1>t DEF BlockedSpreads
      <4>2. CASE w # t
        BY <1>3, <4>1, <4>2, OwnWalkOnly
      <4>3. CASE w = t
        <5>1. ~ WalkDone(t)
          BY <4>1, <4>3 DEF WalkDone
        <5>2. CASE Mark(t)
          BY <4>1, <4>3, <5>2, <3>1, <1>t DEF Mark, Goto, TypeOK, Walking, LockedVisit, WalkIsDoomed
        <5>3. CASE ~ Mark(t)
          BY <1>3, <4>1, <4>3, <5>1, <5>3, <1>t DEF Thread, Enter, Insert, Fetch,
             ScanFindsFailure, ScanClean, Look, Put, Admit, BeginAttempt,
             CallSucceeds, CallFails, CallInterrupted, Retry, Resume, GiveUp,
             Move, Goto, TypeOK, Walking, walk
        <5> QED
          BY <5>2, <5>3
      <4> QED
        BY <4>2, <4>3
    <3>3. CASE state[u] # "upstream_failed"
      <4>1. Mark(t) /\ target = u
        BY <1>3, <2>1, <3>3, OnlyMarkBlocks
      <4>2. d \notin visited'[t]
        BY <2>1, <3>1, <4>1, <1>t DEF Mark, TypeOK, WalkIsDoomed, LockedVisit, Walking
      <4> QED
        BY <2>1, <4>1, <4>2, <1>t DEF Mark, Goto, TypeOK, Walking
    <3> QED
      BY <3>2, <3>3
  <2>2. ASSUME NEW d \in Task, state'[d] = "pending", phase'[d] \in {"idle", "queued"}
        PROVE  \E w \in Task : phase'[w] = "marking" /\ target' = d
    <3>1. d # t /\ phase[d] = phase'[d]
      BY <1>3, <2>2, <1>t, ThreadMoves DEF TypeOK
    <3>2. CASE Put(t)
      <4>1. CASE target = d
        BY <3>2, <4>1, <1>t DEF Put, Goto, TypeOK, walk
      <4>2. CASE target # d
        BY <2>2, <3>1, <3>2, <4>2, <1>t DEF Put, TypeOK, BlockedSpreads, LockedVisit, Visiting
      <4> QED
        BY <4>1, <4>2
    <3>3. CASE Mark(t)
      BY <2>2, <3>1, <3>3, <1>t DEF Mark, TypeOK, BlockedSpreads, LockedVisit, Visiting
    <3>4. CASE ~ Put(t) /\ ~ Mark(t)
      <4>1. state[d] = "pending"
        BY <1>3, <2>2, <3>1, <3>4, OwnRecordOnly
      <4>2. PICK w \in Task : phase[w] = "marking" /\ target = d
        BY <2>2, <3>1, <4>1, <1>t DEF BlockedSpreads
      <4>3. w # t
        BY <1>3, <3>4, <4>2 DEF Thread, Enter, Insert, Fetch,
             ScanFindsFailure, ScanClean, Look, WalkDone, Admit, BeginAttempt,
             CallSucceeds, CallFails, CallInterrupted, Retry, Resume, GiveUp
      <4>4. lock # None
        BY <4>2, <1>t DEF LockedVisit, Visiting
      <4>5. target' = target
        BY <1>3, <3>4, <4>4 DEF Thread, Enter, Insert, Fetch,
             ScanFindsFailure, ScanClean, Look, WalkDone, Admit, BeginAttempt,
             CallSucceeds, CallFails, CallInterrupted, Retry, Resume, GiveUp,
             Move, walk
      <4> QED
        BY <1>3, <4>2, <4>3, <4>5, OwnWalkOnly
    <3> QED
      BY <3>2, <3>3, <3>4
  <2>3. ASSUME NEW u \in Task, state'[u] = "upstream_failed", Batch[u] < batch',
               NEW d \in Downstream(u)
        PROVE  /\ state'[d] = "upstream_failed"
               /\ phase'[d] \in {"idle", "queued", "fetching", "done"}
    <3>1. batch' = batch /\ phase[u] = "done"
      BY <1>3, <2>3, ThreadMoves DEF IInv, Pipeline
    <3>2. state[u] = "upstream_failed"
      BY <2>3, <3>1, OverIsStable DEF Over
    <3>3. /\ d \in Task /\ state[d] = "upstream_failed"
          /\ phase[d] \in {"idle", "queued", "fetching", "done"}
      BY <2>3, <3>1, <3>2, <1>d, <1>t DEF BlockedSpreads
    <3>4. phase[d] = "done" => d # t
      BY <1>3, ThreadMoves DEF Over
    <3>5. CASE Put(t)
      BY <3>3, <3>5, <1>t DEF Put, Goto, TypeOK, LockedVisit
    <3>6. CASE Mark(t)
      BY <3>3, <3>6, <1>t DEF Mark, Goto, TypeOK
    <3>7. CASE d # t /\ ~ Put(t) /\ ~ Mark(t)
      BY <1>3, <3>3, <3>7, OwnWalkOnly, OwnRecordOnly
    <3>8. CASE d = t /\ ~ Put(t) /\ ~ Mark(t)
      BY <1>3, <3>3, <3>4, <3>8, <1>t DEF Thread, Enter, Insert, Fetch,
         ScanFindsFailure, ScanClean, Look, WalkDone, Admit, BeginAttempt,
         CallSucceeds, CallFails, CallInterrupted, Retry, Resume, GiveUp,
         Goto, TypeOK
    <3> QED
      BY <3>5, <3>6, <3>7, <3>8
  <2> QED
    BY <2>1, <2>2, <2>3 DEF BlockedSpreads
<1>4. CASE UNCHANGED vars
  BY <1>4, <1>t DEF vars, BlockedSpreads
<1> QED
  BY <1>1, <1>2, <1>3, <1>4 DEF Next, Main, Finished

(***************************************************************************)
(* The error of a blocked record keeps naming an exhausted failure above.  *)
(***************************************************************************)
LEMMA BlamedStep == IInv /\ [Next]_vars => Blamed'
<1> SUFFICES ASSUME IInv, [Next]_vars, NEW x \in Task, state'[x] = "upstream_failed"
             PROVE  /\ error'[x] # None
                    /\ Exhausted(error[x])' /\ phase'[error'[x]] = "done"
                    /\ x \in Descendants[error'[x]]
  BY DEF Blamed
<1>t. TypeOK /\ Blamed
  BY DEF IInv
<1> DEFINE Blames(u) == /\ u \in Task /\ Exhausted(u) /\ phase[u] = "done"
                        /\ x \in Descendants[u]
<1>1. ASSUME NEW u, Blames(u), error'[x] = u
      PROVE  /\ error'[x] # None
             /\ Exhausted(error[x])' /\ phase'[error'[x]] = "done"
             /\ x \in Descendants[error'[x]]
  BY <1>1, OverIsStable, TaskAssumption DEF Over, Exhausted
<1>2. CASE state[x] = "upstream_failed"
  <2>1. Blames(error[x])
    BY <1>2, <1>t DEF Blamed, TypeOK
  <2>2. CASE Main
    BY <1>1, <2>1, <2>2 DEF Main, StartRun, Dispatch, Join, Finalize
  <2>3. ASSUME NEW t \in Task, Thread(t) PROVE error'[x] = error[x]
    BY <1>2, <2>3, <1>t DEF Thread, Enter, Insert, Fetch, ScanFindsFailure,
       ScanClean, Look, Put, Mark, WalkDone, Admit, BeginAttempt, CallSucceeds,
       CallFails, CallInterrupted, Retry, Resume, GiveUp, Move, TypeOK, IInv,
       StateFitsPhase, Fits, LockedVisit
  <2>4. CASE UNCHANGED vars
    BY <1>1, <2>1, <2>4 DEF vars
  <2> QED
    BY <1>1, <2>1, <2>2, <2>3, <2>4 DEF Next, Finished
<1>3. CASE state[x] # "upstream_failed"
  <2>1. PICK t \in Task : Thread(t)
    BY <1>3 DEF Next, Main, StartRun, Dispatch, Join, Finalize, Finished, vars
  <2>2. Mark(t) /\ target = x /\ state[x] = "pending"
    BY <1>3, <2>1, OnlyMarkBlocks
  <2>3. error'[x] = culprit[t]
    BY <2>2, <1>t DEF Mark, TypeOK
  <2>4. phase[t] \in Walking /\ x \in todo[t]
    BY <2>2 DEF Mark, Walking, Visiting, IInv, LockedVisit
  <2>5. Blames(culprit[t])
    BY <2>4, GraphAssumption DEF IInv, WalkIsDoomed, Doomed
  <2> QED
    BY <1>1, <2>3, <2>5
<1> QED
  BY <1>2, <1>3

(***************************************************************************)
(* Only a thread between its two lookups can lose its record.              *)
(***************************************************************************)
LEMMA DetachedStep == IInv /\ [Next]_vars => DetachedIsBeforeAdmission'
<1> SUFFICES ASSUME IInv, [Next]_vars PROVE DetachedIsBeforeAdmission'
  OBVIOUS
<1>t. TypeOK /\ DetachedIsBeforeAdmission
  BY DEF IInv
<1>1. CASE Main
  <2>1. \A t \in Task : \/ phase'[t] = phase[t]
                        \/ phase[t] = "idle" /\ phase'[t] = "queued"
    BY <1>1, <1>t DEF Main, StartRun, Dispatch, Join, Finalize, Members, IInv,
                      Pipeline, TypeOK
  <2> QED
    BY <1>1, <2>1, <1>t DEF Main, StartRun, Dispatch, Join, Finalize, TypeOK,
                            DetachedIsBeforeAdmission, Walking
<1>2. ASSUME NEW t \in Task, Put(t) PROVE DetachedIsBeforeAdmission'
  <2>1. target # t /\ phase[target] \in {"idle", "queued", "creating", "fetching",
                                         "scanning", "walking"}
    BY <1>2 DEF Put, IInv, LockedVisit
  <2> QED
    BY <1>2, <2>1, <1>t DEF Put, Goto, Busy, Over, TypeOK,
                            DetachedIsBeforeAdmission, Walking
<1>3. ASSUME NEW t \in Task, Thread(t), ~ Put(t) PROVE DetachedIsBeforeAdmission'
  <2>1. \A u \in Task : u # t => phase'[u] = phase[u]
    BY <1>3, OwnWalkOnly
  <2>2. detached' = detached \/ (Admit(t) /\ detached' = detached \ {t})
    BY <1>3 DEF Thread, Enter, Insert, Fetch, ScanFindsFailure, ScanClean, Look,
       Mark, WalkDone, Admit, BeginAttempt, CallSucceeds, CallFails,
       CallInterrupted, Retry, Resume, GiveUp
  <2>3. CASE Admit(t)
    BY <2>1, <2>3, <1>t DEF Admit, TypeOK, DetachedIsBeforeAdmission
  <2>4. CASE ~ Admit(t)
    <3>1. phase[t] \in {"scanning", "admit"} \cup Walking =>
            phase'[t] \in {"scanning", "admit"} \cup Walking
      BY <1>3, <2>4, <1>t DEF Thread, Enter, Insert, Fetch, ScanFindsFailure,
         ScanClean, Look, Mark, WalkDone, BeginAttempt, CallSucceeds, CallFails,
         CallInterrupted, Retry, Resume, GiveUp, Goto, TypeOK, Walking
    <3> QED
      BY <2>1, <2>2, <2>4, <3>1, <1>t DEF TypeOK, DetachedIsBeforeAdmission
  <2> QED
    BY <2>3, <2>4
<1>4. CASE UNCHANGED vars
  BY <1>4, <1>t DEF vars, DetachedIsBeforeAdmission
<1> QED
  BY <1>1, <1>2, <1>3, <1>4 DEF Next, Finished

(***************************************************************************)
(* Only the walk of another thread of the batch comes between a lookup     *)
(* that found nothing and the insertion that follows it.                   *)
(***************************************************************************)
LEMMA InsertedByPeerStep == IInv /\ [Next]_vars => InsertedByPeer'
<1> SUFFICES ASSUME IInv, [Next]_vars, NEW x \in Task,
                    phase'[x] = "creating", state'[x] # "absent"
             PROVE  HasPeer(x)
  BY DEF InsertedByPeer, HasPeer
<1>t. TypeOK /\ InsertedByPeer
  BY DEF IInv
<1>1. CASE phase[x] = "creating" /\ state[x] # "absent"
  BY <1>1, <1>t DEF InsertedByPeer
<1>2. ASSUME NEW t \in Task, Put(t), phase[x] = "creating" PROVE HasPeer(x)
  <2>1. pc = "waiting" /\ Batch[t] = batch /\ Batch[x] = batch
    BY <1>2, <1>t, ThreadMoves, BatchAssumption
       DEF Thread, IInv, Pipeline, Over, TypeOK
  <2> QED
    BY <1>2, <2>1 DEF Put, HasPeer
<1>3. CASE phase[x] # "creating"
  <2>1. PICK t \in Task : Thread(t)
    BY <1>3, <1>t DEF Next, Main, StartRun, Dispatch, Join, Finalize, Finished, vars, TypeOK
  <2>2. x = t
    BY <2>1, <1>3, OwnWalkOnly
  <2>3. Enter(t)
    BY <2>1, <2>2, <1>3, <1>t DEF Thread, Insert, Fetch, ScanFindsFailure, ScanClean,
       Look, Put, Mark, WalkDone, Admit, BeginAttempt, CallSucceeds, CallFails,
       CallInterrupted, Retry, Resume, GiveUp, Move, Goto, AfterHook, TypeOK
  <2> QED
    BY <2>2, <2>3, <1>t DEF Enter, Goto, TypeOK
<1>4. CASE phase[x] = "creating" /\ state[x] = "absent"
  <2>1. PICK t \in Task : Thread(t)
    BY <1>4, <1>t DEF Next, Main, StartRun, Dispatch, Join, Finalize, Finished, vars, TypeOK
  <2>2. CASE Put(t)
    BY <1>2, <1>4, <2>2
  <2>3. CASE Mark(t)
    BY <1>4, <1>t, <2>3 DEF Mark, TypeOK, IInv, LockedVisit
  <2>4. CASE ~ Put(t) /\ ~ Mark(t) /\ x # t
    BY <1>4, <2>1, <2>4, OwnRecordOnly
  <2>5. CASE ~ Put(t) /\ ~ Mark(t) /\ x = t
    BY <1>4, <1>t, <2>1, <2>5 DEF Thread, Enter, Insert, Fetch, ScanFindsFailure,
       ScanClean, Look, WalkDone, Admit, BeginAttempt, CallSucceeds, CallFails,
       CallInterrupted, Retry, Resume, GiveUp, Goto, TypeOK
  <2> QED
    BY <2>2, <2>3, <2>4, <2>5
<1> QED
  BY <1>1, <1>3, <1>4

(***************************************************************************)
(* The aggregate of the final records is the state of the run (226-229).   *)
(***************************************************************************)
LEMMA ConcludedStep == IInv /\ [Next]_vars => Concluded'
<1> SUFFICES ASSUME IInv, [Next]_vars, pc' = "ended" PROVE Concluded'
  BY DEF Concluded
<1>1. CASE Finalize
  <2>1. \A t \in Task : state[t] \in {"success", "failed", "upstream_failed"}
    BY <1>1 DEF Finalize, IInv, Pipeline, StateFitsPhase, Fits
  <2>2. Recorded = Task
    BY <2>1 DEF Recorded
  <2>3. FinalState = IF \E t \in Task : state[t] = "failed" THEN "failed" ELSE "success"
    BY <2>1, <2>2, TaskAssumption DEF FinalState, aggregate_workflow_state
  <2> QED
    BY <1>1, <2>3 DEF Finalize, Concluded
<1>2. CASE pc = "ended" /\ UNCHANGED <<state, wfState>>
  BY <1>2 DEF IInv, Concluded
<1>3. CASE \E t \in Task : Thread(t)
  BY <1>3, ThreadMoves
<1> QED
  BY <1>1, <1>2, <1>3 DEF Next, Main, StartRun, Dispatch, Join, AfterHook, Finished, vars

(***************************************************************************)
(* run() goes on only to a batch that has tasks, and a visit that has been *)
(* made is taken from those to make (209-224, 426-438).                    *)
(***************************************************************************)
LEMMA NothingTwiceStep == IInv /\ [Next]_vars => NothingTwice'
<1> SUFFICES ASSUME IInv, [Next]_vars PROVE NothingTwice'
  OBVIOUS
<1>t. TypeOK /\ NothingTwice /\ WalkIsDoomed
  BY DEF IInv
<1>1. \E t \in Task : Batch[t] = batch'
  <2>1. CASE Join
    BY <2>1, <1>t DEF Join, NothingTwice
  <2>2. CASE UNCHANGED batch
    BY <2>2, <1>t DEF NothingTwice
  <2>3. CASE \E t \in Task : Thread(t)
    BY <2>2, <2>3, ThreadMoves
  <2> QED
    BY <2>1, <2>2, <2>3 DEF Next, Main, StartRun, Dispatch, Finalize, Finished, vars
<1>2. ASSUME NEW w \in Task PROVE todo'[w] \cap visited'[w] = {}
  <2>1. CASE UNCHANGED <<todo[w], visited[w]>>
    BY <2>1, <1>t DEF NothingTwice
  <2>2. CASE Main \/ UNCHANGED vars
    BY <2>1, <2>2 DEF Main, StartRun, Dispatch, Join, Finalize, walk, vars
  <2>3. CASE \E t \in Task : t # w /\ Thread(t)
    BY <2>1, <2>3, OwnWalkOnly
  <2>4. CASE ScanFindsFailure(w)
    BY <2>4, <1>t DEF ScanFindsFailure, WalkIsDoomed, Walking
  <2>5. CASE Mark(w)
    BY <2>5, <1>t DEF Mark, TypeOK
  <2>6. CASE WalkDone(w)
    BY <2>6, <1>t DEF WalkDone, TypeOK
  <2>7. CASE Thread(w) /\ ~ ScanFindsFailure(w) /\ ~ Mark(w) /\ ~ WalkDone(w)
    BY <2>1, <2>7 DEF Thread, Enter, Insert, Fetch, ScanClean, Look, Put, Admit,
       BeginAttempt, CallSucceeds, CallFails, CallInterrupted, Retry, Resume,
       GiveUp, Move, walk
  <2> QED
    BY <2>2, <2>3, <2>4, <2>5, <2>6, <2>7 DEF Next, Finished
<1> QED
  BY <1>1, <1>2 DEF NothingTwice

-----------------------------------------------------------------------------
(***************************************************************************)
(* IInv is an invariant of the engine.                                     *)
(***************************************************************************)
LEMMA InitIInv == Init => IInv
<1> SUFFICES ASSUME Init PROVE IInv
  OBVIOUS
<1> USE TaskAssumption, BatchAssumption, ParameterAssumption DEF Init
<1>1. TypeOK
  BY DEF TypeOK, TaskState, WorkflowState, Phase
<1>2. Pipeline /\ StateFitsPhase
  BY DEF Pipeline, StateFitsPhase, Fits, Fresh, Over, Walking
<1>3. Admitted /\ WalkIsDoomed
  BY DEF Admitted, WalkIsDoomed, Executing, Walking
<1>4. LockedVisit /\ BlockedSpreads
  BY DEF LockedVisit, BlockedSpreads, Visiting
<1>5. Blamed /\ DetachedIsBeforeAdmission /\ InsertedByPeer /\ Concluded
  BY DEF Blamed, DetachedIsBeforeAdmission, InsertedByPeer, Concluded
<1>6. NothingTwice
  <2>1. PICK t \in Task : TRUE
    OBVIOUS
  <2>2. \E u \in Task : Batch[u] = 0
    BY <2>1
  <2> QED
    BY <2>2 DEF NothingTwice
<1> QED
  BY <1>1, <1>2, <1>3, <1>4, <1>5, <1>6 DEF IInv

(***************************************************************************)
(* Every step preserves the inductive invariant.                           *)
(***************************************************************************)
LEMMA NextIInv == IInv /\ [Next]_vars => IInv'
  BY TypeOKStep, PipelineStep, StateFitsPhaseStep, AdmittedStep,
     WalkIsDoomedStep, LockedVisitStep, BlockedSpreadsStep, BlamedStep,
     DetachedStep, InsertedByPeerStep, ConcludedStep, NothingTwiceStep DEF IInv

(***************************************************************************)
(* The inductive invariant holds in every state of every run.              *)
(***************************************************************************)
THEOREM EngineInvariance == Spec => []IInv
  BY InitIInv, NextIInv, PTL DEF Spec

(***************************************************************************)
(* Below a failure nobody has all its dependencies done.                   *)
(***************************************************************************)
LEMMA BelowFailure ==
  ASSUME IInv, NEW c \in Task, state[c] = "failed", NEW d \in Descendants[c]
  PROVE  d \in Task /\ ~ UpstreamDone(d)
<1> DEFINE S == {x \in Task : ~ UpstreamDone(x)}
<1>1. Downstream(c) \subseteq S
  BY DEF Downstream, UpstreamDone
<1>2. ASSUME NEW s \in S, NEW x \in Downstream(s) PROVE x \in S
  <2>1. state[s] # "success"
    BY DEF IInv, TypeOK, Admitted, StateFitsPhase, Fits, Fresh
  <2> QED
    BY <2>1 DEF Downstream, UpstreamDone
<1>3. Downstream(c) \cup UNION {Downstream(s) : s \in S} \subseteq S
  BY <1>1, <1>2
<1>4. S \in SUBSET Task
  OBVIOUS
<1> HIDE DEF S
<1>5. d \in S
  BY <1>3, <1>4 DEF Descendants
<1> QED
  BY <1>5 DEF S

(***************************************************************************)
(* Every variable keeps its type.                                          *)
(***************************************************************************)
THEOREM TypeCorrect == Spec => []TypeOK
<1>1. IInv => TypeOK
  BY DEF IInv
<1> QED
  BY <1>1, EngineInvariance, PTL

(***************************************************************************)
(* A task that has made an attempt has only succeeded dependencies.        *)
(***************************************************************************)
THEOREM RunsOnlyAfterUpstream == Spec => []UpstreamSucceeded
<1>1. IInv => UpstreamSucceeded
  BY DEF IInv, Admitted, UpstreamDone, UpstreamSucceeded
<1> QED
  BY <1>1, EngineInvariance, PTL

(***************************************************************************)
(* A blocked task names an exhausted failure above it.                     *)
(***************************************************************************)
THEOREM BlameIsCorrect == Spec => []BlameIsReal
<1>1. IInv => BlameIsReal
  BY DEF IInv, Blamed, BlameIsReal
<1> QED
  BY <1>1, EngineInvariance, PTL

(***************************************************************************)
(* Aggregation finds every task recorded and settled.                      *)
(***************************************************************************)
THEOREM FinalizationIsClean == Spec => []CleanFinalization
<1>1. IInv => CleanFinalization
  BY DEF IInv, Pipeline, StateFitsPhase, Fits, CleanFinalization, FAILURE_STATES
<1> QED
  BY <1>1, EngineInvariance, PTL

(***************************************************************************)
(* A returned run says what happened: it is failed exactly when a task     *)
(* failed, and the blocked tasks are exactly those below a failure.        *)
(***************************************************************************)
THEOREM OutcomeIsCorrect == Spec => []OutcomeMatches
<1>1. ASSUME IInv, pc = "ended" PROVE OutcomeMatches
  <2>1. \A t \in Task : phase[t] = "done" /\ state[t] \in {"success", "failed", "upstream_failed"}
    BY <1>1 DEF IInv, Pipeline, StateFitsPhase, Fits
  <2>2. wfState = IF \E t \in Task : state[t] = "failed" THEN "failed" ELSE "success"
    BY <1>1 DEF IInv, Concluded
  <2>3. ASSUME NEW t \in Task, state[t] = "upstream_failed"
        PROVE  \E u \in Task : state[u] = "failed" /\ t \in Descendants[u]
    BY <1>1, <2>3 DEF IInv, TypeOK, Blamed, Exhausted
  <2>4. ASSUME NEW u \in Task, state[u] = "failed", NEW t \in Descendants[u]
        PROVE  state[t] = "upstream_failed"
    <3>1. t \in Task /\ ~ UpstreamDone(t)
      BY <1>1, <2>4, BelowFailure
    <3>2. state[t] \in Fresh
      BY <1>1, <3>1 DEF IInv, TypeOK, Admitted, StateFitsPhase, Fits
    <3> QED
      BY <2>1, <3>1, <3>2 DEF Fresh
  <2> QED
    BY <2>1, <2>2, <2>3, <2>4 DEF OutcomeMatches
<1>2. IInv => OutcomeMatches
  BY <1>1 DEF OutcomeMatches
<1> QED
  BY <1>2, EngineInvariance, PTL

(***************************************************************************)
(* No executing thread writes a record that run.records has lost.          *)
(***************************************************************************)
THEOREM ExecutorsAreAttached == Spec => []NoDetachedExecutor
<1>1. IInv => NoDetachedExecutor
  BY DEF IInv, DetachedIsBeforeAdmission, NoDetachedExecutor, Walking
<1> QED
  BY <1>1, EngineInvariance, PTL

(***************************************************************************)
(* When run() raises, no thread is left at work and no later batch begun.  *)
(***************************************************************************)
THEOREM RaiseIsDrained == Spec => []RaiseDrainsPool
<1>1. IInv => RaiseDrainsPool
  BY DEF IInv, TypeOK, Pipeline, StateFitsPhase, Fits, RaiseDrainsPool, Over
<1> QED
  BY <1>1, EngineInvariance, PTL

(***************************************************************************)
(* The only change outside TASK_TRANSITIONS resets a doomed record, and    *)
(* takes a batch of more than one task.                                    *)
(***************************************************************************)
LEMMA StepsAreLawful ==
  ASSUME IInv, [Next]_vars, NEW x \in Task
  PROVE  MovesLawfully(x)
<1>l. /\ can_transition("pending", "running")
      /\ can_transition("pending", "upstream_failed")
  BY DEF can_transition, TASK_TRANSITIONS
<1> USE DEF MovesLawfully
<1>t. TypeOK /\ StateFitsPhase
  BY DEF IInv
<1>1. CASE Main \/ UNCHANGED vars
  BY <1>1 DEF Main, StartRun, Dispatch, Join, Finalize, vars
<1>2. ASSUME NEW t \in Task, Insert(t) PROVE MovesLawfully(x)
  <2>1. CASE x # t
    BY <1>2, <1>t, <2>1 DEF Insert, TypeOK
  <2>2. CASE x = t
    <3>1. state[t] \in Fresh /\ state'[t] = "pending"
      BY <1>2, <1>t DEF Insert, TypeOK, StateFitsPhase, Fits
    <3>2. state[t] = "upstream_failed" =>
            \E u \in Task : Exhausted(u) /\ t \in Descendants[u]
      BY DEF IInv, TypeOK, Blamed
    <3>3. state[t] = "upstream_failed" => HasPeer(t)
      BY <1>2 DEF IInv, InsertedByPeer, Insert
    <3> QED
      BY <2>2, <3>1, <3>2, <3>3 DEF Fresh
  <2> QED
    BY <2>1, <2>2
<1>3. ASSUME NEW t \in Task, Put(t) PROVE MovesLawfully(x)
  <2>1. target \in Task /\ state[target] \in {"absent", "pending"}
    BY <1>3, DoomedIsNotAdmitted
       DEF Put, IInv, LockedVisit, Visiting, Walking, Fresh
  <2> QED
    BY <1>3, <1>t, <2>1 DEF Put, TypeOK
<1>4. ASSUME NEW t \in Task, Mark(t) PROVE MovesLawfully(x)
  BY <1>4, <1>t, <1>l DEF Mark, TypeOK
<1>5. ASSUME NEW t \in Task, Thread(t), ~ Insert(t), ~ Put(t), ~ Mark(t) PROVE MovesLawfully(x)
  <2>1. CASE x # t
    BY <1>5, <2>1, OwnRecordOnly
  <2>2. CASE BeginAttempt(t)
    BY <1>t, <2>2, <1>l, ExecutionIsLegal DEF BeginAttempt, TypeOK, StateFitsPhase, Fits
  <2>3. CASE x = t /\ ~ BeginAttempt(t)
    BY <1>5, <1>t, <2>3 DEF Thread, Enter, Fetch, ScanFindsFailure, ScanClean,
       Look, WalkDone, Admit, CallSucceeds, CallFails, CallInterrupted, Retry,
       Resume, GiveUp, Move, TypeOK
  <2> QED
    BY <1>5, <2>1, <2>2, <2>3
<1> QED
  BY <1>1, <1>2, <1>3, <1>4, <1>5 DEF Next, Finished

(***************************************************************************)
(* In every step, records move by the table or are reset lawfully.         *)
(***************************************************************************)
THEOREM ResetsAreDoomed == Spec => OnlyDoomedRecordsReset
<1>1. IInv /\ [Next]_vars => [AllMoveLawfully]_vars
  BY StepsAreLawful DEF AllMoveLawfully
<1> QED
  BY <1>1, EngineInvariance, PTL DEF Spec, OnlyDoomedRecordsReset

(***************************************************************************)
(* When every batch is of one task, as it is with max_workers = 1, no      *)
(* illegal transition occurs at all (engine.py 7-10).                      *)
(***************************************************************************)
THEOREM SequentialRunsAreLegal ==
  ASSUME \A t \in Task : ~ HasPeer(t)
  PROVE  Spec => LegalTransitions
<1> DEFINE Legal ==
      \A t \in Task :
        state[t] \notin {"absent", state'[t]} => can_transition(state[t], state'[t])
<1>1. IInv /\ [Next]_vars => [Legal]_vars
  BY StepsAreLawful DEF MovesLawfully
<1> QED
  BY <1>1, EngineInvariance, PTL DEF Spec, LegalTransitions
-----------------------------------------------------------------------------
(***************************************************************************)
(* The status of a task, one implication for each row of the mapping.      *)
(***************************************************************************)
LEMMA StatusRows ==
  ASSUME NEW t \in Task
  PROVE  /\ state[t] \in {"running", "retrying"} => StatusOf(t) = "running"
         /\ state[t] = "success" => StatusOf(t) = "succeeded"
         /\ state[t] = "failed" /\ phase[t] \in Over => StatusOf(t) = "failed"
         /\ state[t] = "failed" /\ phase[t] \notin Over => StatusOf(t) = "running"
         /\ state[t] = "upstream_failed" /\ phase[t] = "done" => StatusOf(t) = "blocked"
         /\ state[t] = "upstream_failed" /\ phase[t] # "done" => StatusOf(t) = "waiting"
         /\ state[t] \in {"absent", "pending"} => StatusOf(t) = "waiting"
  BY DEF StatusOf

(***************************************************************************)
(* The same rows after the step.                                           *)
(***************************************************************************)
LEMMA StatusRowsPrime ==
  ASSUME NEW t \in Task
  PROVE  /\ state'[t] \in {"running", "retrying"} => StatusOf(t)' = "running"
         /\ state'[t] = "success" => StatusOf(t)' = "succeeded"
         /\ state'[t] = "failed" /\ phase'[t] \in Over => StatusOf(t)' = "failed"
         /\ state'[t] = "failed" /\ phase'[t] \notin Over => StatusOf(t)' = "running"
         /\ state'[t] = "upstream_failed" /\ phase'[t] = "done" => StatusOf(t)' = "blocked"
         /\ state'[t] = "upstream_failed" /\ phase'[t] # "done" => StatusOf(t)' = "waiting"
         /\ state'[t] \in {"absent", "pending"} => StatusOf(t)' = "waiting"
  BY DEF StatusOf

(***************************************************************************)
(* Before run() starts, every task waits and the outcome is open.          *)
(***************************************************************************)
LEMMA RefineInit == Init => Contract!ContractInit
  BY StatusRows DEF Init, Contract!ContractInit, OutcomeOf

(***************************************************************************)
(* A step that changes the status of at most one task.                     *)
(***************************************************************************)
LEMMA OneStatusChanges ==
  ASSUME NEW t \in Task, \A x \in Task : x # t => StatusOf(x)' = StatusOf(x)
  PROVE  [x \in Task |-> StatusOf(x)]' =
           [[x \in Task |-> StatusOf(x)] EXCEPT ![t] = StatusOf(t)']
  OBVIOUS

(***************************************************************************)
(* A visit leaves every status as it is: the visited task is waiting       *)
(* before and after.                                                       *)
(***************************************************************************)
LEMMA VisitsChangeNoStatus ==
  ASSUME IInv, NEW t \in Task, Put(t) \/ Mark(t), NEW x \in Task
  PROVE  StatusOf(x)' = StatusOf(x)
<1>t. TypeOK /\ StateFitsPhase
  BY DEF IInv
<1>1. target \in todo[t] /\ phase[t] \in Walking
  BY DEF Put, Mark, IInv, LockedVisit, Visiting, Walking
<1>2. target \in Task /\ phase[target] \notin Executing /\ state[target] \in Fresh
  BY <1>1, DoomedIsNotAdmitted
<1>3. /\ phase[t] \in Visiting /\ phase'[t] \in {"walking", "marking"}
      /\ \A y \in Task : y # t => phase'[y] = phase[y]
      /\ \A y \in Task : y # target => state'[y] = state[y]
  BY <1>t, <1>2 DEF Put, Mark, Goto, TypeOK, Visiting
<1>4. state[t] \in {"pending", "upstream_failed"}
  BY <1>t, <1>3 DEF Visiting, Walking, StateFitsPhase, Fits
<1>5. CASE x = target
  <2>1. phase[x] = "done" <=> phase'[x] = "done"
    BY <1>2, <1>3, <1>5 DEF Visiting
  <2>2. CASE Put(t)
    BY <1>t, <1>2, <1>5, <2>2, StatusRows, StatusRowsPrime
       DEF Put, IInv, LockedVisit, TypeOK, Fresh
  <2>3. CASE Mark(t) /\ state[x] = "pending"
    <3>1. phase[x] # "done" /\ state'[x] = "upstream_failed"
      BY <1>t, <1>2, <1>5, <2>3 DEF Mark, TypeOK, StateFitsPhase, Fits
    <3> QED
      BY <1>2, <1>5, <2>1, <2>3, <3>1, StatusRows, StatusRowsPrime
  <2>4. CASE Mark(t) /\ state[x] # "pending"
    <3>1. state'[x] = state[x]
      BY <1>5, <2>4 DEF Mark
    <3> QED
      BY <1>2, <1>5, <2>1, <3>1, StatusRows, StatusRowsPrime DEF Fresh
  <2> QED
    BY <2>2, <2>3, <2>4
<1>6. CASE x # target
  <2>1. state'[x] = state[x]
    BY <1>3, <1>6
  <2>2. CASE x = t
    BY <1>3, <1>4, <2>1, <2>2, StatusRows, StatusRowsPrime DEF Visiting
  <2>3. CASE x # t
    BY <1>3, <2>1, <2>3 DEF StatusOf
  <2> QED
    BY <2>2, <2>3
<1> QED
  BY <1>5, <1>6

(***************************************************************************)
(* A blocked task has a dependency that failed or is blocked itself.       *)
(***************************************************************************)
LEMMA BlockedHasReason ==
  ASSUME IInv, NEW t \in Task, state[t] = "upstream_failed", phase[t] # "idle"
  PROVE  \E u \in Upstream[t] : u \in Task /\ StatusOf(u) \in {"failed", "blocked"}
<1>1. ~ UpstreamDone(t)
  <2>1. error[t] \in Task /\ state[error[t]] = "failed" /\ t \in Descendants[error[t]]
    BY DEF IInv, TypeOK, Blamed, Exhausted
  <2> QED
    BY <2>1, BelowFailure
<1>2. PICK u \in Upstream[t] : state[u] # "success"
  BY <1>1 DEF UpstreamDone
<1>3. u \in Task /\ phase[u] = "done"
  BY UpstreamIsDone
<1>4. state[u] \in {"failed", "upstream_failed"}
  BY <1>2, <1>3 DEF IInv, StateFitsPhase, Fits
<1> QED
  BY <1>3, <1>4, StatusRows DEF Over

(***************************************************************************)
(* Every step of the engine is a step of the contract or changes nothing   *)
(* that the contract sees.                                                 *)
(***************************************************************************)
LEMMA RefineNext ==
  IInv /\ [Next]_vars => [Contract!ContractNext]_(Contract!contractVars)
<1> SUFFICES ASSUME IInv, [Next]_vars
             PROVE  [Contract!ContractNext]_(Contract!contractVars)
  OBVIOUS
<1> USE TaskAssumption, GraphAssumption
<1> DEFINE status  == [x \in Task |-> StatusOf(x)]
           Same    == (\A x \in Task : StatusOf(x)' = StatusOf(x)) /\ OutcomeOf' = OutcomeOf
<1>t. TypeOK /\ StateFitsPhase
  BY DEF IInv
<1>s. ASSUME Same PROVE UNCHANGED Contract!contractVars
  BY <1>s DEF Contract!contractVars
<1>1. CASE StartRun \/ Dispatch \/ Join
  <2>1. UNCHANGED state /\ pc \notin {"ended", "raised"} /\ pc' # "ended"
    BY <1>1 DEF StartRun, Dispatch, Join, AfterHook
  <2>2. \A x \in Task : \/ phase'[x] = phase[x]
                        \/ phase[x] = "idle" /\ phase'[x] = "queued"
    BY <1>1, <1>t DEF StartRun, Dispatch, Join, Members, IInv, Pipeline, TypeOK
  <2>3. \A x \in Task : StatusOf(x)' = StatusOf(x)
    BY <2>1, <2>2 DEF StatusOf, Over
  <2>4. CASE pc' = "raised"
    BY <2>1, <2>3, <2>4 DEF OutcomeOf, Contract!ContractNext, Contract!Abort
  <2>5. CASE pc' # "raised"
    BY <1>s, <2>1, <2>3, <2>5 DEF OutcomeOf
  <2> QED
    BY <2>4, <2>5
<1>2. CASE Finalize
  <2>1. UNCHANGED <<state, phase>> /\ pc = "finalize" /\ pc' \in {"ended", "raised"}
    BY <1>2 DEF Finalize, AfterHook
  <2>2. \A x \in Task : StatusOf(x)' = StatusOf(x)
    BY <2>1 DEF StatusOf
  <2>3. CASE pc' = "raised"
    BY <2>1, <2>2, <2>3 DEF OutcomeOf, Contract!ContractNext, Contract!Abort
  <2>4. CASE pc' = "ended"
    <3>1. \A x \in Task : phase[x] = "done"
      BY <2>1 DEF IInv, Pipeline
    <3>2. \A x \in Task : /\ StatusOf(x) \in {"succeeded", "failed", "blocked"}
                          /\ StatusOf(x) = "failed" <=> state[x] = "failed"
      BY <3>1, <1>t, StatusRows DEF StateFitsPhase, Fits, Over
    <3>3. wfState' = IF \E x \in Task : state[x] = "failed" THEN "failed" ELSE "success"
      BY <2>1, <2>4, ConcludedStep DEF Concluded
    <3>4. OutcomeOf = "open" /\ OutcomeOf' = wfState'
      BY <2>1, <2>4 DEF OutcomeOf
    <3> QED
      BY <2>2, <3>2, <3>3, <3>4 DEF Contract!ContractNext, Contract!Complete, Contract!Settled
  <2> QED
    BY <2>1, <2>3, <2>4
<1>3. ASSUME NEW t \in Task, Thread(t)
      PROVE  [Contract!ContractNext]_(Contract!contractVars)
  <2>1. OutcomeOf = "open" /\ OutcomeOf' = "open"
    BY <1>3, ThreadMoves DEF OutcomeOf
  <2>2. CASE Put(t) \/ Mark(t)
    BY <1>s, <2>1, <2>2, VisitsChangeNoStatus
  <2>3. CASE ~ Put(t) /\ ~ Mark(t)
    <3>1. \A x \in Task : x # t => StatusOf(x)' = StatusOf(x)
      BY <1>3, <2>3, OwnWalkOnly, OwnRecordOnly DEF StatusOf
    <3>2. status' = [status EXCEPT ![t] = StatusOf(t)'] /\ status[t] = StatusOf(t)
      BY <3>1, OneStatusChanges
    <3>3. ASSUME StatusOf(t)' = StatusOf(t)
          PROVE  [Contract!ContractNext]_(Contract!contractVars)
      BY <1>s, <2>1, <3>1, <3>3
    <3>4. CASE BeginAttempt(t)
      <4>1. state'[t] = "running" /\ state[t] \in {"pending", "retrying"}
        BY <3>4, <1>t DEF BeginAttempt, TypeOK, StateFitsPhase, Fits
      <4>2. StatusOf(t)' = "running"
        BY <4>1, StatusRowsPrime
      <4>3. ASSUME NEW u \in Upstream[t] PROVE u \in Task /\ StatusOf(u) = "succeeded"
        <5>1. u \in Task /\ UpstreamDone(t)
          BY <3>4 DEF BeginAttempt, IInv, Admitted, Executing
        <5> QED
          BY <5>1, StatusRows DEF UpstreamDone
      <4>4. CASE state[t] = "pending"
        <5>1. status[t] = "waiting" /\ \A u \in Upstream[t] : status[u] = "succeeded"
          BY <4>3, <4>4, StatusRows
        <5>2. Contract!Start(t)
          BY <2>1, <3>2, <4>2, <5>1 DEF Contract!Start, Contract!Become
        <5> QED
          BY <5>2 DEF Contract!ContractNext
      <4>5. CASE state[t] = "retrying"
        BY <3>3, <4>2, <4>5, StatusRows
      <4> QED
        BY <4>1, <4>4, <4>5
    <3>5. CASE CallSucceeds(t)
      <4>1. state[t] = "running" /\ state'[t] = "success"
        BY <3>5, <1>t, ExecutionIsLegal DEF CallSucceeds, Move, TypeOK, StateFitsPhase, Fits
      <4>2. status[t] = "running" /\ StatusOf(t)' = "succeeded"
        BY <4>1, StatusRows, StatusRowsPrime
      <4>3. Contract!Succeed(t)
        BY <2>1, <3>2, <4>2 DEF Contract!Succeed, Contract!Become
      <4> QED
        BY <4>3 DEF Contract!ContractNext
    <3>6. CASE CallFails(t) \/ CallInterrupted(t) \/ Retry(t) \/ Resume(t)
      <4>1. StatusOf(t) = "running"
        <5>1. state[t] \in {"running", "retrying"} \/ (state[t] = "failed" /\ phase[t] \notin Over)
          BY <3>6, <1>t DEF CallFails, CallInterrupted, Retry, Resume, StateFitsPhase,
                            Fits, Over
        <5> QED
          BY <5>1, StatusRows
      <4>2. StatusOf(t)' = "running"
        <5>1. CASE CallFails(t)
          <6>1. state'[t] = "failed" /\ phase'[t] = "failing"
            BY <5>1, <1>t, ExecutionIsLegal DEF CallFails, Move, Goto, TypeOK, StateFitsPhase, Fits
          <6> QED
            BY <6>1, StatusRowsPrime DEF Over
        <5>2. CASE Retry(t)
          <6>1. state'[t] = "retrying"
            BY <5>2, <1>t, ExecutionIsLegal DEF Retry, Move, TypeOK, StateFitsPhase, Fits
          <6> QED
            BY <6>1, StatusRowsPrime
        <5>3. CASE CallInterrupted(t) \/ Resume(t)
          <6>1. state'[t] \in {"running", "retrying"}
            BY <5>3, <1>t DEF CallInterrupted, Resume, StateFitsPhase, Fits
          <6> QED
            BY <6>1, StatusRowsPrime
        <5> QED
          BY <3>6, <5>1, <5>2, <5>3
      <4> QED
        BY <3>3, <4>1, <4>2
    <3>7. CASE GiveUp(t)
      <4>1. /\ state[t] = "failed" /\ phase[t] \notin Over
            /\ state'[t] = "failed" /\ phase'[t] \in Over
        BY <3>7, <1>t DEF GiveUp, Goto, AfterHook, TypeOK, StateFitsPhase, Fits, Over
      <4>2. status[t] = "running" /\ StatusOf(t)' = "failed"
        BY <4>1, StatusRows, StatusRowsPrime
      <4>3. Contract!Fail(t)
        BY <2>1, <3>2, <4>2 DEF Contract!Fail, Contract!Become
      <4> QED
        BY <4>3 DEF Contract!ContractNext
    <3>8. CASE Fetch(t) \/ Admit(t)
      <4>1. /\ state'[t] = state[t] /\ phase[t] \notin {"idle", "done"}
            /\ state[t] \in {"pending", "upstream_failed"}
            /\ state[t] = "upstream_failed" => phase'[t] = "done"
        BY <3>8, <1>t DEF Fetch, Admit, Goto, TypeOK, StateFitsPhase, Fits
      <4>2. CASE state[t] = "pending"
        BY <3>3, <4>1, <4>2, StatusRows, StatusRowsPrime
      <4>3. CASE state[t] = "upstream_failed"
        <5>1. status[t] = "waiting" /\ StatusOf(t)' = "blocked"
          BY <4>1, <4>3, StatusRows, StatusRowsPrime
        <5>2. \E u \in Upstream[t] : status[u] \in {"failed", "blocked"}
          BY <4>1, <4>3, BlockedHasReason
        <5>3. Contract!Block(t)
          BY <2>1, <3>2, <5>1, <5>2 DEF Contract!Block, Contract!Become
        <5> QED
          BY <5>3 DEF Contract!ContractNext
      <4> QED
        BY <4>1, <4>2, <4>3
    <3>9. CASE \/ Enter(t) \/ Insert(t) \/ ScanFindsFailure(t) \/ ScanClean(t)
               \/ (\E d \in Task : Look(t, d)) \/ WalkDone(t)
      <4>1. /\ state[t] \in Fresh /\ phase[t] # "done"
            /\ state'[t] \in Fresh /\ phase'[t] # "done"
        BY <3>9, <1>t DEF Enter, Insert, ScanFindsFailure, ScanClean, Look, WalkDone,
           Goto, TypeOK, StateFitsPhase, Fits, Fresh, Walking
      <4> QED
        BY <3>3, <4>1, StatusRows, StatusRowsPrime DEF Fresh
    <3> QED
      BY <1>3, <2>3, <3>4, <3>5, <3>6, <3>7, <3>8, <3>9 DEF Thread
  <2> QED
    BY <2>2, <2>3
<1>4. CASE UNCHANGED vars
  BY <1>s, <1>4 DEF vars, StatusOf, OutcomeOf
<1> QED
  BY <1>1, <1>2, <1>3, <1>4 DEF Next, Main, Finished

(***************************************************************************)
(* The engine implements the contract.                                     *)
(***************************************************************************)
THEOREM EngineImplementsContract == Spec => ImplementsContract
  BY RefineInit, RefineNext, EngineInvariance, PTL
     DEF Spec, ImplementsContract, Contract!ContractSpec
-----------------------------------------------------------------------------
(***************************************************************************)
(* How far a run has got: with the batch of b, with the task a and its     *)
(* attempts, and, before a's thread is past its walk, with the visit of b. *)
(***************************************************************************)
MainPlace == [created |-> 0, dispatch |-> 1, waiting |-> 2, finalize |-> 3,
              ended |-> 4, raised |-> 4]

ThreadPlace ==
  [idle |-> 0, queued |-> 1, creating |-> 2, fetching |-> 3, scanning |-> 4,
   walking |-> 5, putting |-> 5, marking |-> 5, admit |-> 6, starting |-> 7,
   calling |-> 4, failing |-> 5, backoff |-> 6, done |-> 8, raised |-> 8]

PastWalk == {"admit"} \cup Executing \cup Over

BatchRank(b) ==
  IF Batch[b] < batch THEN 4 ELSE IF Batch[b] = batch THEN MainPlace[pc] ELSE 0

TaskRank(a) ==
  ThreadPlace[phase[a]] + IF phase[a] \in Executing THEN 4 * attempts[a]
                          ELSE IF phase[a] \in Over THEN 4 * MaxAttempts[a] ELSE 0

VisitRank(a, b) ==
  IF phase[a] \in PastWalk \/ b \in visited[a] THEN 3
  ELSE IF phase[a] = "marking" /\ target = b THEN 2
  ELSE IF phase[a] = "putting" /\ target = b THEN 1 ELSE 0

Rank(a, b) ==
  IF a = None THEN IF b = None THEN 0 ELSE BatchRank(b)
  ELSE IF b = None THEN TaskRank(a) ELSE VisitRank(a, b)

Highest(a, b) ==
  IF a = None THEN 4 ELSE IF b = None THEN 4 * MaxAttempts[a] + 8 ELSE 3

(***************************************************************************)
(* The milestones of a run, and those that it has passed.                  *)
(***************************************************************************)
Counter    == Task \cup {None}
Milestones == UNION {{c} \X (1 .. Highest(c[1], c[2])) : c \in Counter \X Counter}
Passed     == {m \in Milestones : m[2] <= Rank(m[1][1], m[1][2])}

(***************************************************************************)
(* The places as numbers.                                                  *)
(***************************************************************************)
LEMMA Places ==
  /\ MainPlace["created"] = 0 /\ MainPlace["dispatch"] = 1 /\ MainPlace["waiting"] = 2
  /\ MainPlace["finalize"] = 3 /\ MainPlace["ended"] = 4 /\ MainPlace["raised"] = 4
  /\ ThreadPlace["idle"] = 0 /\ ThreadPlace["queued"] = 1 /\ ThreadPlace["creating"] = 2
  /\ ThreadPlace["fetching"] = 3 /\ ThreadPlace["scanning"] = 4
  /\ ThreadPlace["walking"] = 5 /\ ThreadPlace["putting"] = 5 /\ ThreadPlace["marking"] = 5
  /\ ThreadPlace["admit"] = 6 /\ ThreadPlace["starting"] = 7
  /\ ThreadPlace["calling"] = 4 /\ ThreadPlace["failing"] = 5 /\ ThreadPlace["backoff"] = 6
  /\ ThreadPlace["done"] = 8 /\ ThreadPlace["raised"] = 8
  BY DEF MainPlace, ThreadPlace

(***************************************************************************)
(* The other threads are where they were: what a thread inserts or resets  *)
(* is nothing that another has counted.                                    *)
(***************************************************************************)
LEMMA OthersKeepRank ==
  ASSUME IInv, NEW t \in Task, Thread(t), NEW a \in Task, a # t
  PROVE  /\ TaskRank(a)' = TaskRank(a)
         /\ \A b \in Task : VisitRank(a, b)' = VisitRank(a, b)
<1>t. TypeOK /\ LockedVisit
  BY DEF IInv
<1>1. UNCHANGED <<phase[a], visited[a]>>
  BY OwnWalkOnly
<1>2. phase[a] \in Executing => attempts'[a] = attempts[a]
  <2>1. CASE Put(t)
    <3>1. target # a \/ phase[a] \notin Executing
      BY <2>1, <1>t DEF Put, LockedVisit, Executing
    <3>2. target \in Task
      BY <2>1, <1>t DEF Put, LockedVisit, Visiting, TypeOK
    <3> QED
      BY <2>1, <3>1, <3>2, <1>t DEF Put, TypeOK
  <2>2. CASE ~ Put(t)
    BY <2>2, <1>t DEF TypeOK, Thread, Enter, Insert, Fetch, ScanFindsFailure,
     ScanClean, Look, Mark, WalkDone, Admit, BeginAttempt, CallSucceeds,
     CallFails, CallInterrupted, Retry, Resume, GiveUp
  <2> QED
    BY <2>1, <2>2
<1>3. phase[a] \in Visiting => target' = target
  <2>1. SUFFICES ASSUME phase[a] \in Visiting PROVE target' = target
    OBVIOUS
  <2>2. lock = a /\ a # None
    BY <2>1, <1>t, TaskAssumption DEF LockedVisit
  <2>3. phase[t] \notin Visiting
    BY <2>2, <1>t DEF LockedVisit
  <2> QED
    BY <2>2, <2>3 DEF Thread, Enter, Insert, Fetch, ScanFindsFailure,
     ScanClean, Look, Put, Mark, WalkDone, Admit, BeginAttempt, CallSucceeds,
     CallFails, CallInterrupted, Retry, Resume, GiveUp, Visiting, walk
<1> QED
  BY <1>1, <1>2, <1>3 DEF TaskRank, VisitRank, Visiting

(***************************************************************************)
(* A thread that takes a step, even in vain, gets on: to a later place, to *)
(* the next attempt, or with a visit that it has not made.                 *)
(***************************************************************************)
LEMMA OwnRankGrows ==
  ASSUME IInv, NEW t \in Task, Thread(t)
  PROVE  /\ TaskRank(t) <= TaskRank(t)'
         /\ \A b \in Task : VisitRank(t, b) <= VisitRank(t, b)'
         /\ \/ TaskRank(t) < TaskRank(t)'
            \/ \E b \in Task : VisitRank(t, b) < VisitRank(t, b)'
<1> DEFINE Visits(before, after) ==
             \A b \in Task : VisitRank(t, b) = before /\ VisitRank(t, b)' = after
<1> USE Places, ParameterAssumption
<1>t. /\ TypeOK /\ LockedVisit /\ WalkIsDoomed /\ NothingTwice
      /\ attempts[t] \in 0 .. MaxAttempts[t] /\ MaxAttempts[t] \in Nat
  BY DEF IInv, StateFitsPhase, Fits, TypeOK
<1>m. ASSUME NEW p \in Phase, phase' = [phase EXCEPT ![t] = p] PROVE phase'[t] = p
  BY <1>t, <1>m DEF TypeOK
<1>v. \A b \in Task : VisitRank(t, b) \in 0 .. 3
  BY DEF VisitRank
<1>1. CASE Enter(t) \/ Insert(t) \/ Fetch(t) \/ ScanFindsFailure(t) \/ ScanClean(t)
  <2>1. visited[t] = {} /\ visited' = visited
    BY <1>1, <1>t DEF WalkIsDoomed, Walking, Enter, Insert, Fetch, ScanFindsFailure, ScanClean, walk
  <2>2. \/ phase[t] = "queued" /\ phase'[t] \in {"creating", "fetching"}
        \/ phase[t] = "creating" /\ phase'[t] = "fetching"
        \/ phase[t] = "fetching" /\ phase'[t] \in {"scanning", "done"}
        \/ phase[t] = "scanning" /\ phase'[t] \in {"walking", "admit"}
    BY <1>1, <1>t DEF Enter, Insert, Fetch, ScanFindsFailure, ScanClean, Goto, TypeOK
  <2>3. \A b \in Task : VisitRank(t, b) = 0 /\ VisitRank(t, b)' \in {0, 3}
    BY <2>1, <2>2 DEF VisitRank, PastWalk, Executing, Over
  <2>4. TaskRank(t) < TaskRank(t)'
    BY <2>2, <1>t DEF TaskRank, Executing, Over
  <2>5. TaskRank(t) \in Int /\ TaskRank(t)' \in Int
    BY <2>2, <1>t DEF TaskRank, Executing, Over
  <2> QED
    BY <2>3, <2>4, <2>5
<1>2. ASSUME NEW d \in Task, Look(t, d)
      PROVE  /\ TaskRank(t) <= TaskRank(t)'
             /\ \A b \in Task : VisitRank(t, b) <= VisitRank(t, b)'
             /\ VisitRank(t, d) < VisitRank(t, d)'
  <2>1. /\ phase[t] = "walking" /\ phase'[t] \in {"putting", "marking"}
        /\ visited' = visited /\ target' = d /\ d \notin visited[t]
    BY <1>2, <1>t DEF Look, Goto, TypeOK, NothingTwice
  <2>2. TaskRank(t) = 5 /\ TaskRank(t)' = 5
    BY <2>1 DEF TaskRank, Executing, Over
  <2>3. \A b \in Task : IF b \in visited[t] THEN VisitRank(t, b) = 3 /\ VisitRank(t, b)' = 3
                                            ELSE VisitRank(t, b) = 0
    BY <2>1 DEF VisitRank, PastWalk, Executing, Over
  <2>4. \A b \in Task : VisitRank(t, b)' \in 0 .. 3
    BY DEF VisitRank
  <2>5. VisitRank(t, d)' \in {1, 2}
    BY <2>1 DEF VisitRank, PastWalk, Executing, Over
  <2> QED
    BY <2>1, <2>2, <2>3, <2>4, <2>5
<1>3. CASE Put(t) \/ Mark(t)
  <2>1. PICK d \in Task : d = target /\ d \notin visited[t]
    BY <1>3, <1>t DEF Put, Mark, LockedVisit, Visiting, NothingTwice, TypeOK
  <2>2. \/ phase[t] = "putting" /\ phase'[t] = "marking" /\ visited' = visited /\ target' = d
        \/ phase[t] = "marking" /\ phase'[t] = "walking" /\ visited'[t] = visited[t] \cup {d}
    BY <1>3, <2>1, <1>t DEF Put, Mark, Goto, TypeOK, walk
  <2>3. TaskRank(t) = 5 /\ TaskRank(t)' = 5
    BY <2>2 DEF TaskRank, Executing, Over
  <2>4. \A b \in Task : b # d =>
           VisitRank(t, b) = (IF b \in visited[t] THEN 3 ELSE 0) /\ VisitRank(t, b)' = VisitRank(t, b)
    BY <2>1, <2>2 DEF VisitRank, PastWalk, Executing, Over
  <2>5. \/ VisitRank(t, d) = 1 /\ VisitRank(t, d)' = 2
        \/ VisitRank(t, d) = 2 /\ VisitRank(t, d)' = 3
    BY <2>1, <2>2 DEF VisitRank, PastWalk, Executing, Over
  <2> QED
    BY <2>3, <2>4, <2>5, <1>v
<1>4. ASSUME phase[t] \in {"walking"} \cup PastWalk, phase'[t] \in PastWalk,
             TaskRank(t) \in Int, TaskRank(t)' \in Int, TaskRank(t) < TaskRank(t)'
      PROVE  /\ TaskRank(t) <= TaskRank(t)'
             /\ \A b \in Task : VisitRank(t, b) <= VisitRank(t, b)'
  <2>1. \A b \in Task : VisitRank(t, b)' = 3
    BY <1>4 DEF VisitRank
  <2> QED
    BY <1>4, <1>v, <2>1
<1>5. CASE WalkDone(t) \/ Admit(t)
  <2>1. /\ \/ phase[t] = "walking" /\ phase'[t] = "admit"
           \/ phase[t] = "admit" /\ phase'[t] \in {"starting", "done"}
        /\ attempts'[t] \in Nat
    BY <1>5, <1>t DEF WalkDone, Admit, Goto, TypeOK, walk
  <2>2. /\ TaskRank(t) \in Int /\ TaskRank(t)' \in Int /\ TaskRank(t) < TaskRank(t)'
        /\ phase[t] \in {"walking"} \cup PastWalk /\ phase'[t] \in PastWalk
    BY <2>1, <1>t DEF TaskRank, PastWalk, Executing, Over
  <2> QED
    BY <2>2, <1>4
<1>6. CASE BeginAttempt(t)
  <2>1. /\ phase[t] = "starting" /\ phase'[t] \in {"calling", "raised"}
        /\ attempts'[t] = attempts[t] + 1
    BY <1>6, <1>t DEF BeginAttempt, AfterHook, Goto, TypeOK, walk
  <2>2. /\ TaskRank(t) \in Int /\ TaskRank(t)' \in Int /\ TaskRank(t) < TaskRank(t)'
        /\ phase[t] \in {"walking"} \cup PastWalk /\ phase'[t] \in PastWalk
    BY <2>1, <1>t DEF TaskRank, PastWalk, Executing, Over
  <2> QED
    BY <2>2, <1>4
<1>7. CASE \/ CallSucceeds(t) \/ CallFails(t) \/ CallInterrupted(t)
           \/ Retry(t) \/ Resume(t) \/ GiveUp(t)
  <2>1. attempts' = attempts
    BY <1>7 DEF CallSucceeds, CallFails, CallInterrupted, Retry, Resume, GiveUp
  <2>2. \/ phase[t] = "calling" /\ phase'[t] \in {"done", "failing", "raised"}
        \/ phase[t] = "failing" /\ phase'[t] \in {"backoff", "done", "raised"}
        \/ phase[t] = "backoff" /\ phase'[t] \in {"starting", "raised"}
    BY <1>7, <1>t DEF CallSucceeds, CallFails, CallInterrupted, Retry, Resume, GiveUp,
       Move, AfterHook, Goto, TypeOK
  <2>3. /\ TaskRank(t) \in Int /\ TaskRank(t)' \in Int /\ TaskRank(t) < TaskRank(t)'
        /\ phase[t] \in {"walking"} \cup PastWalk /\ phase'[t] \in PastWalk
    BY <2>1, <2>2, <1>t DEF TaskRank, PastWalk, Executing, Over
  <2> QED
    BY <2>3, <1>4
<1> QED
  <2>1. ASSUME NEW d \in Task, Look(t, d)
        PROVE  \E b \in Task : VisitRank(t, b) < VisitRank(t, b)'
    BY <1>2, <2>1
  <2> QED
    BY <1>1, <1>2, <2>1, <1>3, <1>5, <1>6, <1>7 DEF Thread

(***************************************************************************)
(* The steps of run() get a batch on, or the run from its last one to its  *)
(* end, and take nothing from the tasks.                                   *)
(***************************************************************************)
LEMMA MainRankGrows ==
  ASSUME IInv, Main
  PROVE  /\ \A b \in Task : BatchRank(b) <= BatchRank(b)'
         /\ \E b \in Task : BatchRank(b) < BatchRank(b)'
         /\ \A a \in Task : TaskRank(a) <= TaskRank(a)'
         /\ \A a, b \in Task : VisitRank(a, b) <= VisitRank(a, b)'
<1> USE Places, ParameterAssumption, BatchAssumption
<1>t. TypeOK /\ Pipeline /\ NothingTwice
  BY DEF IInv
<1>1. /\ UNCHANGED <<attempts, visited, target>>
      /\ \A a \in Task : \/ phase'[a] = phase[a]
                         \/ phase[a] = "idle" /\ phase'[a] = "queued"
  BY <1>t DEF Main, StartRun, Dispatch, Join, Finalize, Members, Pipeline, TypeOK, walk
<1>2. \A a \in Task : TaskRank(a) <= TaskRank(a)'
  <2>1. ASSUME NEW a \in Task PROVE TaskRank(a) <= TaskRank(a)'
    <3>1. TaskRank(a) \in Nat
      BY <1>t DEF TaskRank, TypeOK, Phase, Executing, Over
    <3>2. CASE phase'[a] = phase[a]
      <4>1. TaskRank(a)' = TaskRank(a)
        BY <1>1, <3>2 DEF TaskRank
      <4> QED
        BY <3>1, <4>1
    <3>3. CASE phase[a] = "idle" /\ phase'[a] = "queued"
      BY <3>3 DEF TaskRank, Executing, Over
    <3> QED
      BY <1>1, <3>2, <3>3
  <2> QED
    BY <2>1
<1>3. \A a, b \in Task : VisitRank(a, b) <= VisitRank(a, b)'
  <2>1. ASSUME NEW a \in Task, NEW b \in Task PROVE VisitRank(a, b) <= VisitRank(a, b)'
    <3>1. VisitRank(a, b) \in 0 .. 3
      BY DEF VisitRank
    <3>2. VisitRank(a, b)' = VisitRank(a, b)
      BY <1>1 DEF VisitRank, PastWalk, Executing, Over
    <3> QED
      BY <3>1, <3>2
  <2> QED
    BY <2>1
<1>4. /\ \A b \in Task : BatchRank(b) <= BatchRank(b)'
      /\ \E b \in Task : BatchRank(b) < BatchRank(b)'
  <2>1. PICK c \in Task : Batch[c] = batch
    BY <1>t DEF NothingTwice
  <2>2. CASE batch' = batch
    <3>1. \/ pc = "created" /\ pc' \in {"dispatch", "raised"}
          \/ pc = "dispatch" /\ pc' = "waiting"
          \/ pc = "waiting" /\ pc' \in {"finalize", "raised"}
          \/ pc = "finalize" /\ pc' \in {"ended", "raised"}
      BY <2>2, <1>t DEF Main, StartRun, Dispatch, Join, Finalize, AfterHook, TypeOK
    <3>2. MainPlace[pc] \in Nat /\ MainPlace[pc'] \in Nat /\ MainPlace[pc] < MainPlace[pc']
      BY <3>1
    <3> QED
      BY <2>1, <2>2, <3>2 DEF BatchRank
  <2>3. CASE batch' # batch
    <3>1. pc = "waiting" /\ pc' = "dispatch" /\ batch' = batch + 1
      BY <2>3 DEF Main, StartRun, Dispatch, Join, Finalize
    <3>2. \A b \in Task : \/ Batch[b] < batch /\ BatchRank(b) = 4 /\ BatchRank(b)' = 4
                          \/ Batch[b] = batch /\ BatchRank(b) = 2 /\ BatchRank(b)' = 4
                          \/ Batch[b] > batch /\ BatchRank(b) = 0 /\ BatchRank(b)' \in {0, 1}
      BY <3>1, <1>t DEF BatchRank, TypeOK
    <3> QED
      BY <2>1, <3>2
  <2> QED
    BY <2>2, <2>3
<1> QED
  BY <1>2, <1>3, <1>4

(***************************************************************************)
(* Every step but the stutter of a run that is over raises a rank, and     *)
(* lowers none.                                                            *)
(***************************************************************************)
LEMMA RanksGrow ==
  ASSUME IInv, Next, ~ UNCHANGED vars
  PROVE  /\ \A a, b \in Counter : Rank(a, b) <= Rank(a, b)'
         /\ \E a, b \in Counter : Rank(a, b) < Rank(a, b)'
<1>z. \A a \in Task : a # None
  BY TaskAssumption
<1>1. CASE Main
  <2>1. \A a, b \in Counter : Rank(a, b) <= Rank(a, b)'
    BY <1>1, MainRankGrows DEF Rank, Counter
  <2>2. PICK b \in Task : BatchRank(b) < BatchRank(b)'
    BY <1>1, MainRankGrows
  <2>3. Rank(None, b) < Rank(None, b)'
    BY <1>z, <2>2 DEF Rank
  <2> QED
    BY <2>1, <2>3 DEF Counter
<1>2. ASSUME NEW t \in Task, Thread(t)
      PROVE  /\ \A a, b \in Counter : Rank(a, b) <= Rank(a, b)'
             /\ \E a, b \in Counter : Rank(a, b) < Rank(a, b)'
  <2>1. \A b \in Task : BatchRank(b)' = BatchRank(b) /\ BatchRank(b) \in Nat
    BY <1>2, ThreadMoves, Places DEF BatchRank, IInv, TypeOK
  <2>2. \A a \in Task : TaskRank(a) \in Nat
    BY Places, ParameterAssumption DEF IInv, TaskRank, TypeOK, Phase, Executing, Over
  <2>3. \A a, b \in Task : VisitRank(a, b) \in Nat
    BY DEF VisitRank
  <2>4. \A a \in Task : /\ TaskRank(a) <= TaskRank(a)'
                        /\ \A b \in Task : VisitRank(a, b) <= VisitRank(a, b)'
    <3>1. ASSUME NEW a \in Task, a # t
          PROVE  /\ TaskRank(a) <= TaskRank(a)'
                 /\ \A b \in Task : VisitRank(a, b) <= VisitRank(a, b)'
      BY <1>2, <2>2, <2>3, <3>1, OthersKeepRank
    <3> QED
      BY <1>2, <3>1, OwnRankGrows
  <2>5. \A a, b \in Counter : Rank(a, b) <= Rank(a, b)'
    BY <2>1, <2>4 DEF Rank, Counter
  <2>6. CASE TaskRank(t) < TaskRank(t)'
    <3>1. Rank(t, None) < Rank(t, None)'
      BY <1>z, <2>6 DEF Rank
    <3> QED
      BY <2>5, <3>1 DEF Counter
  <2>7. CASE \E b \in Task : VisitRank(t, b) < VisitRank(t, b)'
    <3>1. PICK b \in Task : VisitRank(t, b) < VisitRank(t, b)'
      BY <2>7
    <3>2. Rank(t, b) < Rank(t, b)'
      BY <1>z, <3>1 DEF Rank
    <3> QED
      BY <2>5, <3>2 DEF Counter
  <2> QED
    BY <1>2, <2>6, <2>7, OwnRankGrows
<1> QED
  BY <1>1, <1>2 DEF Next, Finished

(***************************************************************************)
(* No rank is higher than its highest.                                     *)
(***************************************************************************)
RanksAreBounded ==
  \A a, b \in Counter : Highest(a, b) \in Nat /\ Rank(a, b) \in 0 .. Highest(a, b)

LEMMA RanksStayBounded == IInv => RanksAreBounded
<1> SUFFICES ASSUME IInv, NEW a \in Counter, NEW b \in Counter
             PROVE  Highest(a, b) \in Nat /\ Rank(a, b) \in 0 .. Highest(a, b)
  BY DEF RanksAreBounded
<1> USE Places, TaskAssumption, ParameterAssumption
<1>t. TypeOK /\ StateFitsPhase
  BY DEF IInv
<1>1. CASE a = None
  BY <1>1, <1>t DEF Rank, Highest, BatchRank, TypeOK, Counter
<1>2. CASE a \in Task /\ b = None
  <2>1. attempts[a] \in 0 .. MaxAttempts[a] /\ MaxAttempts[a] \in Nat
    BY <1>2, <1>t DEF TypeOK, StateFitsPhase, Fits
  <2>2. TaskRank(a) \in 0 .. (4 * MaxAttempts[a] + 8)
    BY <1>2, <2>1, <1>t DEF TaskRank, TypeOK, Phase, Executing, Over
  <2> QED
    BY <1>2, <2>1, <2>2 DEF Rank, Highest
<1>3. CASE a \in Task /\ b \in Task
  BY <1>3 DEF Rank, Highest, VisitRank
<1> QED
  BY <1>1, <1>2, <1>3 DEF Counter

(***************************************************************************)
(* There are finitely many milestones.                                     *)
(***************************************************************************)
LEMMA MilestonesAreFinite == IsFiniteSet(Milestones)
<1> DEFINE Pairs == Counter \X Counter
           row == [c \in Pairs |-> {c} \X (1 .. Highest(c[1], c[2]))]
           rows == {row[c] : c \in Pairs}
<1>1. IsFiniteSet(Counter)
  BY TaskAssumption, FS_AddElement DEF Counter
<1>2. IsFiniteSet(Pairs)
  BY <1>1, FS_Product
<1>3. ASSUME NEW c \in Pairs PROVE IsFiniteSet(row[c])
  <2>1. Highest(c[1], c[2]) \in Nat
    <3>1. PICK a \in Counter, b \in Counter : c = <<a, b>>
      OBVIOUS
    <3>2. Highest(a, b) \in Nat
      BY ParameterAssumption DEF Highest, Counter
    <3> QED
      BY <3>1, <3>2
  <2>2. IsFiniteSet(1 .. Highest(c[1], c[2])) /\ IsFiniteSet({c})
    <3>1. Highest(c[1], c[2]) \in Int /\ 1 \in Int
      BY <2>1
    <3> QED
      BY <3>1, FS_Interval, FS_Singleton
  <2>3. IsFiniteSet({c} \X (1 .. Highest(c[1], c[2])))
    BY <2>2, FS_Product
  <2> QED
    BY <2>3
<1>4. row \in Surjection(Pairs, rows)
  BY DEF Surjection
<1>5. IsFiniteSet(rows)
  <2> HIDE DEF Pairs, row, rows
  <2> QED
    BY <1>2, <1>4, FS_Surjection
<1>6. IsFiniteSet(UNION rows)
  <2>1. \A r \in rows : IsFiniteSet(r)
    BY <1>3
  <2> HIDE DEF Pairs, row, rows
  <2> QED
    BY <1>5, <2>1, FS_UNION
<1>7. UNION rows = Milestones
  BY DEF Milestones
<1> QED
  BY <1>6, <1>7

(***************************************************************************)
(* What has been passed stays passed, and every step passes something.     *)
(***************************************************************************)
Progress == Cardinality(Passed)

LEMMA MilestonesArePassed ==
  ASSUME IInv, RanksAreBounded, RanksAreBounded', Next, ~ UNCHANGED vars
  PROVE  Progress < Progress'
<1>1. Passed \subseteq Passed'
  <2>1. SUFFICES ASSUME NEW m \in Milestones, m[2] <= Rank(m[1][1], m[1][2])
                 PROVE  m[2] <= Rank(m[1][1], m[1][2])'
    BY DEF Passed
  <2>2. m[2] \in Int /\ m[1][1] \in Counter /\ m[1][2] \in Counter
    BY DEF Milestones
  <2>3. PICK a \in Counter, b \in Counter : a = m[1][1] /\ b = m[1][2]
    BY <2>2
  <2>4. Rank(a, b) \in Int /\ Rank(a, b)' \in Int /\ Rank(a, b) <= Rank(a, b)'
    BY RanksGrow DEF RanksAreBounded
  <2> QED
    BY <2>1, <2>2, <2>3, <2>4
<1>2. Passed # Passed'
  <2>1. PICK a \in Counter, b \in Counter : Rank(a, b) < Rank(a, b)'
    BY RanksGrow
  <2>2. PICK k \in Int : k = Rank(a, b)' /\ k \in 1 .. Highest(a, b) /\ ~ (k <= Rank(a, b))
    BY <2>1 DEF RanksAreBounded
  <2>3. <<<<a, b>>, k>> \in Milestones
    BY <2>2 DEF Milestones
  <2>4. <<<<a, b>>, k>> \in Passed' /\ <<<<a, b>>, k>> \notin Passed
    BY <2>2, <2>3 DEF Passed
  <2> QED
    BY <2>4
<1>3. IsFiniteSet(Passed') /\ IsFiniteSet(Passed)
  BY MilestonesAreFinite, FS_Subset DEF Passed
<1>4. /\ Cardinality(Passed) \in Nat /\ Cardinality(Passed') \in Nat
      /\ Cardinality(Passed) <= Cardinality(Passed')
      /\ Cardinality(Passed) # Cardinality(Passed')
  BY <1>1, <1>2, <1>3, FS_Subset, FS_CardinalityType
<1> QED
  BY <1>4 DEF Progress

(***************************************************************************)
(* A run takes a bounded number of steps, whatever its callables and hooks *)
(* do: there is no step of a thread or of run() that does not pass one of  *)
(* finitely many milestones, at most one per attempt and phase, batch and  *)
(* visit (engine.py 180-456). A retry, a walk that another has been over,  *)
(* a record that is inserted twice: none of them goes round in circles.    *)
(***************************************************************************)
THEOREM RunsAreBounded ==
  Spec => /\ [](Progress \in 0 .. Cardinality(Milestones))
          /\ [][Progress < Progress']_vars
<1>1. Progress \in 0 .. Cardinality(Milestones)
  BY MilestonesAreFinite, FS_Subset, FS_CardinalityType DEF Passed, Progress
<1>2. IInv /\ RanksAreBounded /\ RanksAreBounded' /\ [Next]_vars => [Progress < Progress']_vars
  BY MilestonesArePassed
<1> QED
  BY EngineInvariance, RanksStayBounded, <1>1, <1>2, PTL DEF Spec
-----------------------------------------------------------------------------
(***************************************************************************)
(* What the guards of a thread's next action ask for, and those of run().  *)
(***************************************************************************)
ThreadCanStep(t) ==
  \/ /\ phase[t] = "queued" /\ Cardinality(Busy) < Workers
     /\ \A u \in Task : phase[u] = "queued" => t <= u
  \/ phase[t] \in {"creating", "fetching", "scanning", "admit", "backoff"}
  \/ phase[t] \in Visiting
  \/ phase[t] = "walking" /\ (todo[t] = {} \/ lock = None)
  \/ phase[t] \in {"starting", "calling", "failing"} /\ lock = None
  \/ phase[t] = "calling" /\ Interruptible

MainCanStep ==
  \/ pc \in {"created", "dispatch", "finalize"}
  \/ pc = "waiting" /\ \A t \in Members : phase[t] \in Over

(***************************************************************************)
(* While a run is not over, its lock and its pool let somebody go on.      *)
(***************************************************************************)
SomebodyGoesOn ==
  pc \in {"ended", "raised"} \/ MainCanStep \/ \E t \in Task : ThreadCanStep(t)

LEMMA NobodyIsStuck == IInv => SomebodyGoesOn
<1> SUFFICES ASSUME IInv, pc = "waiting", NEW u \in Members, phase[u] \notin Over
             PROVE  \E t \in Task : ThreadCanStep(t)
  BY DEF SomebodyGoesOn, MainCanStep, IInv, TypeOK
<1> USE TaskAssumption, ParameterAssumption
<1>t. TypeOK /\ LockedVisit /\ Pipeline
  BY DEF IInv
<1>1. CASE lock # None
  BY <1>1, <1>t DEF TypeOK, LockedVisit, ThreadCanStep
<1>2. ASSUME lock = None, NEW b \in Busy
      PROVE  \E t \in Task : ThreadCanStep(t)
  BY <1>2, <1>t DEF Busy, Over, ThreadCanStep, TypeOK, Phase, Visiting
<1>3. CASE Busy = {}
  <2> DEFINE queue == {t \in Task : phase[t] = "queued"}
  <2>1. u \in queue
    BY <1>3, <1>t DEF Busy, Over, Members, Pipeline
  <2>2. queue \in SUBSET Nat /\ IsFiniteSet(queue)
    BY FS_Subset
  <2>3. PICK t \in queue : \A y \in queue : t <= y
    <3> HIDE DEF queue
    <3> QED
      <4>1. Graph!IsFiniteSet(queue)
        BY <2>2 DEF IsFiniteSet, Graph!IsFiniteSet
      <4> QED
        BY <2>1, <2>2, <4>1, Graph!LeastIsMember
  <2>4. Cardinality(Busy) < Workers
    <3>1. IsFiniteSet(Members) /\ Cardinality(Members) \in Nat /\ Members # {}
      BY FS_Subset, FS_CardinalityType DEF Members
    <3>2. Cardinality(Members) # 0 /\ Cardinality(Busy) = 0
      BY <1>3, <3>1, FS_EmptySet
    <3> QED
      BY <3>1, <3>2 DEF Workers
  <2> QED
    BY <2>3, <2>4 DEF ThreadCanStep
<1> QED
  BY <1>1, <1>2, <1>3

(***************************************************************************)
(* A run never hangs in its own lock or pool: a thread that waits for the  *)
(* lock waits for one that can go on, and a task that is queued for one    *)
(* that is at work or for nobody (engine.py 209-224, 413-438).             *)
(***************************************************************************)
THEOREM RunsNeverHang == Spec => []SomebodyGoesOn
  BY EngineInvariance, NobodyIsStuck, PTL
-----------------------------------------------------------------------------
(***************************************************************************)
(* What run() leaves to be stored is the life of a run as RunStore has it  *)
(* (LifeAssumption): at work until it returns, and then ended, with every  *)
(* record in a state that compute_run_metrics has a counter for            *)
(* (engine.py 226-229, observability.py 87-109).                           *)
(***************************************************************************)
LeavesALife ==
  IF pc = "ended"
    THEN /\ wfState \in {"success", "failed"}
         /\ Recorded = Task
         /\ \A t \in Task : state[t] \in TaskState \ {"running", "retrying"}
    ELSE pc = "raised" \/ wfState \in {"pending", "running"}

THEOREM RunsLeaveLives == Spec => []LeavesALife
<1>1. IInv => LeavesALife
  <2> SUFFICES ASSUME IInv PROVE LeavesALife
    OBVIOUS
  <2>1. TypeOK /\ Pipeline /\ Concluded /\ StateFitsPhase
    BY DEF IInv
  <2>2. pc = "ended" => \A t \in Task : state[t] \in {"success", "failed", "upstream_failed"}
    BY <2>1 DEF Pipeline, StateFitsPhase, Fits
  <2> QED
    BY <2>1, <2>2 DEF LeavesALife, TypeOK, Pipeline, Concluded, Recorded, TaskState
<1> QED
  BY EngineInvariance, <1>1, PTL
=============================================================================
