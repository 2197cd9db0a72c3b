------------------------------ MODULE RunStore ------------------------------
(***************************************************************************)
(* The run store (persistence.py): processes that save, load, list and     *)
(* cancel runs in one SQLite file, each with one connection that its       *)
(* threads share under a lock, and each of which may die at any point.     *)
(*                                                                         *)
(* A run is what its two tables hold of it: the state of its row in        *)
(* workflow_runs and the records of its rows in task_runs.                 *)
(***************************************************************************)
EXTENDS States, Naturals, Sequences, FiniteSets

CONSTANTS
  Process,    \* each holds a RunStore
  NoProcess,
  Thread,     \* what calls it
  NoThread,
  ProcessOf,  \* the process of each thread
  Run,        \* run ids, in the order in which SQLite compares them
  StartedAt,  \* started_at of each run; 0 is NULL
  Owner,      \* the thread that executes a run and saves it
  Uses,       \* what else each thread calls the store for
  Task,
  Life        \* what the WorkflowRun is at each point where Owner may save it

Records   == UNION {[S -> TaskState] : S \in SUBSET Task}
RunObject == [state : WorkflowState, records : Records]
Terminal  == {"success", "failed", "cancelled"}

ASSUME StoreAssumption ==
  /\ NoProcess \notin Process /\ NoThread \notin Thread
  /\ ProcessOf \in [Thread -> Process]
  /\ Run \subseteq Nat \ {0}
  /\ StartedAt \in [Run -> Nat]
  /\ Owner \in [Run -> Thread]
  /\ Uses \in [Thread -> SUBSET {"show", "cancel", "status"}]

(***************************************************************************)
(* The counts of compute_run_metrics have no entry for a record that is    *)
(* running or retrying: it raises KeyError.                                *)
(***************************************************************************)
Counted     == TaskState \ {"running", "retrying"}
Measured(v) == \A t \in DOMAIN v.records : v.records[t] \in Counted

(***************************************************************************)
(* A run is at work until the last point of its life, where it is as the   *)
(* engine leaves it: ended, and every record final.                        *)
(***************************************************************************)
ASSUME LifeAssumption ==
  /\ Life \in [Run -> Seq(RunObject)]
  /\ \A r \in Run :
       /\ Life[r] # <<>>
       /\ \A i \in DOMAIN Life[r] :
            IF i < Len(Life[r])
              THEN Life[r][i].state \in {"pending", "running"}
              ELSE Life[r][i].state \in {"success", "failed"} /\ Measured(Life[r][i])

VARIABLES
  db,         \* what is committed: the rows of workflow_runs and of task_runs
  writer,     \* the process whose connection has a transaction open
  draft,      \* what that connection sees; equal to db when there is none
  lock,       \* the thread that holds the _lock of each process
  pc,         \* where each thread is in the store
  op,         \* what it was called for
  run,        \* the run id in question, 0 when there is none
  val,        \* the WorkflowRun in its hands
  found,      \* the workflow state that its load returned
  age,        \* the point of its life each run is at; 0 when its process died
  interfered  \* history: loads between whose statements another process committed

calls  == <<pc, op, run, val, found>>
tables == <<db, writer, draft>>
vars   == <<db, writer, draft, lock, pc, op, run, val, found, age, interfered>>

NoRows == [t \in {} |-> "pending"]
NoRun  == [state |-> "none", records |-> NoRows]

Init ==
  /\ db = [rows |-> [r \in Run |-> "none"], tasks |-> [r \in Run |-> NoRows]]
  /\ writer = NoProcess
  /\ draft = db
  /\ lock = [p \in Process |-> NoThread]
  /\ pc = [u \in Thread |-> "idle"]
  /\ op = [u \in Thread |-> "none"]
  /\ run = [u \in Thread |-> 0]
  /\ val = [u \in Thread |-> NoRun]
  /\ found = [u \in Thread |-> "none"]
  /\ age = [r \in Run |-> 1]
  /\ interfered = {}
-----------------------------------------------------------------------------
At(u, here) == pc[u] = here
Go(u, next) == pc' = [pc EXCEPT ![u] = next]

Free(u) == lock[ProcessOf[u]] = NoThread
Take(u) == Free(u) /\ lock' = [lock EXCEPT ![ProcessOf[u]] = u]
Drop(u) == lock' = [lock EXCEPT ![ProcessOf[u]] = NoThread]

(***************************************************************************)
(* A connection sees its own transaction before it is committed, whichever *)
(* of its threads asks; the others see what is committed.                  *)
(***************************************************************************)
View(u) == IF writer = ProcessOf[u] THEN draft ELSE db

(***************************************************************************)
(* The call of u returns or raises, and its locals are gone; hit are the   *)
(* loads that it has interfered with.                                      *)
(***************************************************************************)
FinishAndHit(u, hit) ==
  /\ Go(u, "idle")
  /\ op' = [op EXCEPT ![u] = "none"]
  /\ run' = [run EXCEPT ![u] = 0]
  /\ val' = [val EXCEPT ![u] = NoRun]
  /\ found' = [found EXCEPT ![u] = "none"]
  /\ interfered' = (interfered \ {u}) \cup hit

Finish(u) == FinishAndHit(u, {})
-----------------------------------------------------------------------------
(***************************************************************************)
(* The engine takes a run on, while its thread is not in the store.        *)
(***************************************************************************)
Work(r) ==
  /\ At(Owner[r], "idle")
  /\ age[r] \in 1 .. Len(Life[r]) - 1
  /\ age' = [age EXCEPT ![r] = @ + 1]
  /\ UNCHANGED <<tables, lock, calls, interfered>>

(***************************************************************************)
(* save_run: the lock, then one transaction of an INSERT OR REPLACE of the *)
(* row, a DELETE of the task rows and an INSERT for each record.           *)
(***************************************************************************)
CallSave(r) ==
  LET u == Owner[r]
  IN  /\ At(u, "idle")
      /\ age[r] # 0
      /\ Go(u, "saving")
      /\ op' = [op EXCEPT ![u] = "save"]
      /\ run' = [run EXCEPT ![u] = r]
      /\ val' = [val EXCEPT ![u] = Life[r][age[r]]]
      /\ UNCHANGED <<tables, lock, found, age, interfered>>

EnterSave(u) ==
  /\ At(u, "saving")
  /\ Take(u)
  /\ Go(u, "inserting")
  /\ UNCHANGED <<tables, op, run, val, found, age, interfered>>

(***************************************************************************)
(* Wrong: the old row is deleted and committed first.                      *)
(***************************************************************************)
InsertRowDeleted(u) ==
  /\ At(u, "inserting")
  /\ writer = NoProcess
  /\ writer' = ProcessOf[u]
  /\ db' = [db EXCEPT !.rows[run[u]] = "none"]
  /\ draft' = [db EXCEPT !.rows[run[u]] = val[u].state]
  /\ Go(u, "replacing")
  /\ UNCHANGED <<lock, op, run, val, found, age, interfered>>

(***************************************************************************)
(* The transaction opens with its first statement, which waits for the     *)
(* transaction of another process to end.                                  *)
(***************************************************************************)
InsertRow(u) ==
  /\ At(u, "inserting")
  /\ writer = NoProcess
  /\ writer' = ProcessOf[u]
  /\ draft' = [db EXCEPT !.rows[run[u]] = val[u].state]
  /\ Go(u, "replacing")
  /\ UNCHANGED <<db, lock, op, run, val, found, age, interfered>>

(***************************************************************************)
(* Wrong: the statements are committed one by one.                         *)
(***************************************************************************)
ReplaceTasksCommitted(u) ==
  /\ At(u, "replacing")
  /\ draft' = [draft EXCEPT !.tasks[run[u]] = val[u].records]
  /\ db' = draft
  /\ Go(u, "committing")
  /\ UNCHANGED <<writer, lock, op, run, val, found, age, interfered>>

(***************************************************************************)
(* Wrong: task rows that are there already are kept.                       *)
(***************************************************************************)
ReplaceTasksKept(u) ==
  /\ At(u, "replacing")
  /\ draft' = IF draft.tasks[run[u]] = NoRows
                THEN [draft EXCEPT !.tasks[run[u]] = val[u].records] ELSE draft
  /\ Go(u, "committing")
  /\ UNCHANGED <<db, writer, lock, op, run, val, found, age, interfered>>

ReplaceTasks(u) ==
  /\ At(u, "replacing")
  /\ draft' = [draft EXCEPT !.tasks[run[u]] = val[u].records]
  /\ Go(u, "committing")
  /\ UNCHANGED <<db, writer, lock, op, run, val, found, age, interfered>>

(***************************************************************************)
(* The loads of other processes that are between their two statements.     *)
(***************************************************************************)
Between(r, p) ==
  {w \in Thread : At(w, "reading_tasks") /\ run[w] = r /\ ProcessOf[w] # p}

Commit(u) ==
  /\ At(u, "committing")
  /\ db' = draft
  /\ writer' = NoProcess
  /\ Drop(u)
  /\ FinishAndHit(u, Between(run[u], ProcessOf[u]))
  /\ UNCHANGED <<draft, age>>

(***************************************************************************)
(* Wrong: an error leaves the transaction open.                            *)
(***************************************************************************)
AbortOpen(u) ==
  /\ pc[u] \in {"inserting", "replacing", "committing", "reading_tasks"}
  /\ Drop(u)
  /\ Finish(u)
  /\ UNCHANGED <<tables, age>>

(***************************************************************************)
(* Wrong: an error leaves the lock taken.                                  *)
(***************************************************************************)
AbortLocked(u) ==
  /\ pc[u] \in {"inserting", "replacing", "committing", "reading_tasks"}
  /\ draft' = IF writer = ProcessOf[u] THEN db ELSE draft
  /\ writer' = IF writer = ProcessOf[u] THEN NoProcess ELSE writer
  /\ Finish(u)
  /\ UNCHANGED <<db, lock, age>>

(***************************************************************************)
(* A statement raises: the database stayed locked for too long, or the     *)
(* disk is full.  A transaction is rolled back, and the lock released.  (A *)
(* first SELECT that raises has the same effect as a second.)              *)
(***************************************************************************)
Abort(u) ==
  /\ pc[u] \in {"inserting", "replacing", "committing", "reading_tasks"}
  /\ draft' = IF writer = ProcessOf[u] THEN db ELSE draft
  /\ writer' = IF writer = ProcessOf[u] THEN NoProcess ELSE writer
  /\ Drop(u)
  /\ Finish(u)
  /\ UNCHANGED <<db, age>>
-----------------------------------------------------------------------------
(***************************************************************************)
(* load_run: two SELECTs under the lock, but in no transaction.            *)
(***************************************************************************)
CallLoad(u, what, r) ==
  /\ At(u, "idle")
  /\ what \in Uses[u]
  /\ Go(u, "reading_row")
  /\ op' = [op EXCEPT ![u] = what]
  /\ run' = [run EXCEPT ![u] = r]
  /\ UNCHANGED <<tables, lock, val, found, age, interfered>>

RowMissing(u) ==
  /\ At(u, "reading_row")
  /\ Free(u)
  /\ View(u).rows[run[u]] = "none"
  /\ IF op[u] = "cancel"
       THEN Finish(u)
       ELSE Go(u, "shown") /\ UNCHANGED <<op, run, val, found, interfered>>
  /\ UNCHANGED <<tables, lock, age>>

(***************************************************************************)
(* Wrong: the load does without the lock.                                  *)
(***************************************************************************)
ReadRowUnlocked(u) ==
  /\ At(u, "reading_row")
  /\ View(u).rows[run[u]] # "none"
  /\ val' = [val EXCEPT ![u].state = View(u).rows[run[u]]]
  /\ found' = [found EXCEPT ![u] = View(u).rows[run[u]]]
  /\ Go(u, "reading_tasks")
  /\ UNCHANGED <<tables, lock, op, run, age, interfered>>

ReadRow(u) ==
  /\ At(u, "reading_row")
  /\ Take(u)
  /\ View(u).rows[run[u]] # "none"
  /\ val' = [val EXCEPT ![u].state = View(u).rows[run[u]]]
  /\ found' = [found EXCEPT ![u] = View(u).rows[run[u]]]
  /\ Go(u, "reading_tasks")
  /\ UNCHANGED <<tables, op, run, age, interfered>>

(***************************************************************************)
(* Wrong: cancel_run does not look whether the run has ended.              *)
(***************************************************************************)
ReadTasksUnchecked(u) ==
  /\ At(u, "reading_tasks")
  /\ Drop(u)
  /\ val' = [val EXCEPT ![u].records = View(u).tasks[run[u]],
                        ![u].state = IF op[u] = "cancel" THEN "cancelled" ELSE @]
  /\ Go(u, IF op[u] = "cancel" THEN "saving" ELSE "shown")
  /\ UNCHANGED <<tables, op, run, found, age, interfered>>

(***************************************************************************)
(* cancel_run goes on to save what it loaded, with its state set straight  *)
(* to cancelled, unless the run had ended.                                 *)
(***************************************************************************)
ReadTasks(u) ==
  /\ At(u, "reading_tasks")
  /\ Drop(u)
  /\ LET records == View(u).tasks[run[u]]
     IN  CASE op[u] # "cancel" ->
                /\ Go(u, "shown")
                /\ val' = [val EXCEPT ![u].records = records]
                /\ UNCHANGED <<op, run, found, interfered>>
           [] op[u] = "cancel" /\ val[u].state \in Terminal -> Finish(u)
           [] op[u] = "cancel" /\ val[u].state \notin Terminal ->
                /\ Go(u, "saving")
                /\ val' = [val EXCEPT ![u] = [state |-> "cancelled", records |-> records]]
                /\ UNCHANGED <<op, run, found, interfered>>
  /\ UNCHANGED <<tables, age>>

Return(u) ==
  /\ At(u, "shown")
  /\ Finish(u)
  /\ UNCHANGED <<tables, lock, age>>

(***************************************************************************)
(* workflow status: the first of list_runs, then load_run of it.  One      *)
(* SELECT orders the runs by started_at, unstarted ones last, and by id.   *)
(***************************************************************************)
Listed(u) == {r \in Run : View(u).rows[r] # "none"}

Newer(r, s) == \/ StartedAt[r] > StartedAt[s]
               \/ StartedAt[r] = StartedAt[s] /\ r >= s

LatestRun(u) ==
  /\ At(u, "idle")
  /\ "status" \in Uses[u]
  /\ Free(u)
  /\ \E r \in Listed(u) :
       /\ \A s \in Listed(u) : Newer(r, s)
       /\ run' = [run EXCEPT ![u] = r]
  /\ op' = [op EXCEPT ![u] = "status"]
  /\ Go(u, "reading_row")
  /\ UNCHANGED <<tables, lock, val, found, age, interfered>>
-----------------------------------------------------------------------------
(***************************************************************************)
(* A process dies: SQLite rolls its transaction back, and nothing is left  *)
(* of the runs that it was executing but what was saved.  It may start     *)
(* again, on the same file.                                                *)
(***************************************************************************)
Crash(p) ==
  LET its(u) == ProcessOf[u] = p
  IN  /\ \E u \in Thread : its(u) /\ ~At(u, "idle")
      /\ writer' = IF writer = p THEN NoProcess ELSE writer
      /\ draft' = IF writer = p THEN db ELSE draft
      /\ lock' = [lock EXCEPT ![p] = NoThread]
      /\ pc' = [u \in Thread |-> IF its(u) THEN "idle" ELSE pc[u]]
      /\ op' = [u \in Thread |-> IF its(u) THEN "none" ELSE op[u]]
      /\ run' = [u \in Thread |-> IF its(u) THEN 0 ELSE run[u]]
      /\ val' = [u \in Thread |-> IF its(u) THEN NoRun ELSE val[u]]
      /\ found' = [u \in Thread |-> IF its(u) THEN "none" ELSE found[u]]
      /\ age' = [r \in Run |-> IF its(Owner[r]) THEN 0 ELSE age[r]]
      /\ interfered' = {u \in interfered : ~its(u)}
      /\ UNCHANGED db

Call(u) ==
  \/ \E r \in Run, what \in {"show", "cancel"} : CallLoad(u, what, r)
  \/ LatestRun(u)

Step(u) ==
  \/ EnterSave(u) \/ InsertRow(u) \/ ReplaceTasks(u) \/ Commit(u) \/ Abort(u)
  \/ RowMissing(u) \/ ReadRow(u) \/ ReadTasks(u) \/ Return(u)

Next ==
  \/ \E r \in Run : Work(r) \/ CallSave(r)
  \/ \E u \in Thread : Call(u) \/ Step(u)
  \/ \E p \in Process : Crash(p)

Spec == Init /\ [][Next]_vars

(***************************************************************************)
(* No thread stops for ever inside the store.                              *)
(***************************************************************************)
FairSpec == Spec /\ \A u \in Thread : WF_vars(Step(u))
-----------------------------------------------------------------------------
(***************************************************************************)
(* What a run can be as a whole: a point of its life, or one at which it   *)
(* was cancelled.                                                          *)
(***************************************************************************)
Points(r)    == {Life[r][i] : i \in DOMAIN Life[r]}
Cancelled(v) == [v EXCEPT !.state = "cancelled"]
Cancels(r)   == {Cancelled(v) : v \in Points(r)}

(***************************************************************************)
(* load_run "fully" reconstructs a run: what a caller is shown is one run  *)
(* as it was saved, never a row of one save with task rows of another,     *)
(* unless another process committed between the two SELECTs.  That a       *)
(* thread of the same process cannot is what the lock is for.              *)
(***************************************************************************)
LoadsAreWhole ==
  \A u \in Thread :
    At(u, "shown") /\ val[u] # NoRun /\ u \notin interfered =>
      val[u] \in Points(run[u]) \cup Cancels(run[u])

(***************************************************************************)
(* A stored run that has ended changes in two ways only, both races with   *)
(* the executing thread: a cancel commits what it loaded before the end,   *)
(* or the run ends, although it was cancelled, and says so.                *)
(***************************************************************************)
EndedRunsChangeByRaces ==
  [][\A r \in Run :
       db.rows[r] \in Terminal /\ db'.rows[r] # db.rows[r] =>
         \E u \in Thread :
           /\ At(u, "committing") /\ run[u] = r
           /\ \/ op[u] = "cancel" /\ found[u] # db.rows[r]
              \/ op[u] = "save" /\ db.rows[r] = "cancelled"]_vars

(***************************************************************************)
(* compute_run_metrics has a counter for every record of a run that is     *)
(* shown as ended, unless it was cancelled while it was at work, or torn.  *)
(***************************************************************************)
EndedRunsAreMeasured ==
  \A u \in Thread :
    At(u, "shown") /\ val[u].state \in {"success", "failed"} /\ u \notin interfered =>
      Measured(val[u])

(***************************************************************************)
(* What workflow status found in the list it also finds when it loads it:  *)
(* replacing a row never shows as its absence.                             *)
(***************************************************************************)
StatusFindsItsRun ==
  \A u \in Thread : At(u, "shown") /\ op[u] = "status" => val[u] # NoRun

(***************************************************************************)
(* A thread that took the lock of its process gives it back, whatever its  *)
(* statements raise and however long others keep the database.             *)
(***************************************************************************)
LockIsReleased ==
  \A p \in Process, u \in Thread : lock[p] = u ~> lock[p] # u
=============================================================================
