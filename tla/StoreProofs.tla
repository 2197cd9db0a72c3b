---------------------------- MODULE StoreProofs ----------------------------
(***************************************************************************)
(* Proofs about the run store, for any number of processes, threads, runs  *)
(* and tasks, and whatever the lives of the runs are.                      *)
(***************************************************************************)
EXTENDS StoreInvariant, TLAPS

(***************************************************************************)
(* The points of a life.                                                   *)
(***************************************************************************)
LEMMA LifeFacts ==
  ASSUME NEW r \in Run
  PROVE  /\ Len(Life[r]) \in Nat /\ Len(Life[r]) >= 1
         /\ DOMAIN Life[r] = 1 .. Len(Life[r])
         /\ \A i \in 1 .. Len(Life[r]) :
              /\ Life[r][i] \in RunObject
              /\ i < Len(Life[r]) => Life[r][i].state \in {"pending", "running"}
              /\ i = Len(Life[r]) => /\ Life[r][i].state \in {"success", "failed"}
                                     /\ Measured(Life[r][i])
<1>1. Life[r] \in Seq(RunObject) /\ Life[r] # <<>>
  BY LifeAssumption
<1>2. \A i \in DOMAIN Life[r] :
        IF i < Len(Life[r])
          THEN Life[r][i].state \in {"pending", "running"}
          ELSE Life[r][i].state \in {"success", "failed"} /\ Measured(Life[r][i])
  BY LifeAssumption
<1>3. Len(Life[r]) \in Nat /\ DOMAIN Life[r] = 1 .. Len(Life[r])
  BY <1>1
<1>4. Len(Life[r]) >= 1
  BY <1>1, <1>3
<1>5. \A i \in 1 .. Len(Life[r]) : Life[r][i] \in RunObject
  BY <1>1
<1> QED
  BY <1>2, <1>3, <1>4, <1>5

(***************************************************************************)
(* The parts of a run.                                                     *)
(***************************************************************************)
LEMMA RunParts ==
  /\ NoRows \in Records
  /\ \A v \in RunObject : /\ v.state \in WorkflowState /\ v.records \in Records
                         /\ v = [state |-> v.state, records |-> v.records]
<1>1. NoRows \in [{} -> TaskState]
  BY DEF NoRows
<1>2. {} \in SUBSET Task
  OBVIOUS
<1>3. NoRows \in Records
  BY <1>1, <1>2 DEF Records
<1> QED
  BY <1>3 DEF RunObject

(***************************************************************************)
(* What runs and cancelled runs are made of.                               *)
(***************************************************************************)
LEMMA WholeFacts ==
  ASSUME NEW r \in Run
  PROVE  /\ \A v \in Points(r) :
              v \in RunObject /\ v.state \in {"pending", "running", "success", "failed"}
         /\ \A v \in Cancels(r) : v \in RunObject /\ v.state = "cancelled"
         /\ \A v \in Whole(r) :
              [state |-> "cancelled", records |-> v.records] \in Cancels(r)
<1>1. \A v \in Points(r) :
        v \in RunObject /\ v.state \in {"pending", "running", "success", "failed"}
  BY LifeFacts DEF Points
<1>2. \A v \in Points(r) : Cancelled(v) = [state |-> "cancelled", records |-> v.records]
  BY <1>1 DEF Cancelled, RunObject
<1>3. \A v \in Cancels(r) : v \in RunObject /\ v.state = "cancelled"
  BY <1>1, <1>2 DEF Cancels, RunObject, WorkflowState
<1>4. \A v \in Points(r) : [state |-> "cancelled", records |-> v.records] \in Cancels(r)
  BY <1>2 DEF Cancels
<1>5. \A v \in Cancels(r) : \E w \in Points(r) : v = [state |-> "cancelled", records |-> w.records]
  BY <1>2 DEF Cancels
<1>6. \A v \in Cancels(r) : [state |-> "cancelled", records |-> v.records] \in Cancels(r)
  <2> SUFFICES ASSUME NEW v \in Cancels(r)
               PROVE  [state |-> "cancelled", records |-> v.records] \in Cancels(r)
    OBVIOUS
  <2>1. PICK w \in Points(r) : v = [state |-> "cancelled", records |-> w.records]
    BY <1>5
  <2>2. v.records = w.records
    BY <2>1
  <2> QED
    BY <1>4, <2>2
<1> QED
  BY <1>1, <1>3, <1>4, <1>6 DEF Whole

(***************************************************************************)
(* Who is saving has a run in its hands.                                   *)
(***************************************************************************)
LEMMA SavesARun ==
  ASSUME StoreInv, NEW u \in Thread, pc[u] \in Saving
  PROVE  /\ run[u] \in Run
         /\ val[u] \in Whole(run[u]) /\ val[u] \in RunObject
<1>1. run[u] \in Run
  <2>1. pc[u] # "idle"
    BY DEF Saving
  <2> QED
    BY <2>1 DEF StoreInv, StoreTypeOK, CallsTypeOK
<1>2. CASE op[u] = "save"
  <2>1. age[run[u]] \in 1 .. Len(Life[run[u]])
    BY <1>1, <1>2, LifeFacts DEF StoreInv, StoreTypeOK, AgesTypeOK, SaveInHand
  <2>2. val[u] = Life[run[u]][age[run[u]]]
    BY <1>2 DEF StoreInv, SaveInHand
  <2> QED
    BY <1>1, <2>1, <2>2, LifeFacts DEF Whole, Points
<1>3. CASE op[u] # "save"
  <2>1. val[u] \in Cancels(run[u])
    BY <1>3 DEF StoreInv, CancelInHand
  <2> QED
    BY <1>1, <2>1, WholeFacts DEF Whole
<1> QED
  BY <1>1, <1>2, <1>3

(***************************************************************************)
(* The ages stay within the lives.                                         *)
(***************************************************************************)
LEMMA AgesStep == StoreInv /\ [Next]_vars => AgesTypeOK'
<1> SUFFICES ASSUME StoreInv, [Next]_vars PROVE AgesTypeOK'
  OBVIOUS
<1>t. AgesTypeOK
  BY DEF StoreInv, StoreTypeOK
<1>l. \A r \in Run : Len(Life[r]) \in Nat /\ Len(Life[r]) >= 1
  BY LifeFacts
<1>1. ASSUME NEW r \in Run, Work(r) PROVE AgesTypeOK'
  <2>1. age[r] \in Nat /\ age[r] + 1 <= Len(Life[r]) /\ age' = [age EXCEPT ![r] = age[r] + 1]
    BY <1>1, <1>t, <1>l DEF Work, AgesTypeOK
  <2> QED
    BY <2>1, <1>t DEF AgesTypeOK
<1>2. ASSUME NEW p \in Process, Crash(p) PROVE AgesTypeOK'
  <2>1. \A r \in Run : age'[r] \in {0, age[r]}
    BY <1>2 DEF Crash
  <2>2. age' = [r \in Run |-> age'[r]]
    BY <1>2 DEF Crash
  <2>3. \A r \in Run : age'[r] \in Nat /\ age'[r] <= Len(Life[r])
    BY <2>1, <1>t, <1>l DEF AgesTypeOK
  <2> QED
    BY <2>2, <2>3 DEF AgesTypeOK
<1>3. CASE age' = age
  BY <1>3, <1>t DEF AgesTypeOK
<1> QED
  BY <1>1, <1>2, <1>3
  DEF Next, Call, Step, vars, CallSave, CallLoad, LatestRun, EnterSave, InsertRow,
      ReplaceTasks, Commit, Abort, RowMissing, ReadRow, ReadTasks, Return

(***************************************************************************)
(* The tables keep their types: what is written has those of a run.        *)
(***************************************************************************)
LEMMA TablesStep == StoreInv /\ [Next]_vars => TablesTypeOK'
<1> SUFFICES ASSUME StoreInv, [Next]_vars PROVE TablesTypeOK'
  OBVIOUS
<1> USE StoreAssumption
<1>t. TablesTypeOK /\ CallsTypeOK
  BY DEF StoreInv, StoreTypeOK
<1>1. ASSUME NEW u \in Thread, EnterSave(u) PROVE TablesTypeOK'
  BY <1>1, <1>t DEF EnterSave, Take, TablesTypeOK, tables
<1>2. ASSUME NEW u \in Thread, InsertRow(u) PROVE TablesTypeOK'
  <2>1. val[u].state \in WorkflowState
    BY <1>2, SavesARun DEF InsertRow, At, Saving, RunObject
  <2> QED
    BY <1>2, <1>t DEF InsertRow, TablesTypeOK, CallsTypeOK, Database
<1>3. ASSUME NEW u \in Thread, ReplaceTasks(u) PROVE TablesTypeOK'
  BY <1>3, <1>t DEF ReplaceTasks, TablesTypeOK, CallsTypeOK, Database
<1>4. ASSUME NEW u \in Thread, Commit(u) PROVE TablesTypeOK'
  BY <1>4, <1>t DEF Commit, Drop, TablesTypeOK
<1>5. ASSUME NEW u \in Thread, Abort(u) PROVE TablesTypeOK'
  BY <1>5, <1>t DEF Abort, Drop, TablesTypeOK
<1>6. ASSUME NEW u \in Thread, ReadRow(u) PROVE TablesTypeOK'
  BY <1>6, <1>t DEF ReadRow, Take, TablesTypeOK, tables
<1>7. ASSUME NEW u \in Thread, ReadTasks(u) PROVE TablesTypeOK'
  BY <1>7, <1>t DEF ReadTasks, Drop, TablesTypeOK, tables
<1>8. ASSUME NEW p \in Process, Crash(p) PROVE TablesTypeOK'
  BY <1>8, <1>t DEF Crash, TablesTypeOK
<1>9. CASE UNCHANGED <<tables, lock>>
  BY <1>9, <1>t DEF TablesTypeOK, tables
<1> QED
  BY <1>1, <1>2, <1>3, <1>4, <1>5, <1>6, <1>7, <1>8, <1>9
  DEF Next, Call, Step, vars, tables, Work, CallSave, CallLoad, LatestRun, RowMissing, Return

(***************************************************************************)
(* The locals of a call keep their types.                                  *)
(***************************************************************************)
LEMMA CallsStep == StoreInv /\ [Next]_vars => CallsTypeOK'
<1> SUFFICES ASSUME StoreInv, [Next]_vars PROVE CallsTypeOK'
  OBVIOUS
<1> USE StoreAssumption
<1> DEFINE Hand == [state : WorkflowState \cup {"none"}, records : Records]
<1>t. CallsTypeOK
  BY DEF StoreInv, StoreTypeOK
<1>n. NoRun \in Hand
  BY RunParts DEF NoRun
<1>w. \A u \in Thread, r \in Run : /\ View(u).rows[r] \in WorkflowState \cup {"none"}
                                /\ View(u).tasks[r] \in Records
  BY DEF View, StoreInv, StoreTypeOK, TablesTypeOK, Database
<1>1. CASE UNCHANGED <<calls, interfered>>
  BY <1>1, <1>t DEF CallsTypeOK, calls
<1>2. ASSUME NEW r \in Run, CallSave(r) PROVE CallsTypeOK'
  <2>1. age[r] \in 1 .. Len(Life[r])
    <3>1. age[r] \in Nat /\ age[r] <= Len(Life[r]) /\ age[r] # 0
      BY <1>2 DEF CallSave, StoreInv, StoreTypeOK, AgesTypeOK
    <3> QED
      BY <3>1, LifeFacts
  <2>2. Life[r][age[r]] \in Hand
    BY LifeFacts, <2>1 DEF RunObject
  <2> QED
    BY <1>2, <1>t, <2>2 DEF CallSave, At, Go, CallsTypeOK, Saving
<1>3. ASSUME NEW u \in Thread, NEW r \in Run, NEW what \in {"show", "cancel"},
             CallLoad(u, what, r)
      PROVE  CallsTypeOK'
  BY <1>3, <1>t DEF CallLoad, At, Go, CallsTypeOK
<1>4. ASSUME NEW u \in Thread, LatestRun(u) PROVE CallsTypeOK'
  <2>1. PICK r \in Run : run' = [run EXCEPT ![u] = r]
    BY <1>4 DEF LatestRun, Listed
  <2> QED
    BY <1>4, <1>t, <2>1 DEF LatestRun, At, Go, CallsTypeOK
<1>5. ASSUME NEW u \in Thread, EnterSave(u) PROVE CallsTypeOK'
  BY <1>5, <1>t DEF EnterSave, At, Go, CallsTypeOK, Saving
<1>6. ASSUME NEW u \in Thread, InsertRow(u) PROVE CallsTypeOK'
  BY <1>6, <1>t DEF InsertRow, At, Go, CallsTypeOK, Saving
<1>7. ASSUME NEW u \in Thread, ReplaceTasks(u) PROVE CallsTypeOK'
  BY <1>7, <1>t DEF ReplaceTasks, At, Go, CallsTypeOK, Saving
<1>8. ASSUME NEW u \in Thread, NEW hit \in SUBSET Thread, FinishAndHit(u, hit)
      PROVE  CallsTypeOK'
  BY <1>8, <1>t, <1>n DEF FinishAndHit, Go, CallsTypeOK
<1>9. ASSUME NEW u \in Thread, Commit(u) PROVE CallsTypeOK'
  BY <1>9, <1>8 DEF Commit, Between
<1>10. ASSUME NEW u \in Thread, Finish(u) PROVE CallsTypeOK'
  BY <1>10, <1>8 DEF Finish
<1>11. ASSUME NEW u \in Thread, RowMissing(u) PROVE CallsTypeOK'
  <2>1. CASE op[u] = "cancel"
    BY <1>11, <2>1, <1>10 DEF RowMissing
  <2>2. CASE op[u] # "cancel"
    <3>1. /\ pc' = [pc EXCEPT ![u] = "shown"] /\ pc[u] = "reading_row"
          /\ UNCHANGED <<op, run, val, found, interfered>>
      BY <1>11, <2>2 DEF RowMissing, At, Go
    <3> QED
      BY <3>1, <1>t DEF CallsTypeOK
  <2> QED
    BY <2>1, <2>2
<1>12. ASSUME NEW u \in Thread, ReadRow(u) PROVE CallsTypeOK'
  <2>1. run[u] \in Run /\ pc[u] = "reading_row"
    BY <1>12, <1>t DEF ReadRow, At, CallsTypeOK
  <2> DEFINE row == View(u).rows[run[u]]
  <2>2. row \in WorkflowState
    BY <1>12, <1>w, <2>1 DEF ReadRow
  <2> HIDE DEF row
  <2>3. /\ pc' = [pc EXCEPT ![u] = "reading_tasks"]
        /\ val' = [val EXCEPT ![u].state = row]
        /\ found' = [found EXCEPT ![u] = row]
        /\ UNCHANGED <<op, run, interfered>>
    BY <1>12 DEF ReadRow, Go, row
  <2>4. val' \in [Thread -> Hand]
    <3>1. val \in [Thread -> Hand]
      BY <1>t DEF CallsTypeOK
    <3>2. [val[u] EXCEPT !.state = row] \in Hand
      BY <3>1, <2>2
    <3>3. val' = [val EXCEPT ![u] = [val[u] EXCEPT !.state = row]]
      BY <2>3
    <3> HIDE DEF Hand
    <3> QED
      BY <3>1, <3>2, <3>3
  <2>7. found' \in [Thread -> WorkflowState \cup {"none"}]
    BY <1>t, <2>2, <2>3 DEF CallsTypeOK
  <2>5. pc' \in [Thread -> Saving \cup {"idle", "reading_row", "reading_tasks", "shown"}]
    BY <1>t, <2>3 DEF CallsTypeOK
  <2>6. \A w \in Thread : pc'[w] = "idle" <=> run'[w] = 0
    BY <1>t, <2>1, <2>3 DEF CallsTypeOK
  <2> QED
    BY <1>t, <2>3, <2>4, <2>5, <2>6, <2>7 DEF CallsTypeOK
<1>13. ASSUME NEW u \in Thread, ReadTasks(u) PROVE CallsTypeOK'
  <2>1. run[u] \in Run /\ pc[u] = "reading_tasks"
    BY <1>13, <1>t DEF ReadTasks, At, CallsTypeOK
  <2> DEFINE records == View(u).tasks[run[u]]
  <2>2. records \in Records
    BY <1>w, <2>1
  <2> HIDE DEF records
  <2>3. CASE op[u] # "cancel"
    <3>1. /\ pc' = [pc EXCEPT ![u] = "shown"]
          /\ val' = [val EXCEPT ![u].records = records]
          /\ UNCHANGED <<op, run, found, interfered>>
      BY <1>13, <2>3 DEF ReadTasks, Go, records
    <3>4. val' \in [Thread -> Hand]
      <4>1. val \in [Thread -> Hand]
        BY <1>t DEF CallsTypeOK
      <4>2. [val[u] EXCEPT !.records = records] \in Hand
        BY <4>1, <2>2
      <4>3. val' = [val EXCEPT ![u] = [val[u] EXCEPT !.records = records]]
        BY <3>1
      <4> HIDE DEF Hand
      <4> QED
        BY <4>1, <4>2, <4>3
    <3>5. pc' \in [Thread -> Saving \cup {"idle", "reading_row", "reading_tasks", "shown"}]
      BY <1>t, <3>1 DEF CallsTypeOK
    <3>6. \A w \in Thread : pc'[w] = "idle" <=> run'[w] = 0
      BY <1>t, <2>1, <3>1 DEF CallsTypeOK
    <3> QED
      BY <1>t, <3>1, <3>4, <3>5, <3>6 DEF CallsTypeOK
  <2>4. CASE op[u] = "cancel" /\ val[u].state \in Terminal
    BY <1>13, <2>4, <1>10 DEF ReadTasks
  <2>5. CASE op[u] = "cancel" /\ val[u].state \notin Terminal
    <3>1. /\ pc' = [pc EXCEPT ![u] = "saving"]
          /\ val' = [val EXCEPT ![u] = [state |-> "cancelled", records |-> records]]
          /\ UNCHANGED <<op, run, found, interfered>>
      BY <1>13, <2>5 DEF ReadTasks, Go, records
    <3>2. [state |-> "cancelled", records |-> records] \in Hand
      BY <2>2 DEF WorkflowState
    <3> QED
      BY <1>t, <2>1, <3>1, <3>2 DEF CallsTypeOK, Saving
  <2> QED
    BY <2>3, <2>4, <2>5
<1>14. ASSUME NEW p \in Process, Crash(p) PROVE CallsTypeOK'
  BY <1>14, <1>t, <1>n DEF Crash, CallsTypeOK
<1>15. ASSUME NEW u \in Thread, Step(u) PROVE CallsTypeOK'
  <2>1. Abort(u) \/ Return(u) => Finish(u)
    BY DEF Abort, Return
  <2> QED
    BY <1>15, <2>1, <1>5, <1>6, <1>7, <1>9, <1>10, <1>11, <1>12, <1>13 DEF Step
<1>16. ASSUME NEW u \in Thread, Call(u) PROVE CallsTypeOK'
  BY <1>16, <1>3, <1>4 DEF Call
<1>17. ASSUME NEW r \in Run, Work(r) PROVE CallsTypeOK'
  BY <1>17, <1>1 DEF Work
<1>18. CASE UNCHANGED vars
  BY <1>18, <1>1 DEF vars, calls
<1> QED
  BY <1>2, <1>14, <1>15, <1>16, <1>17, <1>18 DEF Next

(***************************************************************************)
(* Where a step leaves the locks and the transaction as they are, and who  *)
(* is between statements, they still fit.                                  *)
(***************************************************************************)
LEMMA QuietKeepsExclusive ==
  ASSUME StoreTypeOK, Exclusive, lock' = lock, writer' = writer,
         \A w \in Thread : /\ (pc'[w] \in Holding) = (pc[w] \in Holding)
                          /\ (pc'[w] \in InTxn) = (pc[w] \in InTxn)
  PROVE  Exclusive'
<1>1. lock \in [Process -> Thread \cup {NoThread}]
  BY DEF StoreTypeOK, TablesTypeOK
<1>2. \A p \in Process : lock[p] # NoThread => lock[p] \in Thread
  BY <1>1
<1>3. \A u \in Thread : pc'[u] \in Holding => lock'[ProcessOf[u]] = u
  BY DEF Exclusive
<1>4. \A p \in Process : lock'[p] # NoThread =>
        ProcessOf[lock'[p]] = p /\ pc'[lock'[p]] \in Holding
  BY <1>2 DEF Exclusive
<1>5. \A u \in Thread : pc'[u] \in InTxn => writer' = ProcessOf[u]
  BY DEF Exclusive
<1>6. writer' # NoProcess => \E u \in Thread : ProcessOf[u] = writer' /\ pc'[u] \in InTxn
  BY DEF Exclusive
<1> QED
  BY <1>3, <1>4, <1>5, <1>6 DEF Exclusive

(***************************************************************************)
(* A thread that takes a free lock.                                        *)
(***************************************************************************)
LEMMA TakingKeepsExclusive ==
  ASSUME StoreTypeOK, Exclusive, NEW u \in Thread, Take(u), writer' = writer,
         pc[u] \notin Holding, pc'[u] \in Holding \ InTxn,
         \A w \in Thread : w # u => pc'[w] = pc[w]
  PROVE  Exclusive'
<1> USE StoreAssumption
<1>1. lock \in [Process -> Thread \cup {NoThread}]
  BY DEF StoreTypeOK, TablesTypeOK
<1>2. \A p \in Process : lock'[p] = IF p = ProcessOf[u] THEN u ELSE lock[p]
  BY <1>1 DEF Take
<1>3. \A w \in Thread : pc'[w] \in InTxn <=> pc[w] \in InTxn
  BY DEF InTxn, Holding
<1>4. \A w \in Thread : pc[w] \in Holding => ProcessOf[w] # ProcessOf[u]
  BY DEF Exclusive, Take, Free
<1>5. \A w \in Thread : pc'[w] \in Holding => lock'[ProcessOf[w]] = w
  BY <1>2, <1>4 DEF Exclusive
<1>6. \A p \in Process : lock'[p] # NoThread =>
        ProcessOf[lock'[p]] = p /\ pc'[lock'[p]] \in Holding
  BY <1>1, <1>2 DEF Exclusive
<1> QED
  BY <1>3, <1>5, <1>6 DEF Exclusive

(***************************************************************************)
(* A thread that releases its lock, with its transaction if it has one.    *)
(***************************************************************************)
LEMMA DroppingKeepsExclusive ==
  ASSUME StoreTypeOK, Exclusive, NEW u \in Thread, Drop(u),
         writer' = IF writer = ProcessOf[u] THEN NoProcess ELSE writer,
         pc[u] \in Holding, pc'[u] \notin Holding,
         \A w \in Thread : w # u => pc'[w] = pc[w]
  PROVE  Exclusive'
<1> USE StoreAssumption
<1>1. lock \in [Process -> Thread \cup {NoThread}]
  BY DEF StoreTypeOK, TablesTypeOK
<1>2. \A p \in Process : lock'[p] = IF p = ProcessOf[u] THEN NoThread ELSE lock[p]
  BY <1>1 DEF Drop
<1>3. \A w \in Thread : w # u /\ pc[w] \in Holding => ProcessOf[w] # ProcessOf[u]
  BY DEF Exclusive
<1>4. \A w \in Thread : pc'[w] \in Holding => lock'[ProcessOf[w]] = w
  BY <1>2, <1>3 DEF Exclusive
<1>5. \A p \in Process : lock'[p] # NoThread =>
        ProcessOf[lock'[p]] = p /\ pc'[lock'[p]] \in Holding
  BY <1>1, <1>2 DEF Exclusive
<1>6. InTxn \subseteq Holding
  BY DEF InTxn, Holding
<1>7. \A w \in Thread : pc'[w] \in InTxn => writer' = ProcessOf[w]
  BY <1>3, <1>6 DEF Exclusive
<1>8. writer' # NoProcess => \E w \in Thread : ProcessOf[w] = writer' /\ pc'[w] \in InTxn
  BY DEF Exclusive
<1> QED
  BY <1>4, <1>5, <1>7, <1>8 DEF Exclusive

(***************************************************************************)
(* What other threads have in their hands, while u takes a step.           *)
(***************************************************************************)
Kept(u) ==
  \A w \in Thread : w # u => /\ pc'[w] = pc[w] /\ op'[w] = op[w] /\ run'[w] = run[w]
                           /\ val'[w] = val[w] /\ found'[w] = found[w]

(***************************************************************************)
(* A step of a thread moves its own counter and locals only.               *)
(***************************************************************************)
LEMMA OthersKeep ==
  ASSUME StoreTypeOK, NEW u \in Thread, Step(u) \/ Call(u)
  PROVE  Kept(u)
<1> USE DEF Kept
<1>1. ASSUME NEW r \in Run, NEW what, CallLoad(u, what, r)
      PROVE  Kept(u)
  BY <1>1 DEF CallLoad, Go, StoreTypeOK, CallsTypeOK
<1>2. CASE LatestRun(u)
  BY <1>2 DEF LatestRun, Go, StoreTypeOK, CallsTypeOK
<1>3. CASE EnterSave(u)
  BY <1>3 DEF EnterSave, Go, StoreTypeOK, CallsTypeOK
<1>4. CASE InsertRow(u)
  BY <1>4 DEF InsertRow, Go, StoreTypeOK, CallsTypeOK
<1>5. CASE ReplaceTasks(u)
  BY <1>5 DEF ReplaceTasks, Go, StoreTypeOK, CallsTypeOK
<1>6. ASSUME NEW hit, FinishAndHit(u, hit) PROVE Kept(u)
  BY <1>6 DEF FinishAndHit, Go, StoreTypeOK, CallsTypeOK
<1>7. CASE Commit(u) \/ Abort(u) \/ Return(u)
  BY <1>6, <1>7 DEF Commit, Abort, Return, Finish
<1>8. CASE RowMissing(u)
  <2>1. CASE op[u] = "cancel"
    BY <1>6, <1>8, <2>1 DEF RowMissing, Finish
  <2>2. CASE op[u] # "cancel"
    BY <1>8, <2>2 DEF RowMissing, Go, StoreTypeOK, CallsTypeOK
  <2> QED
    BY <2>1, <2>2
<1>9. CASE ReadRow(u)
  BY <1>9 DEF ReadRow, Go, StoreTypeOK, CallsTypeOK
<1>10. CASE ReadTasks(u)
  <2>1. CASE Finish(u)
    BY <1>6, <2>1 DEF Finish
  <2>2. CASE ~Finish(u)
    BY <1>10, <2>2 DEF ReadTasks, Go, StoreTypeOK, CallsTypeOK
  <2> QED
    BY <2>1, <2>2
<1> HIDE DEF Kept
<1> QED
  BY <1>1, <1>2, <1>3, <1>4, <1>5, <1>7, <1>8, <1>9, <1>10 DEF Step, Call

(***************************************************************************)
(* Who finds the lock free, or holds it to load, sees what is committed.   *)
(***************************************************************************)
LEMMA LoadsSeeCommitted ==
  ASSUME StoreInv, NEW u \in Thread, Free(u) \/ pc[u] = "reading_tasks"
  PROVE  writer # ProcessOf[u] /\ View(u) = db
<1> USE StoreAssumption
<1>1. SUFFICES ASSUME writer = ProcessOf[u] PROVE FALSE
  BY DEF View
<1>2. ProcessOf[u] \in Process
  OBVIOUS
<1>e. Exclusive
  BY DEF StoreInv
<1>3. PICK w \in Thread : ProcessOf[w] = writer /\ pc[w] \in InTxn
  BY <1>1, <1>2, <1>e DEF Exclusive
<1>4. lock[ProcessOf[u]] = w
  <2>1. pc[w] \in Holding
    BY <1>3 DEF InTxn, Holding
  <2>2. lock[ProcessOf[w]] = w
    BY <1>e, <2>1 DEF Exclusive
  <2> QED
    BY <1>1, <1>3, <2>2
<1>5. pc[u] = "reading_tasks" => w = u
  BY <1>4, <1>e DEF Exclusive, Holding
<1> QED
  BY <1>3, <1>4, <1>5 DEF Free, InTxn

(***************************************************************************)
(* The locks and the transaction stay with who is between statements.      *)
(***************************************************************************)
LEMMA ExclusiveStep == StoreInv /\ [Next]_vars => Exclusive'
<1> SUFFICES ASSUME StoreInv, [Next]_vars PROVE Exclusive'
  OBVIOUS
<1> USE StoreAssumption
<1>t. StoreTypeOK /\ Exclusive
  BY DEF StoreInv
<1>p. pc \in [Thread -> Saving \cup {"idle", "reading_row", "reading_tasks", "shown"}]
  BY <1>t DEF StoreTypeOK, CallsTypeOK
<1>q. ASSUME NEW u \in Thread, Kept(u), lock' = lock, writer' = writer,
             pc[u] \notin Holding, pc'[u] \notin Holding
      PROVE  Exclusive'
  <2>1. InTxn \subseteq Holding
    BY DEF InTxn, Holding
  <2> QED
    BY <1>t, <1>q, <2>1, QuietKeepsExclusive DEF Kept
<1>1. ASSUME NEW r \in Run, CallSave(r) PROVE Exclusive'
  <2>1. Owner[r] \in Thread
    OBVIOUS
  <2>2. Kept(Owner[r]) /\ pc'[Owner[r]] = "saving" /\ pc[Owner[r]] = "idle"
    BY <1>1, <1>t, <2>1 DEF CallSave, At, Go, Kept, StoreTypeOK, CallsTypeOK
  <2>3. lock' = lock /\ writer' = writer
    BY <1>1 DEF CallSave, tables
  <2> QED
    BY <1>q, <2>1, <2>2, <2>3 DEF Holding
<1>2. ASSUME NEW u \in Thread, Call(u) PROVE Exclusive'
  <2>1. Kept(u)
    BY <1>2, <1>t, OthersKeep
  <2>2. pc[u] = "idle" /\ pc'[u] = "reading_row" /\ lock' = lock /\ writer' = writer
    BY <1>2, <1>p DEF Call, CallLoad, LatestRun, At, Go, tables
  <2> QED
    BY <1>q, <2>1, <2>2 DEF Holding
<1>3. ASSUME NEW u \in Thread, EnterSave(u) \/ ReadRow(u) PROVE Exclusive'
  <2>1. Kept(u)
    BY <1>3, <1>t, OthersKeep DEF Step
  <2>2. /\ pc[u] \notin Holding /\ pc'[u] \in Holding \ InTxn /\ Take(u)
        /\ writer' = writer
    BY <1>3, <1>p DEF EnterSave, ReadRow, At, Go, Holding, InTxn, tables
  <2> QED
    BY <1>t, <2>1, <2>2, TakingKeepsExclusive DEF Kept
<1>4. ASSUME NEW u \in Thread, InsertRow(u) PROVE Exclusive'
  <2>1. Kept(u)
    BY <1>4, <1>t, OthersKeep DEF Step
  <2>2. /\ pc[u] = "inserting" /\ pc'[u] = "replacing" /\ lock' = lock
        /\ writer = NoProcess /\ writer' = ProcessOf[u]
    BY <1>4, <1>p DEF InsertRow, At, Go
  <2>3. \A w \in Thread : pc[w] \notin InTxn
    BY <1>t, <2>2 DEF Exclusive
  <2>4. \A w \in Thread : pc'[w] \in Holding <=> pc[w] \in Holding
    BY <2>1, <2>2 DEF Kept, Holding
  <2>5. \A w \in Thread : pc'[w] \in InTxn <=> w = u
    BY <2>1, <2>2, <2>3 DEF Kept, InTxn
  <2>6. lock \in [Process -> Thread \cup {NoThread}]
    BY <1>t DEF StoreTypeOK, TablesTypeOK
  <2> QED
    BY <1>t, <2>2, <2>4, <2>5, <2>6 DEF Exclusive
<1>5. ASSUME NEW u \in Thread, ReplaceTasks(u) PROVE Exclusive'
  <2>1. Kept(u)
    BY <1>5, <1>t, OthersKeep DEF Step
  <2>2. /\ pc[u] = "replacing" /\ pc'[u] = "committing" /\ lock' = lock
        /\ writer' = writer
    BY <1>5, <1>p DEF ReplaceTasks, At, Go
  <2>3. \A w \in Thread : /\ pc'[w] \in Holding <=> pc[w] \in Holding
                          /\ pc'[w] \in InTxn <=> pc[w] \in InTxn
    BY <2>1, <2>2 DEF Kept, Holding, InTxn
  <2>4. \A w \in Thread : /\ (pc'[w] \in Holding) = (pc[w] \in Holding)
                          /\ (pc'[w] \in InTxn) = (pc[w] \in InTxn)
    BY <2>3
  <2> QED
    BY <1>t, <2>2, <2>4, QuietKeepsExclusive
<1>6. ASSUME NEW u \in Thread, Commit(u) PROVE Exclusive'
  <2>1. Kept(u)
    BY <1>6, <1>t, OthersKeep DEF Step
  <2>2. /\ pc[u] = "committing" /\ pc'[u] = "idle" /\ Drop(u)
        /\ writer' = NoProcess
    BY <1>6, <1>p DEF Commit, FinishAndHit, At, Go
  <2>3. writer = ProcessOf[u]
    BY <1>t, <2>2 DEF Exclusive, InTxn
  <2> QED
    BY <1>t, <2>1, <2>2, <2>3, DroppingKeepsExclusive DEF Kept, Holding
<1>7. ASSUME NEW u \in Thread, Abort(u) PROVE Exclusive'
  <2>1. Kept(u)
    BY <1>7, <1>t, OthersKeep DEF Step
  <2>2. /\ pc[u] \in Holding /\ pc'[u] = "idle" /\ Drop(u)
        /\ writer' = IF writer = ProcessOf[u] THEN NoProcess ELSE writer
    BY <1>7, <1>p DEF Abort, Finish, FinishAndHit, Go, Holding
  <2> QED
    BY <1>t, <2>1, <2>2, DroppingKeepsExclusive DEF Kept, Holding
<1>8. ASSUME NEW u \in Thread, ReadTasks(u) PROVE Exclusive'
  <2>1. Kept(u)
    BY <1>8, <1>t, OthersKeep DEF Step
  <2>2. /\ pc[u] = "reading_tasks" /\ Drop(u) /\ writer' = writer
    BY <1>8 DEF ReadTasks, At, tables
  <2>3. pc'[u] \in {"shown", "idle", "saving"}
    BY <1>8, <1>p DEF ReadTasks, Finish, FinishAndHit, Go
  <2>4. writer # ProcessOf[u]
    BY <2>2, LoadsSeeCommitted
  <2> QED
    BY <1>t, <2>1, <2>2, <2>3, <2>4, DroppingKeepsExclusive DEF Kept, Holding
<1>9. ASSUME NEW u \in Thread, RowMissing(u) \/ Return(u) PROVE Exclusive'
  <2>1. Kept(u)
    BY <1>9, <1>t, OthersKeep DEF Step
  <2>2. /\ pc[u] \in {"reading_row", "shown"} /\ lock' = lock /\ writer' = writer
    BY <1>9 DEF RowMissing, Return, At, tables
  <2>3. pc'[u] \in {"shown", "idle"}
    BY <1>9, <1>p DEF RowMissing, Return, Finish, FinishAndHit, Go
  <2> QED
    BY <1>q, <2>1, <2>2, <2>3 DEF Holding
<1>10. ASSUME NEW p \in Process, Crash(p) PROVE Exclusive'
  <2>1. /\ writer' = IF writer = p THEN NoProcess ELSE writer
        /\ lock' = [lock EXCEPT ![p] = NoThread]
        /\ \A w \in Thread : pc'[w] = IF ProcessOf[w] = p THEN "idle" ELSE pc[w]
    BY <1>10 DEF Crash
  <2>2. \A q \in Process : lock'[q] = IF q = p THEN NoThread ELSE lock[q]
    BY <1>t, <2>1 DEF StoreTypeOK, TablesTypeOK
  <2>3. \A w \in Thread : pc'[w] \in Holding => ProcessOf[w] # p /\ pc[w] \in Holding
    BY <2>1 DEF Holding
  <2>4. \A w \in Thread : pc'[w] \in InTxn => ProcessOf[w] # p /\ pc[w] \in InTxn
    BY <2>1 DEF InTxn
  <2>5. \A w \in Thread : pc'[w] \in Holding => lock'[ProcessOf[w]] = w
    BY <1>t, <2>2, <2>3 DEF Exclusive
  <2>6. \A q \in Process : lock'[q] # NoThread =>
          ProcessOf[lock'[q]] = q /\ pc'[lock'[q]] \in Holding
    <3> SUFFICES ASSUME NEW q \in Process, lock'[q] # NoThread
                 PROVE  ProcessOf[lock'[q]] = q /\ pc'[lock'[q]] \in Holding
      OBVIOUS
    <3>1. q # p /\ lock'[q] = lock[q]
      BY <2>2
    <3>2. lock[q] \in Thread /\ ProcessOf[lock[q]] = q /\ pc[lock[q]] \in Holding
      BY <1>t, <3>1 DEF Exclusive, StoreTypeOK, TablesTypeOK
    <3> QED
      BY <2>1, <3>1, <3>2
  <2>7. \A w \in Thread : pc'[w] \in InTxn => writer' = ProcessOf[w]
    BY <1>t, <2>1, <2>4 DEF Exclusive
  <2>8. writer' # NoProcess => \E w \in Thread : ProcessOf[w] = writer' /\ pc'[w] \in InTxn
    BY <1>t, <2>1 DEF Exclusive
  <2> QED
    BY <2>5, <2>6, <2>7, <2>8 DEF Exclusive
<1>11. CASE (\E r \in Run : Work(r)) \/ UNCHANGED vars
  <2>1. UNCHANGED <<pc, lock, writer>>
    BY <1>11 DEF Work, vars, tables, calls
  <2> QED
    BY <1>t, <2>1, QuietKeepsExclusive
<1> QED
  BY <1>1, <1>2, <1>3, <1>4, <1>5, <1>6, <1>7, <1>8, <1>9, <1>10, <1>11 DEF Next, Step

(***************************************************************************)
(* There is one transaction at a time.                                     *)
(***************************************************************************)
LEMMA OneTransaction ==
  ASSUME StoreInv, NEW u \in Thread, NEW w \in Thread, pc[u] \in InTxn, pc[w] \in InTxn
  PROVE  u = w
<1>1. Exclusive
  BY DEF StoreInv
<1>2. pc[u] \in Holding /\ pc[w] \in Holding
  BY DEF InTxn, Holding
<1>3. lock[ProcessOf[u]] = u /\ lock[ProcessOf[w]] = w
  BY <1>1, <1>2 DEF Exclusive
<1>4. ProcessOf[u] = ProcessOf[w]
  BY <1>1 DEF Exclusive
<1> QED
  BY <1>3, <1>4

(***************************************************************************)
(* Who is not in the transaction leaves the draft as it is.                *)
(***************************************************************************)
LEMMA QuietKeepsDraft ==
  ASSUME DraftIsNext, UNCHANGED tables,
         \A w \in Thread : pc'[w] \in InTxn =>
           pc'[w] = pc[w] /\ run'[w] = run[w] /\ val'[w] = val[w]
  PROVE  DraftIsNext'
<1>1. db' = db /\ writer' = writer /\ draft' = draft
  BY DEF tables
<1>2. ASSUME NEW w \in Thread, pc'[w] = "replacing"
      PROVE  draft' = [db' EXCEPT !.rows[run'[w]] = val'[w].state]
  <2>1. pc[w] = "replacing" /\ run'[w] = run[w] /\ val'[w] = val[w]
    BY <1>2 DEF InTxn
  <2> QED
    BY <1>1, <2>1 DEF DraftIsNext
<1>3. ASSUME NEW w \in Thread, pc'[w] = "committing"
      PROVE  draft' = [db' EXCEPT !.rows[run'[w]] = val'[w].state,
                                  !.tasks[run'[w]] = val'[w].records]
  <2>1. pc[w] = "committing" /\ run'[w] = run[w] /\ val'[w] = val[w]
    BY <1>3 DEF InTxn
  <2> QED
    BY <1>1, <2>1 DEF DraftIsNext
<1> QED
  BY <1>1, <1>2, <1>3 DEF DraftIsNext

(***************************************************************************)
(* What is in the transaction is what will be committed.                   *)
(***************************************************************************)
LEMMA DraftStep == StoreInv /\ [Next]_vars => DraftIsNext'
<1> SUFFICES ASSUME StoreInv, [Next]_vars PROVE DraftIsNext'
  OBVIOUS
<1> USE StoreAssumption
<1>t. StoreTypeOK /\ DraftIsNext
  BY DEF StoreInv
<1>e. Exclusive'
  BY ExclusiveStep
<1>p. pc \in [Thread -> Saving \cup {"idle", "reading_row", "reading_tasks", "shown"}]
  BY <1>t DEF StoreTypeOK, CallsTypeOK
<1>1. ASSUME NEW u \in Thread, Kept(u), UNCHANGED tables, pc'[u] \notin InTxn
      PROVE  DraftIsNext'
  BY <1>1, <1>t, QuietKeepsDraft DEF Kept
<1>2. ASSUME writer' = NoProcess, draft' = db' PROVE DraftIsNext'
  <2>1. \A w \in Thread : pc'[w] \notin InTxn
    BY <1>2, <1>e DEF Exclusive
  <2> QED
    BY <1>2, <2>1 DEF DraftIsNext, InTxn
<1>3. ASSUME NEW r \in Run, CallSave(r) PROVE DraftIsNext'
  <2>1. Owner[r] \in Thread
    OBVIOUS
  <2>2. Kept(Owner[r]) /\ pc'[Owner[r]] = "saving"
    BY <1>3, <1>t, <2>1 DEF CallSave, At, Go, Kept, StoreTypeOK, CallsTypeOK
  <2> QED
    BY <1>1, <1>3, <2>1, <2>2 DEF CallSave, InTxn
<1>4. ASSUME NEW u \in Thread,
             Call(u) \/ EnterSave(u) \/ ReadRow(u) \/ ReadTasks(u) \/ RowMissing(u) \/ Return(u)
      PROVE  DraftIsNext'
  <2>1. Kept(u)
    BY <1>4, <1>t, OthersKeep DEF Step
  <2>2. UNCHANGED tables
    BY <1>4 DEF Call, CallLoad, LatestRun, EnterSave, ReadRow, ReadTasks, RowMissing, Return
  <2>3. pc'[u] \notin InTxn
    <3>1. CASE Call(u) \/ EnterSave(u) \/ ReadRow(u)
      BY <3>1, <1>p DEF Call, CallLoad, LatestRun, EnterSave, ReadRow, Go, InTxn
    <3>2. CASE ReadTasks(u)
      BY <3>2, <1>p DEF ReadTasks, Finish, FinishAndHit, Go, InTxn
    <3>3. CASE RowMissing(u) \/ Return(u)
      BY <3>3, <1>p DEF RowMissing, Return, Finish, FinishAndHit, Go, InTxn
    <3> QED
      BY <1>4, <3>1, <3>2, <3>3
  <2> QED
    BY <1>1, <2>1, <2>2, <2>3
<1>5. ASSUME NEW u \in Thread, InsertRow(u) PROVE DraftIsNext'
  <2>1. Kept(u)
    BY <1>5, <1>t, OthersKeep DEF Step
  <2>2. /\ pc[u] = "inserting" /\ pc'[u] = "replacing"
        /\ writer = NoProcess /\ writer' = ProcessOf[u]
        /\ draft' = [db EXCEPT !.rows[run[u]] = val[u].state]
        /\ db' = db /\ run' = run /\ val' = val
    BY <1>5, <1>p DEF InsertRow, At, Go
  <2>3. \A w \in Thread : pc[w] \notin InTxn
    BY <2>2 DEF StoreInv, Exclusive
  <2>4. \A w \in Thread : pc'[w] \in InTxn => w = u
    BY <2>1, <2>3 DEF Kept
  <2>5. writer' # NoProcess
    BY <2>2
  <2>6. \A w \in Thread : pc'[w] # "committing" /\ (pc'[w] = "replacing" => w = u)
    BY <2>2, <2>4 DEF InTxn
  <2> QED
    BY <2>2, <2>5, <2>6 DEF DraftIsNext
<1>6. ASSUME NEW u \in Thread, ReplaceTasks(u) PROVE DraftIsNext'
  <2>1. Kept(u)
    BY <1>6, <1>t, OthersKeep DEF Step
  <2>2. /\ pc[u] = "replacing" /\ pc'[u] = "committing"
        /\ draft' = [draft EXCEPT !.tasks[run[u]] = val[u].records]
        /\ db' = db /\ writer' = writer /\ run' = run /\ val' = val
    BY <1>6, <1>p DEF ReplaceTasks, At, Go
  <2>3. \A w \in Thread : w # u => pc'[w] \notin InTxn
    BY <2>1, <2>2, OneTransaction DEF Kept, InTxn
  <2>4. writer' # NoProcess
    BY <2>2 DEF StoreInv, Exclusive, InTxn
  <2>5. draft = [db EXCEPT !.rows[run[u]] = val[u].state]
    BY <1>t, <2>2 DEF DraftIsNext
  <2>6. draft' = [db EXCEPT !.rows[run[u]] = val[u].state, !.tasks[run[u]] = val[u].records]
    BY <2>2, <2>5
  <2>7. \A w \in Thread : pc'[w] # "replacing" /\ (pc'[w] = "committing" => w = u)
    BY <2>2, <2>3 DEF InTxn
  <2> QED
    BY <2>2, <2>4, <2>6, <2>7 DEF DraftIsNext
<1>7. ASSUME NEW u \in Thread, Commit(u) PROVE DraftIsNext'
  BY <1>2, <1>7 DEF Commit
<1>8. ASSUME NEW u \in Thread, Abort(u) PROVE DraftIsNext'
  <2>1. CASE writer = ProcessOf[u]
    BY <1>2, <1>8, <2>1 DEF Abort
  <2>2. CASE writer # ProcessOf[u]
    <3>1. Kept(u)
      BY <1>8, <1>t, OthersKeep DEF Step
    <3>2. UNCHANGED tables /\ pc'[u] = "idle"
      BY <1>8, <1>p, <2>2 DEF Abort, Finish, FinishAndHit, Go, tables
    <3> QED
      BY <1>1, <3>1, <3>2 DEF InTxn
  <2> QED
    BY <2>1, <2>2
<1>9. ASSUME NEW p \in Process, Crash(p) PROVE DraftIsNext'
  <2>1. CASE writer = p
    BY <1>2, <1>9, <2>1 DEF Crash
  <2>2. CASE writer # p
    <3>1. UNCHANGED tables
      BY <1>9, <2>2 DEF Crash, tables
    <3>2. \A w \in Thread : pc'[w] \in InTxn =>
            pc'[w] = pc[w] /\ run'[w] = run[w] /\ val'[w] = val[w]
      BY <1>9 DEF Crash, InTxn
    <3> QED
      BY <1>t, <3>1, <3>2, QuietKeepsDraft
  <2> QED
    BY <2>1, <2>2
<1>10. CASE (\E r \in Run : Work(r)) \/ UNCHANGED vars
  <2>1. UNCHANGED tables /\ UNCHANGED <<pc, run, val>>
    BY <1>10 DEF Work, vars, tables, calls
  <2> QED
    BY <1>t, <2>1, QuietKeepsDraft
<1> QED
  BY <1>3, <1>4, <1>5, <1>6, <1>7, <1>8, <1>9, <1>10 DEF Next, Step

(***************************************************************************)
(* A commit replaces one run by the one in hand, and no other.             *)
(***************************************************************************)
LEMMA CommitReplacesOne ==
  ASSUME StoreInv, NEW u \in Thread, Commit(u)
  PROVE  /\ run[u] \in Run /\ pc[u] = "committing" /\ pc[u] \in Saving
         /\ db'.rows[run[u]] = val[u].state
         /\ \A s \in Run : IF s = run[u] THEN Stored(s)' = val[u]
                                         ELSE /\ Stored(s)' = Stored(s)
                                              /\ db'.rows[s] = db.rows[s]
<1>1. pc[u] = "committing" /\ pc[u] \in Saving
  BY DEF Commit, At, Saving
<1>2. run[u] \in Run /\ val[u] \in RunObject
  BY <1>1, SavesARun
<1>3. db \in Database
  BY DEF StoreInv, StoreTypeOK, TablesTypeOK
<1>4. db' = [db EXCEPT !.rows[run[u]] = val[u].state, !.tasks[run[u]] = val[u].records]
  BY <1>1 DEF Commit, StoreInv, DraftIsNext
<1>5. /\ db'.rows = [db.rows EXCEPT ![run[u]] = val[u].state]
      /\ db'.tasks = [db.tasks EXCEPT ![run[u]] = val[u].records]
  BY <1>3, <1>4 DEF Database
<1>6. db'.rows[run[u]] = val[u].state /\ db'.tasks[run[u]] = val[u].records
  BY <1>2, <1>3, <1>5 DEF Database
<1>7. \A s \in Run \ {run[u]} : db'.rows[s] = db.rows[s] /\ db'.tasks[s] = db.tasks[s]
  BY <1>3, <1>5 DEF Database
<1>8. \A s \in Run : s = run[u] => Stored(s)' = val[u]
  BY <1>2, <1>6, RunParts DEF Stored
<1> QED
  BY <1>1, <1>2, <1>6, <1>7, <1>8 DEF Stored

(***************************************************************************)
(* What is stored stays whole, and behind its owner.                       *)
(***************************************************************************)
LEMMA CommittedStep == StoreInv /\ [Next]_vars => CommittedIsWhole'
<1> SUFFICES ASSUME StoreInv, [Next]_vars PROVE CommittedIsWhole'
  OBVIOUS
<1> USE StoreAssumption
<1>t. CommittedIsWhole /\ age \in [Run -> Nat]
  BY DEF StoreInv, StoreTypeOK, AgesTypeOK
<1>1. ASSUME db' = db,
             \A r \in Run : age'[r] \in Nat /\ (age'[r] # 0 => age[r] # 0 /\ age[r] <= age'[r])
      PROVE  CommittedIsWhole'
  <2>1. \A r \in Run : Stored(r)' = Stored(r)
    BY <1>1 DEF Stored
  <2>2. ASSUME NEW r \in Run, age'[r] # 0, Stored(r)' \in Points(r)
        PROVE  \E j \in 1 .. age'[r] : Stored(r)' = Life[r][j]
    <3>1. PICK j \in 1 .. age[r] : Stored(r) = Life[r][j]
      BY <1>1, <1>t, <2>1, <2>2 DEF CommittedIsWhole
    <3>2. age[r] \in Nat /\ age'[r] \in Nat /\ age[r] <= age'[r]
      BY <1>1, <1>t, <2>2
    <3>3. j \in 1 .. age'[r]
      BY <3>1, <3>2
    <3> QED
      BY <2>1, <3>1, <3>3
  <2> QED
    BY <1>1, <1>t, <2>1, <2>2 DEF CommittedIsWhole
<1>2. ASSUME NEW u \in Thread, Commit(u) PROVE CommittedIsWhole'
  <2>1. /\ run[u] \in Run /\ pc[u] \in Saving
        /\ db'.rows[run[u]] = val[u].state
        /\ \A s \in Run : IF s = run[u] THEN Stored(s)' = val[u]
                                        ELSE /\ Stored(s)' = Stored(s)
                                             /\ db'.rows[s] = db.rows[s]
    BY <1>2, CommitReplacesOne
  <2>2. val[u] \in Whole(run[u]) /\ val[u].state # "none"
    BY <2>1, SavesARun DEF RunObject, WorkflowState
  <2>3. age' = age
    BY <1>2 DEF Commit
  <2>4. ASSUME age[run[u]] # 0, val[u] \in Points(run[u])
        PROVE  \E j \in 1 .. age[run[u]] : val[u] = Life[run[u]][j]
    <3>1. CASE op[u] = "save"
      <4>1. val[u] = Life[run[u]][age[run[u]]]
        BY <3>1 DEF StoreInv, SaveInHand
      <4>2. age[run[u]] \in Nat
        BY <1>t, <2>1
      <4>3. age[run[u]] \in 1 .. age[run[u]]
        BY <2>4, <4>2
      <4> QED
        BY <4>1, <4>3
    <3>2. CASE op[u] # "save"
      <4>1. val[u] \in Cancels(run[u])
        BY <2>1, <3>2 DEF StoreInv, CancelInHand
      <4> QED
        BY <2>1, <2>4, <4>1, WholeFacts
    <3> QED
      BY <3>1, <3>2
  <2>5. ASSUME NEW r \in Run
        PROVE  /\ Stored(r)' = NoRun \/ Stored(r)' \in Whole(r)
               /\ db'.rows[r] = "none" => Stored(r)' = NoRun
               /\ age'[r] # 0 /\ Stored(r)' \in Points(r) =>
                    \E j \in 1 .. age'[r] : Stored(r)' = Life[r][j]
    <3>1. CASE r = run[u]
      BY <2>1, <2>2, <2>3, <2>4, <3>1
    <3>2. CASE r # run[u]
      BY <1>t, <2>1, <2>3, <3>2 DEF CommittedIsWhole
    <3> QED
      BY <3>1, <3>2
  <2> QED
    BY <2>5 DEF CommittedIsWhole
<1>3. ASSUME NEW r \in Run, Work(r) PROVE CommittedIsWhole'
  <2>1. db' = db /\ age[r] \in Nat /\ age[r] # 0 /\ age' = [age EXCEPT ![r] = age[r] + 1]
    BY <1>3, <1>t, LifeFacts DEF Work, tables
  <2>2. \A s \in Run : age'[s] = IF s = r THEN age[r] + 1 ELSE age[s]
    BY <1>t, <2>1
  <2> QED
    BY <1>1, <1>t, <2>1, <2>2
<1>4. ASSUME NEW p \in Process, Crash(p) PROVE CommittedIsWhole'
  <2>1. db' = db /\ \A r \in Run : age'[r] = 0 \/ age'[r] = age[r]
    BY <1>4 DEF Crash
  <2> QED
    BY <1>1, <1>t, <2>1
<1>5. CASE db' = db /\ age' = age
  BY <1>1, <1>5, <1>t
<1>6. ASSUME NEW u \in Thread, Step(u) \/ Call(u), ~Commit(u) PROVE db' = db /\ age' = age
  BY <1>6 DEF Call, Step, tables, CallLoad, LatestRun, EnterSave, InsertRow, ReplaceTasks,
              Abort, RowMissing, ReadRow, ReadTasks, Return
<1>7. ASSUME NEW r \in Run, CallSave(r) PROVE db' = db /\ age' = age
  BY <1>7 DEF CallSave, tables
<1>8. CASE UNCHANGED vars
  BY <1>5, <1>8 DEF vars
<1> QED
  BY <1>2, <1>3, <1>4, <1>5, <1>6, <1>7, <1>8 DEF Next

(***************************************************************************)
(* What each thread has in its hands, and what it shows to its caller.     *)
(***************************************************************************)
Shows(w) ==
  /\ At(w, "shown") /\ val[w] # NoRun /\ w \notin interfered => val[w] \in Whole(run[w])
  /\ At(w, "shown") /\ op[w] = "status" => val[w] # NoRun

InHand(w) ==
  SaveInHand(w) /\ CancelInHand(w) /\ LoadInHand(w) /\ HandsFree(w) /\ Shows(w)

(***************************************************************************)
(* The invariant, by threads.                                              *)
(***************************************************************************)
LEMMA ByThreads ==
  StoreInv <=> /\ StoreTypeOK /\ Exclusive /\ DraftIsNext /\ CommittedIsWhole
               /\ \A w \in Thread : InHand(w)
BY DEF StoreInv, InHand, Shows, LoadsAreWhole, StatusFindsItsRun, Whole

(***************************************************************************)
(* What thread w has in its hands fits after a step of another.            *)
(***************************************************************************)
Undisturbed(w) ==
  /\ pc'[w] = pc[w] /\ op'[w] = op[w] /\ run'[w] = run[w] /\ val'[w] = val[w]
  /\ found'[w] = found[w]
  /\ pc[w] \in Saving => age'[run[w]] = age[run[w]]
  /\ w \in interfered => w \in interfered'
  /\ w \in interfered' => w \in interfered \/ pc[w] = "reading_tasks"
  /\ pc[w] = "reading_tasks" /\ w \notin interfered' => db'.rows[run[w]] = db.rows[run[w]]
  /\ \A r \in Run : db.rows[r] # "none" => db'.rows[r] # "none"

(***************************************************************************)
(* Nothing gets out of the hands of who is left undisturbed.               *)
(***************************************************************************)
LEMMA UndisturbedHands ==
  ASSUME StoreInv, NEW w \in Thread, Undisturbed(w)
  PROVE  InHand(w)'
<1>1. InHand(w)
  BY ByThreads
<1>2. pc[w] # "idle" => run[w] \in Run
  BY DEF StoreInv, StoreTypeOK, CallsTypeOK
<1>3. SaveInHand(w)'
  BY <1>1 DEF InHand, SaveInHand, Undisturbed
<1>4. CancelInHand(w)'
  BY <1>1, <1>2 DEF InHand, CancelInHand, Undisturbed, Saving
<1>5. LoadInHand(w)'
  BY <1>1, <1>2 DEF InHand, LoadInHand, Undisturbed
<1>6. HandsFree(w)'
  BY <1>1 DEF InHand, HandsFree, Undisturbed
<1>7. Shows(w)'
  BY <1>1 DEF InHand, Shows, At, Undisturbed
<1> QED
  BY <1>3, <1>4, <1>5, <1>6, <1>7 DEF InHand

(***************************************************************************)
(* What a step of u does to the others.                                    *)
(***************************************************************************)
LEMMA OthersUndisturbed ==
  ASSUME StoreInv, NEW u \in Thread, Kept(u),
         Step(u) \/ Call(u) \/ \E r \in Run : Owner[r] = u /\ CallSave(r)
  PROVE  /\ \A w \in Thread : w # u => Undisturbed(w)
         /\ \A r \in Run : db.rows[r] # "none" => db'.rows[r] # "none"
<1> USE StoreAssumption
<1>k. \A w \in Thread : w # u => /\ pc'[w] = pc[w] /\ op'[w] = op[w] /\ run'[w] = run[w]
                               /\ val'[w] = val[w] /\ found'[w] = found[w]
  BY DEF Kept
<1>1. CASE Commit(u)
  <2>1. /\ run[u] \in Run /\ pc[u] = "committing" /\ pc[u] \in Saving
        /\ db'.rows[run[u]] = val[u].state
        /\ \A s \in Run : s # run[u] => db'.rows[s] = db.rows[s]
    BY <1>1, CommitReplacesOne
  <2>2. val[u].state # "none"
    BY <2>1, SavesARun DEF RunObject, WorkflowState
  <2>3. \A r \in Run : db.rows[r] # "none" => db'.rows[r] # "none"
    BY <2>1, <2>2
  <2>4. /\ age' = age
        /\ interfered' = (interfered \ {u}) \cup Between(run[u], ProcessOf[u])
    BY <1>1 DEF Commit, FinishAndHit
  <2>5. ASSUME NEW w \in Thread, w # u, pc[w] = "reading_tasks", w \notin interfered'
        PROVE  db'.rows[run[w]] = db.rows[run[w]]
    <3>1. run[w] \in Run
      BY <2>5 DEF StoreInv, StoreTypeOK, CallsTypeOK
    <3>2. ProcessOf[w] # ProcessOf[u]
      <4>1. Exclusive
        BY DEF StoreInv
      <4>2. pc[u] \in Holding /\ pc[w] \in Holding
        BY <2>1, <2>5 DEF Holding
      <4>3. lock[ProcessOf[u]] = u /\ lock[ProcessOf[w]] = w
        BY <4>1, <4>2 DEF Exclusive
      <4> QED
        BY <2>5, <4>3
    <3>3. run[w] # run[u]
      BY <2>4, <2>5, <3>2 DEF Between, At
    <3> QED
      BY <2>1, <3>1, <3>3
  <2>6. \A w \in Thread : w \in Between(run[u], ProcessOf[u]) => pc[w] = "reading_tasks"
    BY DEF Between, At
  <2> QED
    BY <1>k, <2>3, <2>4, <2>5, <2>6 DEF Undisturbed
<1>2. CASE ~Commit(u)
  <2>1. db' = db /\ age' = age
    BY <1>2 DEF Call, Step, tables, CallSave, CallLoad, LatestRun, EnterSave, InsertRow,
                ReplaceTasks, Abort, RowMissing, ReadRow, ReadTasks, Return
  <2>2. \A w \in Thread : w # u => (w \in interfered' <=> w \in interfered)
    <3>1. interfered' = interfered \/ interfered' = interfered \ {u}
      BY <1>2 DEF Call, Step, CallSave, CallLoad, LatestRun, EnterSave, InsertRow,
                  ReplaceTasks, Abort, RowMissing, ReadRow, ReadTasks, Return, Finish,
                  FinishAndHit
    <3> QED
      BY <3>1
  <2> QED
    BY <1>k, <2>1, <2>2 DEF Undisturbed
<1> QED
  BY <1>1, <1>2

(***************************************************************************)
(* Nothing is left in the hands of a thread whose call is over.            *)
(***************************************************************************)
LEMMA FinishedHands ==
  ASSUME NEW u \in Thread, StoreTypeOK, Finish(u) \/ (Commit(u) /\ At(u, "committing"))
  PROVE  InHand(u)'
<1>1. /\ pc'[u] = "idle" /\ op'[u] = "none" /\ val'[u] = NoRun
  BY DEF Commit, Finish, FinishAndHit, Go, StoreTypeOK, CallsTypeOK
<1>2. u \notin interfered'
  BY DEF Commit, Finish, FinishAndHit, Between, At
<1> QED
  BY <1>1, <1>2
  DEF InHand, SaveInHand, CancelInHand, LoadInHand, HandsFree, Shows, At, Saving

(***************************************************************************)
(* What a load returns is what is stored.                                  *)
(***************************************************************************)
LEMMA LoadedIsWhole ==
  ASSUME StoreInv, NEW u \in Thread, pc[u] = "reading_tasks"
  PROVE  /\ run[u] \in Run
         /\ Stored(run[u]) \in Whole(run[u])
         /\ View(u).tasks[run[u]] = Stored(run[u]).records
         /\ db.rows[run[u]] = Stored(run[u]).state
<1>1. run[u] \in Run
  BY DEF StoreInv, StoreTypeOK, CallsTypeOK
<1>2. db.rows[run[u]] # "none"
  BY DEF StoreInv, LoadInHand
<1>3. Stored(run[u]) # NoRun
  BY <1>2 DEF Stored, NoRun
<1>4. Stored(run[u]) \in Whole(run[u])
  BY <1>1, <1>3 DEF StoreInv, CommittedIsWhole
<1>5. View(u) = db
  BY LoadsSeeCommitted
<1> QED
  BY <1>1, <1>4, <1>5 DEF Stored

(***************************************************************************)
(* What a thread has in its hands after a step of its own.                 *)
(***************************************************************************)
LEMMA OwnHands ==
  ASSUME StoreInv, StoreTypeOK', NEW u \in Thread,
         Step(u) \/ Call(u) \/ \E r \in Run : Owner[r] = u /\ CallSave(r)
  PROVE  InHand(u)'
<1> USE StoreAssumption
<1>t. StoreTypeOK /\ InHand(u)
  BY ByThreads
<1>p. /\ pc \in [Thread -> Saving \cup {"idle", "reading_row", "reading_tasks", "shown"}]
      /\ op \in [Thread -> {"none", "save", "show", "cancel", "status"}]
      /\ run \in [Thread -> Run \cup {0}]
      /\ val \in [Thread -> [state : WorkflowState \cup {"none"}, records : Records]]
      /\ found \in [Thread -> WorkflowState \cup {"none"}]
  BY <1>t DEF StoreTypeOK, CallsTypeOK
<1>d. pc[u] # "idle" => run[u] \in Run
  BY DEF StoreInv, StoreTypeOK, CallsTypeOK
<1>1. ASSUME NEW r \in Run, Owner[r] = u, CallSave(r) PROVE InHand(u)'
  <2>1. /\ pc'[u] = "saving" /\ op'[u] = "save" /\ run'[u] = r
        /\ val'[u] = Life[r][age[r]] /\ age[r] # 0 /\ age' = age
    BY <1>1, <1>p DEF CallSave, Go
  <2> QED
    BY <1>1, <2>1 DEF InHand, SaveInHand, CancelInHand, LoadInHand, HandsFree, Shows, At, Saving
<1>2. ASSUME NEW r \in Run, NEW what \in {"show", "cancel"}, CallLoad(u, what, r)
      PROVE  InHand(u)'
  <2>1. /\ pc'[u] = "reading_row" /\ op'[u] = what /\ val'[u] = val[u] /\ pc[u] = "idle"
    BY <1>2, <1>p DEF CallLoad, Go, At
  <2>2. val[u] = NoRun
    BY <1>t, <2>1 DEF InHand, HandsFree
  <2> QED
    BY <2>1, <2>2 DEF InHand, SaveInHand, CancelInHand, LoadInHand, HandsFree, Shows, At, Saving
<1>3. CASE LatestRun(u)
  <2>1. /\ pc'[u] = "reading_row" /\ op'[u] = "status" /\ val'[u] = val[u] /\ pc[u] = "idle"
        /\ Free(u) /\ db' = db
    BY <1>3, <1>p DEF LatestRun, Go, At, tables
  <2>2. val[u] = NoRun
    BY <1>t, <2>1 DEF InHand, HandsFree
  <2>3. View(u) = db
    BY <2>1, LoadsSeeCommitted
  <2>4. PICK r \in Listed(u) : run' = [run EXCEPT ![u] = r]
    BY <1>3 DEF LatestRun
  <2>5. run'[u] = r /\ db'.rows[r] # "none"
    BY <1>p, <2>1, <2>3, <2>4 DEF Listed
  <2> QED
    BY <2>1, <2>2, <2>5
    DEF InHand, SaveInHand, CancelInHand, LoadInHand, HandsFree, Shows, At, Saving
<1>4. CASE EnterSave(u) \/ InsertRow(u) \/ ReplaceTasks(u)
  <2>1. /\ pc[u] \in Saving /\ pc'[u] \in Saving
        /\ op'[u] = op[u] /\ run'[u] = run[u] /\ val'[u] = val[u] /\ found'[u] = found[u]
        /\ age' = age /\ db' = db
    BY <1>4, <1>p DEF EnterSave, InsertRow, ReplaceTasks, Go, At, Saving, tables
  <2> QED
    BY <1>t, <2>1
    DEF InHand, SaveInHand, CancelInHand, LoadInHand, HandsFree, Shows, At, Saving
<1>5. CASE Commit(u) \/ Abort(u) \/ Return(u) \/ (RowMissing(u) /\ op[u] = "cancel")
  <2>1. Commit(u) => At(u, "committing")
    BY DEF Commit
  <2>2. Abort(u) \/ Return(u) \/ (RowMissing(u) /\ op[u] = "cancel") => Finish(u)
    BY DEF Abort, Return, RowMissing
  <2> QED
    BY <1>5, <1>t, <2>1, <2>2, FinishedHands
<1>6. CASE RowMissing(u) /\ op[u] # "cancel"
  <2>1. /\ pc[u] = "reading_row" /\ pc'[u] = "shown" /\ op'[u] = op[u] /\ val'[u] = val[u]
        /\ Free(u) /\ View(u).rows[run[u]] = "none"
    BY <1>6, <1>p DEF RowMissing, Go, At
  <2>2. View(u) = db
    BY <2>1, LoadsSeeCommitted
  <2>3. op[u] = "show" /\ val[u] = NoRun
    BY <1>t, <1>6, <2>1, <2>2 DEF InHand, LoadInHand
  <2> QED
    BY <2>1, <2>3
    DEF InHand, SaveInHand, CancelInHand, LoadInHand, HandsFree, Shows, At, Saving
<1>7. CASE ReadRow(u)
  <2>1. /\ pc[u] = "reading_row" /\ pc'[u] = "reading_tasks" /\ op'[u] = op[u]
        /\ run'[u] = run[u] /\ Free(u) /\ View(u).rows[run[u]] # "none" /\ db' = db
        /\ found'[u] = View(u).rows[run[u]]
    BY <1>7, <1>p DEF ReadRow, Go, At, Take, tables
  <2>4. val'[u].state = View(u).rows[run[u]]
    <3>1. val[u] \in [state : WorkflowState \cup {"none"}, records : Records]
      BY <1>p
    <3>2. val'[u] = [val[u] EXCEPT !.state = View(u).rows[run[u]]]
      BY <1>7, <1>p DEF ReadRow
    <3> QED
      BY <3>1, <3>2
  <2>2. View(u) = db
    BY <2>1, LoadsSeeCommitted
  <2>3. op[u] \in {"show", "cancel", "status"}
    BY <1>t, <2>1 DEF InHand, LoadInHand
  <2> QED
    BY <2>1, <2>2, <2>3, <2>4
    DEF InHand, SaveInHand, CancelInHand, LoadInHand, HandsFree, Shows, At, Saving
<1>8. CASE ReadTasks(u)
  <2>1. pc[u] = "reading_tasks" /\ db' = db
    BY <1>8 DEF ReadTasks, At, tables
  <2>2. /\ run[u] \in Run /\ Stored(run[u]) \in Whole(run[u])
        /\ View(u).tasks[run[u]] = Stored(run[u]).records
        /\ db.rows[run[u]] = Stored(run[u]).state
    BY <2>1, LoadedIsWhole
  <2>3. /\ op[u] \in {"show", "cancel", "status"}
        /\ found[u] = val[u].state /\ val[u].state # "none"
        /\ db.rows[run[u]] # "none"
        /\ u \notin interfered => val[u].state = db.rows[run[u]]
    BY <1>t, <2>1 DEF InHand, LoadInHand
  <2> DEFINE records == View(u).tasks[run[u]]
  <2>4. CASE op[u] # "cancel"
    <3>1. /\ pc'[u] = "shown" /\ op'[u] = op[u] /\ run'[u] = run[u]
          /\ val'[u] = [val[u] EXCEPT !.records = records] /\ interfered' = interfered
      BY <1>8, <1>p, <2>4 DEF ReadTasks, Go
    <3>6. val[u] \in [state : WorkflowState \cup {"none"}, records : Records]
      BY <1>p
    <3>7. [val[u] EXCEPT !.records = records] = [state |-> val[u].state, records |-> records]
      BY <3>6
    <3>4. val'[u] = [state |-> val[u].state, records |-> records]
      BY <3>1, <3>7
    <3>2. val'[u].state = val[u].state
      BY <3>4
    <3>3. val'[u] # NoRun
      BY <2>3, <3>2 DEF NoRun
    <3>5. u \notin interfered => val'[u] = Stored(run[u])
      BY <2>2, <2>3, <3>4 DEF Stored
    <3> QED
      BY <2>2, <2>3, <3>1, <3>3, <3>5
      DEF InHand, SaveInHand, CancelInHand, LoadInHand, HandsFree, Shows, At, Saving
  <2>5. CASE op[u] = "cancel" /\ val[u].state \in Terminal
    BY <1>8, <1>t, <2>5, FinishedHands DEF ReadTasks
  <2>6. CASE op[u] = "cancel" /\ val[u].state \notin Terminal
    <3>1. /\ pc'[u] = "saving" /\ op'[u] = op[u] /\ run'[u] = run[u] /\ found'[u] = found[u]
          /\ val'[u] = [state |-> "cancelled", records |-> records]
      BY <1>8, <1>p, <2>6 DEF ReadTasks, Go
    <3>2. val'[u] \in Cancels(run[u])
      BY <2>2, <3>1, WholeFacts
    <3> QED
      BY <2>1, <2>3, <2>6, <3>1, <3>2
      DEF InHand, SaveInHand, CancelInHand, LoadInHand, HandsFree, Shows, At, Saving
  <2> QED
    BY <2>4, <2>5, <2>6
<1> QED
  BY <1>1, <1>2, <1>3, <1>4, <1>5, <1>6, <1>7, <1>8 DEF Call, Step

(***************************************************************************)
(* Every step keeps what is in anyone's hands.                             *)
(***************************************************************************)
LEMMA HandsStep ==
  ASSUME StoreInv, StoreTypeOK', [Next]_vars
  PROVE  \A w \in Thread : InHand(w)'
<1> USE StoreAssumption
<1>t. StoreTypeOK /\ \A w \in Thread : InHand(w)
  BY ByThreads
<1>1. ASSUME NEW u \in Thread, Step(u) \/ Call(u) \/ \E r \in Run : Owner[r] = u /\ CallSave(r)
      PROVE  \A w \in Thread : InHand(w)'
  <2>1. Kept(u)
    <3>1. CASE Step(u) \/ Call(u)
      BY <1>t, <3>1, OthersKeep
    <3>2. CASE \E r \in Run : Owner[r] = u /\ CallSave(r)
      <4>1. PICK r \in Run : Owner[r] = u /\ CallSave(r)
        BY <3>2
      <4>2. /\ pc' = [pc EXCEPT ![u] = "saving"] /\ op' = [op EXCEPT ![u] = "save"]
            /\ run' = [run EXCEPT ![u] = r]
            /\ val' = [val EXCEPT ![u] = Life[r][age[r]]] /\ found' = found
        BY <4>1 DEF CallSave, Go
      <4>3. /\ DOMAIN pc = Thread /\ DOMAIN op = Thread /\ DOMAIN run = Thread
            /\ DOMAIN val = Thread
        BY <1>t DEF StoreTypeOK, CallsTypeOK
      <4>4. \A w \in Thread : w # u => pc'[w] = pc[w] /\ op'[w] = op[w] /\ run'[w] = run[w]
        BY <4>2, <4>3
      <4>5. \A w \in Thread : w # u => val'[w] = val[w] /\ found'[w] = found[w]
        BY <4>2, <4>3
      <4> QED
        BY <4>4, <4>5 DEF Kept
    <3> QED
      BY <1>1, <3>1, <3>2
  <2>2. \A w \in Thread : w # u => Undisturbed(w)
    BY <1>1, <2>1, OthersUndisturbed
  <2>3. InHand(u)'
    BY <1>1, OwnHands
  <2> QED
    BY <2>2, <2>3, UndisturbedHands
<1>2. ASSUME NEW r \in Run, Work(r) PROVE \A w \in Thread : InHand(w)'
  <2>1. /\ pc[Owner[r]] = "idle" /\ UNCHANGED <<pc, op, run, val, found, interfered, db>>
        /\ age' = [age EXCEPT ![r] = age[r] + 1]
    BY <1>2 DEF Work, At, calls, tables
  <2>2. \A s \in Run : s # r => age'[s] = age[s]
    BY <2>1 DEF StoreInv, StoreTypeOK, AgesTypeOK
  <2>3. \A w \in Thread : SaveInHand(w)'
    <3> SUFFICES ASSUME NEW w \in Thread, op[w] = "save"
                 PROVE  /\ pc[w] \in Saving /\ Owner[run[w]] = w /\ age'[run[w]] # 0
                        /\ val[w] = Life[run[w]][age'[run[w]]]
      BY <2>1 DEF SaveInHand
    <3>1. /\ pc[w] \in Saving /\ Owner[run[w]] = w /\ age[run[w]] # 0
          /\ val[w] = Life[run[w]][age[run[w]]]
      BY <1>t DEF InHand, SaveInHand
    <3>2. run[w] \in Run
      BY <3>1, SavesARun
    <3>3. run[w] # r
      BY <2>1, <3>1 DEF Saving
    <3> QED
      BY <2>2, <3>1, <3>2, <3>3
  <2> QED
    BY <1>t, <2>1, <2>3 DEF InHand, CancelInHand, LoadInHand, HandsFree, Shows, At
<1>3. ASSUME NEW p \in Process, Crash(p) PROVE \A w \in Thread : InHand(w)'
  <2>1. ASSUME NEW w \in Thread, ProcessOf[w] = p PROVE InHand(w)'
    <3>1. pc'[w] = "idle" /\ op'[w] = "none" /\ val'[w] = NoRun /\ w \notin interfered'
      BY <1>3, <2>1 DEF Crash
    <3> QED
      BY <3>1 DEF InHand, SaveInHand, CancelInHand, LoadInHand, HandsFree, Shows, At, Saving
  <2>2. ASSUME NEW w \in Thread, ProcessOf[w] # p PROVE InHand(w)'
    <3>1. /\ pc'[w] = pc[w] /\ op'[w] = op[w] /\ run'[w] = run[w] /\ val'[w] = val[w]
          /\ found'[w] = found[w] /\ db' = db
      BY <1>3, <2>2 DEF Crash
    <3>2. w \in interfered' <=> w \in interfered
      BY <1>3, <2>2 DEF Crash, StoreInv, StoreTypeOK, CallsTypeOK
    <3>3. SaveInHand(w)'
      <4> SUFFICES ASSUME op[w] = "save"
                   PROVE  /\ pc[w] \in Saving /\ Owner[run[w]] = w /\ age'[run[w]] # 0
                          /\ val[w] = Life[run[w]][age'[run[w]]]
        BY <3>1 DEF SaveInHand
      <4>1. /\ pc[w] \in Saving /\ Owner[run[w]] = w /\ age[run[w]] # 0
            /\ val[w] = Life[run[w]][age[run[w]]]
        BY <1>t DEF InHand, SaveInHand
      <4>2. run[w] \in Run
        BY <4>1, SavesARun
      <4>3. age'[run[w]] = age[run[w]]
        BY <1>3, <2>2, <4>1, <4>2 DEF Crash
      <4> QED
        BY <4>1, <4>3
    <3> QED
      BY <1>t, <3>1, <3>2, <3>3 DEF InHand, CancelInHand, LoadInHand, HandsFree, Shows, At
  <2> QED
    BY <2>1, <2>2
<1>4. CASE UNCHANGED vars
  BY <1>4, <1>t
  DEF vars, InHand, SaveInHand, CancelInHand, LoadInHand, HandsFree, Shows, At
<1>5. \A r \in Run : CallSave(r) => \E u \in Thread : Owner[r] = u /\ CallSave(r)
  OBVIOUS
<1> QED
  BY <1>1, <1>2, <1>3, <1>4, <1>5 DEF Next

(***************************************************************************)
(* At the start nothing is stored, nothing locked, nobody in a call.       *)
(***************************************************************************)
LEMMA StoreInitial == Init => StoreInv
<1> SUFFICES ASSUME Init PROVE StoreInv
  OBVIOUS
<1> USE StoreAssumption
<1>1. TablesTypeOK
  <2>1. db \in Database
    BY RunParts DEF Init, Database
  <2> QED
    BY <2>1 DEF Init, TablesTypeOK
<1>2. CallsTypeOK
  <2>1. NoRun \in [state : WorkflowState \cup {"none"}, records : Records]
    BY RunParts DEF NoRun
  <2> QED
    BY <2>1 DEF Init, CallsTypeOK
<1>3. AgesTypeOK
  BY LifeFacts DEF Init, AgesTypeOK
<1>4. Exclusive
  BY DEF Init, Exclusive, Holding, InTxn
<1>5. DraftIsNext
  BY DEF Init, DraftIsNext
<1>6. CommittedIsWhole
  <2>1. \A r \in Run : Stored(r) = NoRun
    BY DEF Init, Stored, NoRun
  <2>2. \A r \in Run : NoRun \notin Points(r)
    BY WholeFacts DEF NoRun
  <2> QED
    BY <2>1, <2>2 DEF CommittedIsWhole
<1>7. \A w \in Thread : InHand(w)
  BY DEF Init, InHand, SaveInHand, CancelInHand, LoadInHand, HandsFree, Shows, At, Saving
<1> QED
  BY <1>1, <1>2, <1>3, <1>4, <1>5, <1>6, <1>7, ByThreads DEF StoreTypeOK

(***************************************************************************)
(* The invariant of the run store.                                         *)
(***************************************************************************)
THEOREM StoreInvariance == Spec => []StoreInv
<1>1. StoreInv /\ [Next]_vars => StoreInv'
  <2> SUFFICES ASSUME StoreInv, [Next]_vars PROVE StoreInv'
    OBVIOUS
  <2>1. StoreTypeOK'
    BY AgesStep, TablesStep, CallsStep DEF StoreTypeOK
  <2>2. Exclusive' /\ DraftIsNext' /\ CommittedIsWhole'
    BY ExclusiveStep, DraftStep, CommittedStep
  <2>3. \A w \in Thread : InHand(w)'
    BY <2>1, HandsStep
  <2>4. LoadsAreWhole' /\ StatusFindsItsRun'
    BY <2>3 DEF InHand, Shows, LoadsAreWhole, StatusFindsItsRun, Whole
  <2> QED
    BY <2>1, <2>2, <2>3, <2>4 DEF StoreInv, InHand
<1> QED
  BY <1>1, StoreInitial, PTL DEF Spec

(***************************************************************************)
(* A load is never torn, unless another process commits between its two    *)
(* SELECTs (persistence.py 158-202).                                       *)
(***************************************************************************)
THEOREM LoadsWhole == Spec => []LoadsAreWhole
<1>1. StoreInv => LoadsAreWhole
  BY DEF StoreInv
<1> QED
  BY <1>1, StoreInvariance, PTL

(***************************************************************************)
(* workflow status finds the run that it listed (cli.py, persistence.py    *)
(* 160).                                                                   *)
(***************************************************************************)
THEOREM StatusFinds == Spec => []StatusFindsItsRun
<1>1. StoreInv => StatusFindsItsRun
  BY DEF StoreInv
<1> QED
  BY <1>1, StoreInvariance, PTL

(***************************************************************************)
(* compute_run_metrics can count the records of every run that is shown as *)
(* ended (observability.py 104).                                           *)
(***************************************************************************)
THEOREM EndedMeasured == Spec => []EndedRunsAreMeasured
<1>1. StoreInv => EndedRunsAreMeasured
  <2> SUFFICES ASSUME StoreInv, NEW u \in Thread, pc[u] = "shown",
                      val[u].state \in {"success", "failed"}, u \notin interfered
               PROVE  Measured(val[u])
    BY DEF EndedRunsAreMeasured, At
  <2>1. run[u] \in Run
    BY DEF StoreInv, StoreTypeOK, CallsTypeOK
  <2>2. val[u] # NoRun
    BY DEF NoRun
  <2>3. val[u] \in Whole(run[u])
    BY <2>2 DEF StoreInv, LoadsAreWhole, At, Whole
  <2>4. val[u] \in Points(run[u])
    BY <2>1, <2>3, WholeFacts DEF Whole
  <2>5. PICK i \in 1 .. Len(Life[run[u]]) : val[u] = Life[run[u]][i]
    BY <2>1, <2>4, LifeFacts DEF Points
  <2>6. i = Len(Life[run[u]])
    BY <2>1, <2>5, LifeFacts
  <2> QED
    BY <2>1, <2>5, <2>6, LifeFacts
<1> QED
  BY <1>1, StoreInvariance, PTL

(***************************************************************************)
(* Whatever statements, locks, crashes and races do, what is stored are    *)
(* whole runs that replace each other (persistence.py 99-202).             *)
(***************************************************************************)
THEOREM StoreIsAtomic == Spec => ImplementsAtomicStore
<1>1. Init => Store!StoreInit
  <2> SUFFICES ASSUME Init PROVE Store!StoreInit
    OBVIOUS
  <2>1. \A r \in Run : Stored(r) = NoRun
    BY DEF Init, Stored, NoRun
  <2> QED
    BY <2>1 DEF Store!StoreInit
<1>2. StoreInv /\ [Next]_vars => [Store!StoreNext]_([r \in Run |-> Stored(r)])
  <2> SUFFICES ASSUME StoreInv, [Next]_vars
               PROVE  [Store!StoreNext]_([r \in Run |-> Stored(r)])
    OBVIOUS
  <2>1. CASE db' = db
    <3>1. \A r \in Run : Stored(r)' = Stored(r)
      BY <2>1 DEF Stored
    <3> QED
      BY <3>1
  <2>2. ASSUME NEW u \in Thread, Commit(u) PROVE Store!StoreNext
    <3>1. /\ run[u] \in Run /\ pc[u] \in Saving
          /\ \A s \in Run : Stored(s)' = IF s = run[u] THEN val[u] ELSE Stored(s)
      BY <2>2, CommitReplacesOne
    <3>2. [r \in Run |-> Stored(r)]' = [[r \in Run |-> Stored(r)] EXCEPT ![run[u]] = val[u]]
      BY <3>1
    <3>3. CASE op[u] = "save"
      <4>1. age[run[u]] # 0 /\ val[u] = Life[run[u]][age[run[u]]]
        BY <3>3 DEF StoreInv, SaveInHand
      <4>2. age[run[u]] \in DOMAIN Life[run[u]]
        BY <3>1, <4>1, LifeFacts DEF StoreInv, StoreTypeOK, AgesTypeOK
      <4>3. Stored(run[u]) \in Points(run[u]) =>
              \E j \in 1 .. age[run[u]] : Stored(run[u]) = Life[run[u]][j]
        BY <3>1, <4>1 DEF StoreInv, CommittedIsWhole
      <4>4. Store!Save(run[u])
        BY <3>1, <3>2, <4>1, <4>2, <4>3 DEF Store!Save, Store!Points, Points
      <4> QED
        BY <3>1, <4>4 DEF Store!StoreNext
    <3>4. CASE op[u] # "save"
      <4>1. /\ val[u] \in Cancels(run[u])
            /\ db.rows[run[u]] # "none"
        BY <3>1, <3>4 DEF StoreInv, CancelInHand
      <4>2. Stored(run[u]) # NoRun
        BY <4>1 DEF Stored, NoRun
      <4>3. PICK v \in Points(run[u]) : val[u] = [v EXCEPT !.state = "cancelled"]
        BY <4>1 DEF Cancels, Cancelled
      <4>4. Store!Cancel(run[u])
        BY <3>1, <3>2, <4>2, <4>3 DEF Store!Cancel, Store!Points, Store!Cancelled, Points
      <4> QED
        BY <3>1, <4>4 DEF Store!StoreNext
    <3> QED
      BY <3>3, <3>4
  <2>3. ASSUME NEW u \in Thread, Step(u) \/ Call(u), ~Commit(u) PROVE db' = db
    BY <2>3 DEF Call, Step, tables, CallLoad, LatestRun, EnterSave, InsertRow, ReplaceTasks,
                Abort, RowMissing, ReadRow, ReadTasks, Return
  <2>4. ASSUME NEW r \in Run, Work(r) \/ CallSave(r) PROVE db' = db
    BY <2>4 DEF Work, CallSave, tables
  <2>5. ASSUME NEW p \in Process, Crash(p) PROVE db' = db
    BY <2>5 DEF Crash
  <2>6. CASE UNCHANGED vars
    BY <2>1, <2>6 DEF vars
  <2> QED
    BY <2>1, <2>2, <2>3, <2>4, <2>5, <2>6 DEF Next
<1> QED
  BY <1>1, <1>2, StoreInvariance, PTL DEF Spec, ImplementsAtomicStore, Store!StoreSpec

(***************************************************************************)
(* A run that is stored as ended changes by a cancel that loaded it before *)
(* its end, or, if it was cancelled, by the run that went on               *)
(* (persistence.py 99-156).                                                *)
(***************************************************************************)
THEOREM EndedChangeByRaces == Spec => EndedRunsChangeByRaces
<1> DEFINE Race(r) ==
      db.rows[r] \in Terminal /\ db'.rows[r] # db.rows[r] =>
        \E u \in Thread :
          /\ At(u, "committing") /\ run[u] = r
          /\ \/ op[u] = "cancel" /\ found[u] # db.rows[r]
             \/ op[u] = "save" /\ db.rows[r] = "cancelled"
<1>1. StoreInv /\ [Next]_vars => [\A r \in Run : Race(r)]_vars
  <2> SUFFICES ASSUME StoreInv, [Next]_vars, NEW r \in Run,
                      db.rows[r] \in Terminal, db'.rows[r] # db.rows[r]
               PROVE  \E u \in Thread :
                        /\ At(u, "committing") /\ run[u] = r
                        /\ \/ op[u] = "cancel" /\ found[u] # db.rows[r]
                           \/ op[u] = "save" /\ db.rows[r] = "cancelled"
    OBVIOUS
  <2>1. PICK u \in Thread : Commit(u)
    <3>1. ASSUME NEW u \in Thread, Step(u) \/ Call(u), ~Commit(u) PROVE db' = db
      BY <3>1 DEF Call, Step, tables, CallLoad, LatestRun, EnterSave, InsertRow, ReplaceTasks,
                  Abort, RowMissing, ReadRow, ReadTasks, Return
    <3>2. ASSUME NEW s \in Run, Work(s) \/ CallSave(s) PROVE db' = db
      BY <3>2 DEF Work, CallSave, tables
    <3>3. ASSUME NEW p \in Process, Crash(p) PROVE db' = db
      BY <3>3 DEF Crash
    <3> QED
      BY <3>1, <3>2, <3>3 DEF Next, vars
  <2>2. /\ pc[u] = "committing" /\ pc[u] \in Saving /\ run[u] = r
        /\ db'.rows[r] = val[u].state
    BY <2>1, CommitReplacesOne
  <2>3. CASE op[u] # "save"
    <3>1. op[u] = "cancel" /\ found[u] \notin Terminal
      BY <2>2, <2>3 DEF StoreInv, CancelInHand
    <3> QED
      BY <2>2, <3>1 DEF At
  <2>4. CASE op[u] = "save"
    <3>1. age[r] # 0 /\ val[u] = Life[r][age[r]]
      BY <2>2, <2>4 DEF StoreInv, SaveInHand
    <3>2. age[r] \in 1 .. Len(Life[r])
      BY <3>1, LifeFacts DEF StoreInv, StoreTypeOK, AgesTypeOK
    <3>3. SUFFICES ASSUME db.rows[r] # "cancelled" PROVE FALSE
      BY <2>2, <2>4 DEF At
    <3>4. Stored(r).state = db.rows[r]
      BY DEF Stored
    <3>5. Stored(r) # NoRun
      BY <3>4 DEF NoRun, Terminal
    <3>6. Stored(r) \in Points(r)
      BY <3>3, <3>4, <3>5, WholeFacts DEF StoreInv, CommittedIsWhole, Whole
    <3>7. PICK j \in 1 .. age[r] : Stored(r) = Life[r][j]
      BY <3>1, <3>6 DEF StoreInv, CommittedIsWhole
    <3>8. j \in 1 .. Len(Life[r]) /\ j <= age[r]
      BY <3>2, <3>7, LifeFacts
    <3>9. j = Len(Life[r])
      BY <3>4, <3>7, <3>8, LifeFacts DEF Terminal
    <3> QED
      BY <2>2, <3>1, <3>2, <3>4, <3>7, <3>8, <3>9, LifeFacts
  <2> QED
    BY <2>3, <2>4
<1> QED
  BY <1>1, StoreInvariance, PTL DEF Spec, EndedRunsChangeByRaces
(***************************************************************************)
(* How far a call has come in the store.                                   *)
(***************************************************************************)
Place == Saving \cup {"idle", "reading_row", "reading_tasks", "shown"}

Stage ==
  [here \in Place |->
     CASE here = "reading_row"   -> 1
       [] here = "reading_tasks" -> 2
       [] here = "saving"        -> 3
       [] here = "inserting"     -> 4
       [] here = "replacing"     -> 5
       [] here = "committing"    -> 6
       [] here = "shown"         -> 7
       [] here = "idle"          -> 8]

(***************************************************************************)
(* A call only goes forward: whatever is raised, it never takes the lock   *)
(* or a statement again, so that it is over after at most seven steps of   *)
(* its thread.                                                             *)
(***************************************************************************)
CallsGoForward ==
  [][\A u \in Thread :
       /\ Step(u) => pc'[u] # pc[u]
       /\ ~At(u, "idle") /\ pc'[u] # pc[u] => Stage[pc[u]] < Stage[pc'[u]]]_vars

(***************************************************************************)
(* Where a thread can go on, without an error: it waits for nothing but    *)
(* the lock of its process, and before its first INSERT for the            *)
(* transaction of another.                                                 *)
(***************************************************************************)
CanGoOn(u) ==
  \/ pc[u] \in {"replacing", "committing", "reading_tasks", "shown"}
  \/ pc[u] = "inserting" /\ writer = NoProcess
  \/ pc[u] \in {"saving", "reading_row"} /\ Free(u)

NobodyWaitsForAll ==
  (\E u \in Thread : ~At(u, "idle")) => \E u \in Thread : CanGoOn(u)

(***************************************************************************)
(* The stage of each place.                                                *)
(***************************************************************************)
LEMMA Stages ==
  /\ \A here \in Place : Stage[here] \in Nat
  /\ Stage["reading_row"] < Stage["reading_tasks"]
  /\ Stage["reading_row"] < Stage["shown"]
  /\ Stage["reading_tasks"] < Stage["saving"]
  /\ Stage["reading_tasks"] < Stage["shown"]
  /\ Stage["saving"] < Stage["inserting"]
  /\ Stage["inserting"] < Stage["replacing"]
  /\ Stage["replacing"] < Stage["committing"]
  /\ \A here \in Place \ {"idle"} : Stage[here] < Stage["idle"]
<1>1. Place = {"saving", "inserting", "replacing", "committing",
               "idle", "reading_row", "reading_tasks", "shown"}
  BY DEF Place, Saving
<1>2. \A here \in Place : Stage[here] \in Nat
  BY <1>1 DEF Stage
<1>3. Stage["reading_row"] = 1 /\ Stage["reading_tasks"] = 2
  BY <1>1 DEF Stage
<1>4. Stage["saving"] = 3 /\ Stage["inserting"] = 4
  BY <1>1 DEF Stage
<1>5. Stage["replacing"] = 5 /\ Stage["committing"] = 6
  BY <1>1 DEF Stage
<1>6. Stage["shown"] = 7 /\ Stage["idle"] = 8
  BY <1>1 DEF Stage
<1>7. \A here \in Place \ {"idle"} : Stage[here] < Stage["idle"]
  <2> TAKE here \in Place \ {"idle"}
  <2>1. \/ here = "saving" \/ here = "inserting" \/ here = "replacing" \/ here = "committing"
        \/ here = "reading_row" \/ here = "reading_tasks" \/ here = "shown"
    BY <1>1
  <2> QED
    BY <2>1, <1>3, <1>4, <1>5, <1>6
<1> QED
  BY <1>2, <1>3, <1>4, <1>5, <1>6, <1>7

(***************************************************************************)
(* A call of load_run, save_run or cancel_run takes the lock, reads or     *)
(* writes, and returns, forward only (persistence.py 99-202).              *)
(***************************************************************************)
THEOREM StoreCallsEnd == Spec => CallsGoForward
<1> DEFINE Forward(u) ==
      /\ Step(u) => pc'[u] # pc[u]
      /\ ~At(u, "idle") /\ pc'[u] # pc[u] => Stage[pc[u]] < Stage[pc'[u]]
<1>1. StoreInv /\ [Next]_vars => [\A u \in Thread : Forward(u)]_vars
  <2> SUFFICES ASSUME StoreInv, Next, NEW u \in Thread PROVE Forward(u)
    OBVIOUS
  <2>1. pc \in [Thread -> Place] /\ pc' \in [Thread -> Place]
    BY CallsStep DEF StoreInv, StoreTypeOK, CallsTypeOK, Place
  <2>2. ASSUME NEW w \in Thread, Step(w)
        PROVE  /\ Stage[pc[w]] < Stage[pc'[w]]
               /\ \A v \in Thread \ {w} : pc'[v] = pc[v]
    <3>1. \E here \in Place :
            /\ pc' = [pc EXCEPT ![w] = here]
            /\ \/ At(w, "saving") /\ here = "inserting"
               \/ At(w, "inserting") /\ here = "replacing"
               \/ At(w, "replacing") /\ here = "committing"
               \/ At(w, "reading_row") /\ here \in {"reading_tasks", "shown"}
               \/ At(w, "reading_tasks") /\ here \in {"saving", "shown"}
               \/ ~At(w, "idle") /\ here = "idle"
      <4>1. CASE EnterSave(w) \/ InsertRow(w) \/ ReplaceTasks(w)
        BY <4>1 DEF EnterSave, InsertRow, ReplaceTasks, Go, At, Place, Saving
      <4>2. CASE Commit(w) \/ Abort(w) \/ Return(w)
        BY <4>2 DEF Commit, Abort, Return, Finish, FinishAndHit, Go, At, Place, Saving
      <4>3. CASE RowMissing(w) \/ ReadRow(w)
        BY <4>3 DEF RowMissing, ReadRow, Finish, FinishAndHit, Go, At, Place, Saving
      <4>4. CASE ReadTasks(w)
        BY <4>4 DEF ReadTasks, Finish, FinishAndHit, Go, At, Place, Saving
      <4> QED
        BY <2>2, <4>1, <4>2, <4>3, <4>4 DEF Step
    <3>2. PICK here \in Place : pc' = [pc EXCEPT ![w] = here]
                               /\ Stage[pc[w]] < Stage[here]
      <4>1. ~At(w, "idle") => Stage[pc[w]] < Stage["idle"]
        BY <2>1, Stages DEF At
      <4> QED
        BY <3>1, <4>1, Stages DEF At
    <3> QED
      BY <2>1, <3>2
  <2>3. Stage[pc[u]] \in Nat
    BY <2>1, Stages
  <2>4. ASSUME NEW w \in Thread, Call(w) PROVE \A v \in Thread : pc'[v] = pc[v] \/ At(v, "idle")
    BY <2>1, <2>4 DEF Call, CallLoad, LatestRun, Go, At
  <2>5. ASSUME NEW r \in Run, Work(r) \/ CallSave(r)
        PROVE  \A v \in Thread : pc'[v] = pc[v] \/ At(v, "idle")
    BY <2>1, <2>5 DEF Work, CallSave, calls, Go, At
  <2>6. ASSUME NEW p \in Process, Crash(p)
        PROVE  \A v \in Thread : pc'[v] = pc[v] \/ pc'[v] = "idle"
    BY <2>6 DEF Crash
  <2>7. ~At(u, "idle") => Stage[pc[u]] < Stage["idle"]
    BY <2>1, Stages DEF At
  <2>8. Step(u) => pc'[u] # pc[u]
    BY <2>2, <2>3
  <2>9. ~At(u, "idle") /\ pc'[u] # pc[u] => Stage[pc[u]] < Stage[pc'[u]]
    BY <2>2, <2>4, <2>5, <2>6, <2>7 DEF Next
  <2> QED
    BY <2>8, <2>9
<1> QED
  BY <1>1, StoreInvariance, PTL DEF Spec, CallsGoForward

(***************************************************************************)
(* The locks and the one transaction cannot be waited for in a circle:     *)
(* whoever has the transaction has its lock already, and waits for nothing *)
(* (persistence.py 112-133).                                               *)
(***************************************************************************)
THEOREM StoreNeverHangs == Spec => []NobodyWaitsForAll
<1>1. StoreInv => NobodyWaitsForAll
  <2> SUFFICES ASSUME StoreInv, NEW u \in Thread, ~At(u, "idle")
               PROVE  \E w \in Thread : CanGoOn(w)
    BY DEF NobodyWaitsForAll
  <2>1. pc[u] \in Saving \cup {"reading_row", "reading_tasks", "shown"}
    BY DEF StoreInv, StoreTypeOK, CallsTypeOK, At
  <2>2. CASE writer # NoProcess
    BY <2>2 DEF StoreInv, Exclusive, InTxn, CanGoOn
  <2>3. CASE writer = NoProcess /\ pc[u] \in {"saving", "reading_row"} /\ ~Free(u)
    <3>1. lock[ProcessOf[u]] \in Thread /\ lock[ProcessOf[u]] # NoThread
      BY <2>3, StoreAssumption DEF Free, StoreInv, StoreTypeOK, TablesTypeOK
    <3>2. pc[lock[ProcessOf[u]]] \in Holding
      BY <3>1, StoreAssumption DEF StoreInv, Exclusive
    <3> QED
      BY <2>3, <3>1, <3>2 DEF CanGoOn, Holding
  <2>4. CASE writer = NoProcess /\ ~(pc[u] \in {"saving", "reading_row"} /\ ~Free(u))
    BY <2>1, <2>4 DEF CanGoOn, Saving
  <2> QED
    BY <2>2, <2>3, <2>4
<1> QED
  BY <1>1, StoreInvariance, PTL
=============================================================================
