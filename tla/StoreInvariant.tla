--------------------------- MODULE StoreInvariant ---------------------------
(***************************************************************************)
(* The inductive invariant behind the run store, and what it implements.   *)
(***************************************************************************)
EXTENDS RunStore

Saving  == {"saving", "inserting", "replacing", "committing"}
InTxn   == {"replacing", "committing"}
Holding == {"inserting", "replacing", "committing", "reading_tasks"}

Stored(r) == [state |-> db.rows[r], records |-> db.tasks[r]]
Whole(r)  == Points(r) \cup Cancels(r)

Database == [rows : [Run -> WorkflowState \cup {"none"}], tasks : [Run -> Records]]

(***************************************************************************)
(* Who is idle has no locals; who is not has been called for something.    *)
(***************************************************************************)
TablesTypeOK ==
  /\ db \in Database /\ draft \in Database
  /\ writer \in Process \cup {NoProcess}
  /\ lock \in [Process -> Thread \cup {NoThread}]

CallsTypeOK ==
  /\ pc \in [Thread -> Saving \cup {"idle", "reading_row", "reading_tasks", "shown"}]
  /\ op \in [Thread -> {"none", "save", "show", "cancel", "status"}]
  /\ run \in [Thread -> Run \cup {0}]
  /\ val \in [Thread -> [state : WorkflowState \cup {"none"}, records : Records]]
  /\ found \in [Thread -> WorkflowState \cup {"none"}]
  /\ interfered \subseteq Thread
  /\ \A u \in Thread : pc[u] = "idle" <=> run[u] = 0

AgesTypeOK ==
  /\ age \in [Run -> Nat]
  /\ \A r \in Run : age[r] <= Len(Life[r])

StoreTypeOK == TablesTypeOK /\ CallsTypeOK /\ AgesTypeOK

(***************************************************************************)
(* The lock of a process is held by whoever is between its first statement *)
(* and the last, and only the holder has a transaction on the connection.  *)
(***************************************************************************)
Exclusive ==
  /\ \A u \in Thread : pc[u] \in Holding => lock[ProcessOf[u]] = u
  /\ \A p \in Process : lock[p] # NoThread =>
       ProcessOf[lock[p]] = p /\ pc[lock[p]] \in Holding
  /\ \A u \in Thread : pc[u] \in InTxn => writer = ProcessOf[u]
  /\ writer # NoProcess => \E u \in Thread : ProcessOf[u] = writer /\ pc[u] \in InTxn

(***************************************************************************)
(* The draft is what is committed but for the run that is being saved.     *)
(***************************************************************************)
DraftIsNext ==
  /\ writer = NoProcess => draft = db
  /\ \A u \in Thread :
       /\ pc[u] = "replacing" => draft = [db EXCEPT !.rows[run[u]] = val[u].state]
       /\ pc[u] = "committing" =>
            draft = [db EXCEPT !.rows[run[u]] = val[u].state,
                               !.tasks[run[u]] = val[u].records]

(***************************************************************************)
(* What is committed is whole, and while its owner lives no point of its   *)
(* life that is stored is ahead of the owner.                              *)
(***************************************************************************)
CommittedIsWhole ==
  \A r \in Run :
    /\ Stored(r) = NoRun \/ Stored(r) \in Whole(r)
    /\ db.rows[r] = "none" => Stored(r) = NoRun
    /\ age[r] # 0 /\ Stored(r) \in Points(r) =>
         \E j \in 1 .. age[r] : Stored(r) = Life[r][j]

(***************************************************************************)
(* What each call has in its hands.                                        *)
(***************************************************************************)
SaveInHand(u) ==
  op[u] = "save" =>
    /\ pc[u] \in Saving
    /\ Owner[run[u]] = u /\ age[run[u]] # 0
    /\ val[u] = Life[run[u]][age[run[u]]]

CancelInHand(u) ==
  pc[u] \in Saving /\ op[u] # "save" =>
    /\ op[u] = "cancel"
    /\ val[u] \in Cancels(run[u])
    /\ db.rows[run[u]] # "none"
    /\ found[u] \notin Terminal

LoadInHand(u) ==
  /\ pc[u] = "reading_row" =>
       /\ op[u] \in {"show", "cancel", "status"}
       /\ val[u] = NoRun
       /\ op[u] = "status" => db.rows[run[u]] # "none"
  /\ pc[u] = "reading_tasks" =>
       /\ op[u] \in {"show", "cancel", "status"}
       /\ found[u] = val[u].state /\ val[u].state # "none"
       /\ db.rows[run[u]] # "none"
       /\ u \notin interfered => val[u].state = db.rows[run[u]]

(***************************************************************************)
(* Nothing is left in the hands of who is idle, and who may be interfered  *)
(* with is loading or goes on with what it loaded.                         *)
(***************************************************************************)
HandsFree(u) ==
  pc[u] = "idle" => op[u] = "none" /\ val[u] = NoRun /\ u \notin interfered

(***************************************************************************)
(* The inductive invariant of the run store (persistence.py 99-202).       *)
(***************************************************************************)
StoreInv ==
  /\ StoreTypeOK
  /\ Exclusive
  /\ DraftIsNext
  /\ CommittedIsWhole
  /\ \A u \in Thread : SaveInHand(u) /\ CancelInHand(u) /\ LoadInHand(u) /\ HandsFree(u)
  /\ LoadsAreWhole
  /\ StatusFindsItsRun
-----------------------------------------------------------------------------
Store == INSTANCE AtomicStore WITH stored <- [r \in Run |-> Stored(r)]

(***************************************************************************)
(* The store implements the atomic one: two tables, three statements, the  *)
(* races of save_run with cancel_run, and crashes, show only as whole runs *)
(* that replace each other.                                                *)
(***************************************************************************)
ImplementsAtomicStore == Store!StoreSpec
=============================================================================
