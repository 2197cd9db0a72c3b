---------------------------- MODULE AtomicStore ----------------------------
(***************************************************************************)
(* What the run store promises, whatever statements, locks, processes and  *)
(* crashes do: it holds whole runs, each replaced at once by another whole *)
(* one; no run vanishes; saving never takes a run back, except that one    *)
(* that was cancelled may be saved at any point again.                     *)
(***************************************************************************)
EXTENDS Naturals, Sequences

CONSTANTS Run, Life, NoRun

VARIABLE stored

Points(r)    == {Life[r][i] : i \in DOMAIN Life[r]}
Cancelled(v) == [v EXCEPT !.state = "cancelled"]

StoreInit == stored = [r \in Run |-> NoRun]

Save(r) ==
  \E i \in DOMAIN Life[r] :
    /\ stored[r] \in Points(r) => \E j \in 1 .. i : stored[r] = Life[r][j]
    /\ stored' = [stored EXCEPT ![r] = Life[r][i]]

Cancel(r) ==
  /\ stored[r] # NoRun
  /\ \E v \in Points(r) : stored' = [stored EXCEPT ![r] = Cancelled(v)]

StoreNext == \E r \in Run : Save(r) \/ Cancel(r)

StoreSpec == StoreInit /\ [][StoreNext]_stored
=============================================================================
