--------------------------- MODULE CycleInvariant ---------------------------
(***************************************************************************)
(* The inductive invariant behind the search for cycles.                   *)
(***************************************************************************)
EXTENDS CycleSearch

(***************************************************************************)
(* A set of tasks of which each depends on another of the set.             *)
(***************************************************************************)
Trap(S) == S # {} /\ \A t \in S : upstream(g, t) \cap S # {}

(***************************************************************************)
(* The path is the GRAY nodes, each a neighbor of the one before.          *)
(***************************************************************************)
PathIsGray ==
  /\ IsInjective(path)
  /\ ToSet(path) = Colored("GRAY")
  /\ \A n \in 1 .. Len(path) - 1 : path[n + 1] \in Neighbors(path[n])

(***************************************************************************)
(* What a visit has still to try are neighbors of its node.                *)
(***************************************************************************)
RestIsAhead == \A t \in g.tasks : rest[t] \subseteq Neighbors(t)

(***************************************************************************)
(* While nothing is reported, a neighbor that was tried from the path is   *)
(* BLACK or the next node of the path.                                     *)
(***************************************************************************)
TriedIsExplored ==
  \A n \in DOMAIN path : \A m \in Neighbors(path[n]) \ rest[path[n]] :
    \/ color[m] = "BLACK"
    \/ n < Len(path) /\ m = path[n + 1]

(***************************************************************************)
(* While nothing is reported, BLACK nodes lead to BLACK nodes only, and    *)
(* hold no trap.                                                           *)
(***************************************************************************)
BlackIsClosed == \A t \in Colored("BLACK") : Neighbors(t) \subseteq Colored("BLACK")
BlackIsClear  == \A S \in SUBSET Colored("BLACK") : ~Trap(S)

(***************************************************************************)
(* When the search returns, every task has been explored.                  *)
(***************************************************************************)
AllReturned == pc = "returned" => Colored("BLACK") = g.tasks

(***************************************************************************)
(* The inductive invariant of _find_cycles (dag.py 204-235).               *)
(***************************************************************************)
SearchInv ==
  /\ SearchTypeOK
  /\ PathIsGray
  /\ RestIsAhead
  /\ CyclesAreReal
  /\ cycles = <<>> => TriedIsExplored /\ BlackIsClosed /\ BlackIsClear
  /\ AllReturned
=============================================================================
