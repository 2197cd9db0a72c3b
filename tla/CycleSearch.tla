----------------------------- MODULE CycleSearch -----------------------------
(***************************************************************************)
(* Workflow._find_cycles (dag.py) step by step: a depth-first search along *)
(* the dependencies, with the recursion of visit() as the path of the      *)
(* nodes being visited and what remains of each one's loop.  Ids that are  *)
(* not registered are never visited.                                       *)
(***************************************************************************)
EXTENDS Dag

CONSTANTS Id, Workflows

ASSUME IdAssumption == Id \subseteq Nat /\ IsFiniteSet(Id)
ASSUME WorkflowsAssumption == \A w \in Workflows : IsWorkflow(w, Id)

VARIABLES
  g,       \* the workflow
  pc,      \* searching or returned
  color,   \* WHITE, GRAY or BLACK, by task
  path,    \* the nodes of the pending visits, the latest last
  rest,    \* by task, the neighbors its visit has not tried
  cycles   \* the result; seen is the set of their sets of nodes

vars == <<g, pc, color, path, rest, cycles>>

(***************************************************************************)
(* The search colors, visits and reports tasks of the workflow only, never *)
(* an id that is merely named (219-220).                                   *)
(***************************************************************************)
SearchTypeOK ==
  /\ IsWorkflow(g, Id)
  /\ pc \in {"searching", "returned"}
  /\ color \in [g.tasks -> {"WHITE", "GRAY", "BLACK"}]
  /\ path \in Seq(g.tasks)
  /\ rest \in [g.tasks -> SUBSET g.tasks]
  /\ cycles \in Seq(Seq(g.tasks))

Init ==
  /\ g \in Workflows
  /\ pc = "searching"
  /\ color = [t \in g.tasks |-> "WHITE"]
  /\ path = <<>>
  /\ rest = [t \in g.tasks |-> {}]
  /\ cycles = <<>>

Neighbors(t) == upstream(g, t) \cap g.tasks

Colored(c) == {t \in g.tasks : color[t] = c}

Seen == {ToSet(cycle) : cycle \in ToSet(cycles)}

Top == Last(path)

(***************************************************************************)
(* Wrong: a node counts as explored as soon as it is entered.              *)
(***************************************************************************)
VisitBlack(t, trying) ==
  /\ color' = [color EXCEPT ![t] = "BLACK"]
  /\ path' = Append(path, t)
  /\ rest' = [trying EXCEPT ![t] = Neighbors(t)]
  /\ UNCHANGED <<g, pc, cycles>>

(***************************************************************************)
(* visit(t) begins; trying is what is left to the loop that called it.     *)
(***************************************************************************)
Visit(t, trying) ==
  /\ color' = [color EXCEPT ![t] = "GRAY"]
  /\ path' = Append(path, t)
  /\ rest' = [trying EXCEPT ![t] = Neighbors(t)]
  /\ UNCHANGED <<g, pc, cycles>>

(***************************************************************************)
(* The tasks are taken in sorted order, so the first that is still WHITE   *)
(* is the least.                                                           *)
(***************************************************************************)
VisitRoot ==
  /\ pc = "searching"
  /\ path = <<>>
  /\ Colored("WHITE") # {}
  /\ Visit(Min(Colored("WHITE")), rest)

(***************************************************************************)
(* One iteration of the loop over the sorted neighbors of the latest node. *)
(***************************************************************************)
Try(c) ==
  /\ pc = "searching"
  /\ path # <<>>
  /\ rest[Top] # {}
  /\ color[Min(rest[Top])] = c

Tried == [rest EXCEPT ![Top] = @ \ {Min(@)}]

PathFrom(t) ==
  SubSeq(path, CHOOSE n \in DOMAIN path : path[n] = t, Len(path))

(***************************************************************************)
(* Wrong: the path that leads to the cycle is reported with it.            *)
(***************************************************************************)
TryGrayUncut ==
  /\ Try("GRAY")
  /\ cycles' = IF ToSet(path) \in Seen THEN cycles ELSE Append(cycles, path)
  /\ rest' = Tried
  /\ UNCHANGED <<g, pc, color, path>>

TryGray ==
  /\ Try("GRAY")
  /\ LET cycle == PathFrom(Min(rest[Top])) IN
     cycles' = IF ToSet(cycle) \in Seen THEN cycles ELSE Append(cycles, cycle)
  /\ rest' = Tried
  /\ UNCHANGED <<g, pc, color, path>>

TryWhite == Try("WHITE") /\ Visit(Min(rest[Top]), Tried)

TryBlack ==
  /\ Try("BLACK")
  /\ rest' = Tried
  /\ UNCHANGED <<g, pc, color, path, cycles>>

Leave ==
  /\ pc = "searching"
  /\ path # <<>>
  /\ rest[Top] = {}
  /\ color' = [color EXCEPT ![Top] = "BLACK"]
  /\ path' = Front(path)
  /\ UNCHANGED <<g, pc, rest, cycles>>

Return ==
  /\ pc = "searching"
  /\ path = <<>>
  /\ Colored("WHITE") = {}
  /\ pc' = "returned"
  /\ UNCHANGED <<g, color, path, rest, cycles>>

Finished == pc = "returned" /\ UNCHANGED vars

Next ==
  \/ VisitRoot \/ TryGray \/ TryWhite \/ TryBlack \/ Leave \/ Return
  \/ Finished

Spec == Init /\ [][Next]_vars
-----------------------------------------------------------------------------
(***************************************************************************)
(* A simple cycle, in the direction of the search: every node depends on   *)
(* the next one, and the last on the first.                                *)
(***************************************************************************)
IsCycle(cycle) ==
  /\ cycle # <<>>
  /\ IsInjective(cycle)
  /\ \A n \in 1 .. Len(cycle) - 1 : cycle[n + 1] \in Neighbors(cycle[n])
  /\ Head(cycle) \in Neighbors(Last(cycle))

(***************************************************************************)
(* Whatever is reported is a cycle of the graph: the path printed by       *)
(* validate_graph and carried by DependencyCycleError is closed.           *)
(***************************************************************************)
CyclesAreReal == \A cycle \in ToSet(cycles) : IsCycle(cycle)

(***************************************************************************)
(* The search finds a cycle exactly when the graph has one, although it    *)
(* never enters a BLACK node again: validate_graph rejects what cannot be  *)
(* scheduled and nothing else, and topological_order never needs its       *)
(* fallback (270-271).                                                     *)
(***************************************************************************)
FindsACycle == pc = "returned" => (cycles # <<>> <=> HasCycle(g))
=============================================================================
