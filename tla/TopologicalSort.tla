--------------------------- MODULE TopologicalSort ---------------------------
(***************************************************************************)
(* Workflow.topological_order (dag.py) step by step, on any graph that a   *)
(* Workflow can hold: one built with add_task and add_dependency, or one   *)
(* loaded in bulk that names ids it does not contain.  The min-heap is the *)
(* set of its members, of which the least is popped.                       *)
(***************************************************************************)
EXTENDS Dag

CONSTANTS Id, Workflows

ASSUME IdAssumption == Id \subseteq Nat /\ IsFiniteSet(Id)
ASSUME WorkflowsAssumption == \A w \in Workflows : IsWorkflow(w, Id)

VARIABLES
  g,         \* the workflow
  pc,        \* counting, popping, returned or raised
  indegree,  \* dict of the dependencies not yet emitted, by id
  ready,     \* the heap
  order      \* the result

vars == <<g, pc, indegree, ready, order>>

(***************************************************************************)
(* The dict of counts has every task and every key of dependencies, and    *)
(* the heap and the order hold ids.                                        *)
(***************************************************************************)
SortTypeOK ==
  /\ IsWorkflow(g, Id)
  /\ pc \in {"counting", "popping", "returned", "raised"}
  /\ pc # "counting" => indegree \in [g.tasks \cup DOMAIN g.dependencies -> Int]
  /\ ready \subseteq Id
  /\ order \in Seq(Id)

Init ==
  /\ g \in Workflows
  /\ pc = "counting"
  /\ indegree = <<>>
  /\ ready = {}
  /\ order = <<>>

(***************************************************************************)
(* Only registered ids count.  The keys of dependencies need not be        *)
(* registered; they enter the dict all the same.                           *)
(***************************************************************************)
Count ==
  /\ pc = "counting"
  /\ pc' = "popping"
  /\ indegree' = [i \in g.tasks \cup DOMAIN g.dependencies |->
                    Cardinality(upstream(g, i) \cap g.tasks)]
  /\ ready' = {i \in DOMAIN indegree' : indegree'[i] = 0}
  /\ UNCHANGED <<g, order>>

(***************************************************************************)
(* Two wrong pops: a child is pushed one early, the greatest id is popped. *)
(***************************************************************************)
PopEarly ==
  /\ pc = "popping"
  /\ ready # {}
  /\ LET node == Min(ready)
         children == downstream(g, node)
     IN  /\ order' = Append(order, node)
         /\ indegree' = [i \in DOMAIN indegree |->
                           IF i \in children THEN indegree[i] - 1 ELSE indegree[i]]
         /\ ready' = (ready \ {node}) \cup {c \in children : indegree'[c] = 1}
  /\ UNCHANGED <<g, pc>>

PopGreatest ==
  /\ pc = "popping"
  /\ ready # {}
  /\ LET node == Max(ready)
         children == downstream(g, node)
     IN  /\ order' = Append(order, node)
         /\ indegree' = [i \in DOMAIN indegree |->
                           IF i \in children THEN indegree[i] - 1 ELSE indegree[i]]
         /\ ready' = (ready \ {node}) \cup {c \in children : indegree'[c] = 0}
  /\ UNCHANGED <<g, pc>>

Pop ==
  /\ pc = "popping"
  /\ ready # {}
  /\ LET node == Min(ready)
         children == downstream(g, node)
     IN  /\ order' = Append(order, node)
         /\ indegree' = [i \in DOMAIN indegree |->
                           IF i \in children THEN indegree[i] - 1 ELSE indegree[i]]
         /\ ready' = (ready \ {node}) \cup {c \in children : indegree'[c] = 0}
  /\ UNCHANGED <<g, pc>>

(***************************************************************************)
(* Wrong: an order that lacks tasks is returned.                           *)
(***************************************************************************)
FinishShort ==
  /\ pc = "popping"
  /\ ready = {}
  /\ pc' = "returned"
  /\ UNCHANGED <<g, indegree, ready, order>>

Finish ==
  /\ pc = "popping"
  /\ ready = {}
  /\ pc' = IF Len(order) # Cardinality(g.tasks) THEN "raised" ELSE "returned"
  /\ UNCHANGED <<g, indegree, ready, order>>

Finished == pc \in {"returned", "raised"} /\ UNCHANGED vars

Next == Count \/ Pop \/ Finish \/ Finished

Spec == Init /\ [][Next]_vars
-----------------------------------------------------------------------------
(***************************************************************************)
(* On a graph that names registered ids only, as add_dependency ensures,   *)
(* the order that is returned has every task once, after its upstream.     *)
(***************************************************************************)
OrderIsTopological ==
  pc = "returned" /\ Registered(g) => IsTopological(g, order)

(***************************************************************************)
(* It is the least of all the topological orders ("independent tasks are   *)
(* emitted in ascending task-id order", dag.py 243-245), and the one that  *)
(* the function of Dag describes.                                          *)
(***************************************************************************)
OrderIsLeast ==
  pc = "returned" /\ Registered(g) =>
    /\ order = topological_order(g)
    /\ \A other \in TopologicalOrders(g) : ~Before(other, order)

(***************************************************************************)
(* A cycle is what makes it raise, and nothing else: the order of a graph  *)
(* that passes validate_graph never raises inside run().                   *)
(***************************************************************************)
RaisesOnCycle ==
  Registered(g) =>
    /\ pc = "raised" => HasCycle(g)
    /\ pc = "returned" => ~HasCycle(g)

(***************************************************************************)
(* Both schedules of run() put every task in a batch after those of its    *)
(* upstream and leave no batch empty, which the engine's joins rely on.    *)
(***************************************************************************)
BatchesAreSchedules ==
  pc = "returned" /\ Registered(g) =>
    /\ IsSchedule(g, run_batches(g, 1))
    /\ IsSchedule(g, run_batches(g, 2))

(***************************************************************************)
(* Nothing is emitted twice, not even when unregistered ids enter the heap *)
(* and take counts below zero.                                             *)
(***************************************************************************)
NothingTwice == IsInjective(order)
=============================================================================
