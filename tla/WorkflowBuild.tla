---------------------------- MODULE WorkflowBuild ----------------------------
(***************************************************************************)
(* A Workflow under construction (dag.py): any sequence of calls of its    *)
(* builders, by a caller that may catch what they raise and go on.         *)
(***************************************************************************)
EXTENDS Dag

CONSTANTS
  Id,     \* task ids, naturals ordered like the strings they stand for
  Lists   \* the lists of ids that callers pass (depends_on, task_ids)

ASSUME IdAssumption == Id \subseteq Nat
ASSUME ListsAssumption == Lists \subseteq Seq(Id)

VARIABLES
  g,       \* the workflow
  called,  \* the builder that was called last, or "none"
  raised   \* what that call raised, or "nothing"

vars == <<g, called, raised>>

(***************************************************************************)
(* The graph stays within the ids, and each builder raises what the checks *)
(* it passes through let out.  The Raises sections of dag.py list less     *)
(* (120-121, 278-280): add_task also lets out what the wiring of           *)
(* depends_on is refused with, and from_chain what add_task refuses, but   *)
(* nothing of its own wiring.                                              *)
(***************************************************************************)
BuildTypeOK ==
  /\ IsWorkflow(g, Id)
  /\ called \in {"none", "add_task", "add_dependency", "from_chain"}
  /\ raised \in {"nothing", "DuplicateTaskError", "UnknownTaskError",
                 "SelfDependencyError"}
  /\ called = "none" => raised = "nothing"
  /\ called = "add_dependency" => raised # "DuplicateTaskError"
  /\ called = "from_chain" => raised \in {"nothing", "DuplicateTaskError"}

Init == g = EmptyWorkflow /\ called = "none" /\ raised = "nothing"
-----------------------------------------------------------------------------
add_dependency(t, u) ==
  /\ called' = "add_dependency"
  /\ raised' = Refusal(g, t, u)
  /\ g' = IF raised' = "nothing" THEN WithUpstream(g, t, {u}) ELSE g

(***************************************************************************)
(* Wrong: dependencies are wired without a check, for validate_graph to    *)
(* find later.                                                             *)
(***************************************************************************)
add_task_unchecked(t, depends_on) ==
  /\ called' = "add_task"
  /\ IF t \in g.tasks
       THEN raised' = "DuplicateTaskError" /\ UNCHANGED g
       ELSE /\ raised' = "nothing"
            /\ g' = WithUpstream(WithTask(g, t), t, ToSet(depends_on))

(***************************************************************************)
(* The dependencies are wired one after the other.  At the first that is   *)
(* refused the call raises, and leaves the task and those wired before.    *)
(***************************************************************************)
add_task(t, depends_on) ==
  /\ called' = "add_task"
  /\ IF t \in g.tasks
       THEN raised' = "DuplicateTaskError" /\ UNCHANGED g
       ELSE LET h       == WithTask(g, t)
                refused == {n \in DOMAIN depends_on :
                              Refusal(h, t, depends_on[n]) # "nothing"}
                wired   == {n \in DOMAIN depends_on : \A m \in refused : n < m}
            IN  /\ raised' = IF refused = {} THEN "nothing"
                             ELSE Refusal(h, t, depends_on[Min(refused)])
                /\ g' = WithUpstream(h, t, {depends_on[n] : n \in wired})

(***************************************************************************)
(* Wrong: the pairs are wired the other way round.                         *)
(***************************************************************************)
chain_backwards(task_ids) ==
  [tasks |-> ToSet(task_ids),
   dependencies |->
     [t \in ToSet(Front(task_ids)) |->
        {task_ids[n + 1] : n \in {m \in 1 .. Len(task_ids) - 1 : task_ids[m] = t}}]]

(***************************************************************************)
(* Wrong: each pair registers its upstream task only.                      *)
(***************************************************************************)
chain_without_last(task_ids) ==
  [tasks |-> ToSet(Front(task_ids)),
   dependencies |->
     [t \in ToSet(Tail(task_ids)) |->
        {task_ids[n] : n \in {m \in 1 .. Len(task_ids) - 1 : task_ids[m + 1] = t}}]]

chain(task_ids) ==
  [tasks |-> ToSet(task_ids),
   dependencies |->
     [t \in ToSet(Tail(task_ids)) |->
        {task_ids[n] : n \in {m \in 1 .. Len(task_ids) - 1 : task_ids[m + 1] = t}}]]

(***************************************************************************)
(* A new workflow: all the tasks first, of which a repeated one is         *)
(* refused, then each pair is wired under the checks of add_dependency.    *)
(* When one of these raises there is no workflow.                          *)
(***************************************************************************)
from_chain(task_ids) ==
  LET made    == chain(task_ids)
      refused == {n \in 1 .. Len(task_ids) - 1 :
                    Refusal(made, task_ids[n + 1], task_ids[n]) # "nothing"}
  IN  /\ g = EmptyWorkflow
      /\ task_ids # <<>>
      /\ called' = "from_chain"
      /\ raised' = IF ~IsInjective(task_ids) THEN "DuplicateTaskError"
                   ELSE IF refused = {} THEN "nothing"
                   ELSE Refusal(made, task_ids[Min(refused) + 1], task_ids[Min(refused)])
      /\ g' = IF raised' = "nothing" THEN made ELSE g

AddTask       == \E t \in Id : \E depends_on \in Lists : add_task(t, depends_on)
AddDependency == \E t, u \in Id : add_dependency(t, u)
FromChain     == \E task_ids \in Lists : from_chain(task_ids)

Next == AddTask \/ AddDependency \/ FromChain

Spec == Init /\ [][Next]_vars
-----------------------------------------------------------------------------
(***************************************************************************)
(* "add_task and add_dependency enforce this fail-fast" (dag.py 95-101):   *)
(* whatever is called, and also after calls that raised half-way, the      *)
(* graph names registered ids only and no task depends on itself.          *)
(***************************************************************************)
FailsFast ==
  /\ Registered(g)
  /\ \A t \in g.tasks : t \notin upstream(g, t)

(***************************************************************************)
(* A call that adds a task cannot close a cycle: a workflow made without   *)
(* add_dependency can always be scheduled, and only what add_dependency    *)
(* wires needs the search for cycles.                                      *)
(***************************************************************************)
NewTasksCloseNoCycle ==
  [][g'.tasks # g.tasks /\ ~HasCycle(g) => ~HasCycle(g')]_vars

(***************************************************************************)
(* A chain runs in the order of its list, whatever the order of the ids.   *)
(***************************************************************************)
ChainRunsInOrder ==
  [][\A task_ids \in Lists :
       from_chain(task_ids) /\ raised' = "nothing"
         => topological_order(g') = task_ids]_vars
=============================================================================
