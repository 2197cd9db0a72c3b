--------------------------------- MODULE Dag ---------------------------------
(***************************************************************************)
(* A workflow definition (dag.py) as a graph g: a record of its tasks and  *)
(* of its dependencies, a function from some of the ids to sets of         *)
(* upstream ids; its queries; the two schedules that the engine derives    *)
(* from it, as functions of the graph; and what a right answer is.  Ids    *)
(* are naturals ordered like the strings they stand for.                   *)
(***************************************************************************)
EXTENDS Integers, SequencesExt

IsWorkflow(g, Id) ==
  /\ g.tasks \subseteq Id
  /\ DOMAIN g.dependencies \subseteq Id
  /\ \A t \in DOMAIN g.dependencies : g.dependencies[t] \subseteq Id

IsRecord(g) == g = [tasks |-> g.tasks, dependencies |-> g.dependencies]

upstream(g, t) ==
  IF t \in DOMAIN g.dependencies THEN g.dependencies[t] ELSE {}

downstream(g, t) ==
  {d \in DOMAIN g.dependencies : t \in g.dependencies[d]}

(***************************************************************************)
(* The problems that validate_graph collects.  Its cycles are those of     *)
(* _find_cycles, which finds none exactly when there is none (CycleSearch).*)
(***************************************************************************)
NamedIds(g) ==
  DOMAIN g.dependencies \cup UNION {g.dependencies[t] : t \in DOMAIN g.dependencies}

Registered(g) == NamedIds(g) \subseteq g.tasks

HasCycle(g) ==
  \E S \in SUBSET g.tasks : S # {} /\ \A t \in S : upstream(g, t) \cap S # {}

validate_graph(g) == g.tasks # {} /\ Registered(g) /\ ~HasCycle(g)
-----------------------------------------------------------------------------
(***************************************************************************)
(* What the builders do to a workflow h, which starts empty.               *)
(***************************************************************************)
EmptyWorkflow == [tasks |-> {}, dependencies |-> [i \in {} |-> {}]]

WithTask(h, t) == [h EXCEPT !.tasks = @ \cup {t}]

(***************************************************************************)
(* h with the ids of S among the upstream of t; t becomes a key with the   *)
(* first of them.                                                          *)
(***************************************************************************)
WithUpstream(h, t, S) ==
  IF S = {} THEN h
  ELSE [h EXCEPT !.dependencies =
          [i \in DOMAIN h.dependencies \cup {t} |->
             IF i = t THEN upstream(h, t) \cup S ELSE h.dependencies[i]]]

(***************************************************************************)
(* What add_dependency raises.                                             *)
(***************************************************************************)
Refusal(h, t, u) ==
  IF ~{t, u} \subseteq h.tasks THEN "UnknownTaskError"
  ELSE IF t = u THEN "SelfDependencyError"
  ELSE "nothing"
-----------------------------------------------------------------------------
(***************************************************************************)
(* Kahn's algorithm, as what its pops emit: the tasks whose upstream has   *)
(* been emitted wait in the heap and the least of them leaves first.       *)
(***************************************************************************)
Ready(g, order) ==
  {t \in g.tasks \ ToSet(order) : upstream(g, t) \cap g.tasks \subseteq ToSet(order)}

topological_order(g) ==
  LET emitted[n \in 0 .. Cardinality(g.tasks)] ==
        IF n = 0 THEN <<>>
        ELSE LET order == emitted[n - 1]
                 ready == Ready(g, order)
             IN  IF ready = {} THEN order ELSE Append(order, Min(ready))
  IN emitted[Cardinality(g.tasks)]

(***************************************************************************)
(* Wrong: a task is put one level below the highest of its upstream.       *)
(***************************************************************************)
level_of_highest(g) ==
  LET order == topological_order(g)
      upto[n \in 0 .. Len(order)] ==
        IF n = 0 THEN <<>>
        ELSE LET t == order[n]
                 known == upto[n - 1]
                 above == {known[u] : u \in upstream(g, t)}
                 level == IF above = {} THEN 0 ELSE 1 + Min(above)
             IN  [i \in DOMAIN known \cup {t} |-> IF i = t THEN level ELSE known[i]]
  IN upto[Len(order)]

(***************************************************************************)
(* The level of every task of an acyclic graph, set in topological order.  *)
(***************************************************************************)
level_of(g) ==
  LET order == topological_order(g)
      upto[n \in 0 .. Len(order)] ==
        IF n = 0 THEN <<>>
        ELSE LET t == order[n]
                 known == upto[n - 1]
                 above == {known[u] : u \in upstream(g, t)}
                 level == IF above = {} THEN 0 ELSE 1 + Max(above)
             IN  [i \in DOMAIN known \cup {t} |-> IF i = t THEN level ELSE known[i]]
  IN upto[Len(order)]

(***************************************************************************)
(* The batch in which run() dispatches each task: its place in the         *)
(* topological order when it runs sequentially, its level otherwise.       *)
(***************************************************************************)
sequential_batches(g) ==
  LET order == topological_order(g) IN
  [t \in g.tasks |-> (CHOOSE n \in 1 .. Len(order) : order[n] = t) - 1]

run_batches(g, max_workers) ==
  IF max_workers <= 1 THEN sequential_batches(g) ELSE level_of(g)
-----------------------------------------------------------------------------
(***************************************************************************)
(* What a right order and a right schedule are.                            *)
(***************************************************************************)
IsTopological(g, order) ==
  /\ ToSet(order) = g.tasks
  /\ IsInjective(order)
  /\ \A n \in DOMAIN order : \A u \in upstream(g, order[n]) :
       \E m \in 1 .. n - 1 : order[m] = u

(***************************************************************************)
(* Each task is the least of those whose upstream had been emitted.        *)
(***************************************************************************)
LeastFirst(g, order) ==
  \A n \in DOMAIN order :
    LET ready == Ready(g, SubSeq(order, 1, n - 1))
    IN  order[n] \in ready /\ \A t \in ready : order[n] <= t

TopologicalOrders(g) == {order \in SetToSeqs(g.tasks) : IsTopological(g, order)}

Before(s, r) ==
  \E n \in DOMAIN s : s[n] < r[n] /\ \A m \in 1 .. n - 1 : s[m] = r[m]

IsSchedule(g, batches) ==
  /\ DOMAIN batches = g.tasks
  /\ \A t \in g.tasks :
       /\ \A u \in upstream(g, t) : batches[u] < batches[t]
       /\ \A b \in 0 .. batches[t] : \E u \in g.tasks : batches[u] = b
=============================================================================
