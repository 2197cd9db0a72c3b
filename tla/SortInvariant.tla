---------------------------- MODULE SortInvariant ----------------------------
(***************************************************************************)
(* The inductive invariant behind the topological sort.                    *)
(***************************************************************************)
EXTENDS TopologicalSort

Begun == pc # "counting"

(***************************************************************************)
(* Nothing is pushed or emitted before the counts are made.                *)
(***************************************************************************)
NotBegun == pc = "counting" => order = <<>> /\ ready = {}

(***************************************************************************)
(* Whatever the graph: what has been pushed has a count of zero or less,   *)
(* and leaves the heap for good.                                           *)
(***************************************************************************)
PushedOnce ==
  /\ IsInjective(order)
  /\ ready \cap ToSet(order) = {}
  /\ Begun => /\ ready \cup ToSet(order) \subseteq DOMAIN indegree
              /\ \A i \in ready \cup ToSet(order) : indegree[i] <= 0

(***************************************************************************)
(* On a registered graph the counts are those of the tasks yet to come.    *)
(***************************************************************************)
Pending(t) == upstream(g, t) \ ToSet(order)

CountsPending ==
  Begun => /\ DOMAIN indegree = g.tasks
           /\ \A t \in g.tasks : indegree[t] = Cardinality(Pending(t))
           /\ ready = {t \in g.tasks \ ToSet(order) : Pending(t) = {}}

(***************************************************************************)
(* What has been emitted comes after its upstream.                         *)
(***************************************************************************)
AfterUpstream ==
  \A n \in DOMAIN order : \A u \in upstream(g, order[n]) :
    \E m \in 1 .. n - 1 : order[m] = u

(***************************************************************************)
(* A loop that has ended has an empty heap, and the length decides how.    *)
(***************************************************************************)
Ended ==
  /\ pc \in {"returned", "raised"} => ready = {}
  /\ pc = "returned" => Len(order) = Cardinality(g.tasks)
  /\ pc = "raised" => Len(order) # Cardinality(g.tasks)

(***************************************************************************)
(* The inductive invariant of topological_order (dag.py 240-273).          *)
(***************************************************************************)
SortInv ==
  /\ SortTypeOK
  /\ NotBegun
  /\ PushedOnce
  /\ Registered(g) => CountsPending /\ AfterUpstream /\ LeastFirst(g, order)
  /\ Ended
=============================================================================
