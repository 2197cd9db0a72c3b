----------------------------- MODULE SortProofs -----------------------------
(***************************************************************************)
(* The topological sort returns a topological order of every registered    *)
(* graph without a cycle, and raises on the others.                        *)
(***************************************************************************)
EXTENDS SortInvariant, DagLemmas

(***************************************************************************)
(* Ids are naturals and there are finitely many.                           *)
(***************************************************************************)
LEMMA IdsAreFinite ==
  ASSUME SortTypeOK
  PROVE  /\ g.tasks \subseteq Nat /\ IsFiniteSet(g.tasks)
         /\ ready \subseteq Nat /\ IsFiniteSet(ready)
         /\ \A t : upstream(g, t) \subseteq Id /\ IsFiniteSet(upstream(g, t))
<1>1. g.tasks \subseteq Id /\ ready \subseteq Id
  BY DEF SortTypeOK, IsWorkflow
<1>2. \A t : upstream(g, t) \subseteq Id
  BY DEF SortTypeOK, IsWorkflow, upstream
<1> QED
  BY <1>1, <1>2, IdAssumption, FS_Subset

(***************************************************************************)
(* On a registered graph upstream tasks are tasks.                         *)
(***************************************************************************)
LEMMA UpstreamIsRegistered ==
  ASSUME Registered(g)
  PROVE  /\ DOMAIN g.dependencies \subseteq g.tasks
         /\ \A t : upstream(g, t) \subseteq g.tasks
BY DEF Registered, NamedIds, upstream

(***************************************************************************)
(* What a pop does: the least of the heap joins the order, and its         *)
(* children lose one each.                                                 *)
(***************************************************************************)
Popped(node) ==
  /\ order' = Append(order, node)
  /\ order' \in Seq(Id)
  /\ Len(order') = Len(order) + 1
  /\ \A n \in 1 .. Len(order) : order'[n] = order[n]
  /\ order'[Len(order) + 1] = node
  /\ ToSet(order') = ToSet(order) \cup {node}
  /\ indegree' = [i \in DOMAIN indegree |->
                    IF i \in downstream(g, node) THEN indegree[i] - 1
                    ELSE indegree[i]]
  /\ ready' = (ready \ {node})
                \cup {c \in downstream(g, node) : indegree'[c] = 0}

(***************************************************************************)
(* Every pop is such a step.                                               *)
(***************************************************************************)
LEMMA PopFacts ==
  ASSUME SortTypeOK, PushedOnce, Pop
  PROVE  \E node \in ready : Popped(node)
<1> DEFINE node == Min(ready)
<1>1. node \in ready
  BY IdsAreFinite, LeastIsMember DEF Pop
<1>2. node \in Id /\ order \in Seq(Id)
  BY <1>1 DEF SortTypeOK
<1>3. order' = Append(order, node)
  BY DEF Pop
<1>4. indegree' = [i \in DOMAIN indegree |->
                     IF i \in downstream(g, node) THEN indegree[i] - 1
                     ELSE indegree[i]]
  BY DEF Pop
<1>5. ready' = (ready \ {node}) \cup {c \in downstream(g, node) : indegree'[c] = 0}
  BY DEF Pop
<1> HIDE DEF node
<1>6. /\ order' \in Seq(Id)
      /\ Len(order') = Len(order) + 1
      /\ \A n \in 1 .. Len(order) : order'[n] = order[n]
      /\ order'[Len(order) + 1] = node
  BY <1>2, <1>3
<1>7. ToSet(order') = ToSet(order) \cup {node}
  BY <1>2, <1>3, <1>6 DEF ToSet
<1> QED
  BY <1>1, <1>3, <1>4, <1>5, <1>6, <1>7 DEF Popped

(***************************************************************************)
(* The sort starts in the invariant.                                       *)
(***************************************************************************)
LEMMA InitSortInv == Init => SortInv
<1> SUFFICES ASSUME Init PROVE SortInv
  OBVIOUS
<1>1. SortTypeOK
  BY WorkflowsAssumption DEF Init, SortTypeOK
<1>2. NotBegun /\ PushedOnce /\ CountsPending /\ AfterUpstream /\ Ended
  BY DEF Init, NotBegun, PushedOnce, CountsPending, AfterUpstream, Ended, Begun,
         IsInjective, ToSet
<1>3. LeastFirst(g, order)
  BY DEF Init, LeastFirst
<1> QED
  BY <1>1, <1>2, <1>3 DEF SortInv

(***************************************************************************)
(* Every step keeps the types.                                             *)
(***************************************************************************)
LEMMA SortTypeOKStep ==
  ASSUME SortTypeOK, PushedOnce, [Next]_vars
  PROVE  SortTypeOK'
<1>1. CASE Count
  <2>1. \A i : Cardinality(upstream(g, i) \cap g.tasks) \in Nat
    BY IdsAreFinite, FS_Subset, FS_CardinalityType
  <2>2. g.tasks \cup DOMAIN g.dependencies \subseteq Id
    BY DEF SortTypeOK, IsWorkflow
  <2> QED
    BY <1>1, <2>1, <2>2 DEF Count, SortTypeOK, IsWorkflow
<1>2. CASE Pop
  <2>1. downstream(g, Min(ready)) \subseteq Id
    BY DEF SortTypeOK, IsWorkflow, downstream
  <2>2. g' = g /\ pc' = pc /\ pc = "popping"
    BY <1>2 DEF Pop
  <2>3. indegree' \in [g.tasks \cup DOMAIN g.dependencies -> Int]
    BY <1>2, <2>2 DEF Pop, SortTypeOK
  <2>4. ready' \subseteq Id
    BY <1>2, <2>1 DEF Pop, SortTypeOK
  <2>5. order' \in Seq(Id)
    BY <1>2, PopFacts DEF Popped
  <2> QED
    BY <2>2, <2>3, <2>4, <2>5 DEF SortTypeOK, IsWorkflow
<1>3. CASE Finish
  BY <1>3 DEF Finish, SortTypeOK, IsWorkflow
<1>4. CASE UNCHANGED vars
  BY <1>4 DEF vars, SortTypeOK, IsWorkflow
<1> QED
  BY <1>1, <1>2, <1>3, <1>4 DEF Next, Finished

(***************************************************************************)
(* Nothing is pushed twice, after every step.                              *)
(***************************************************************************)
LEMMA PushedOnceStep ==
  ASSUME SortTypeOK, NotBegun, PushedOnce, [Next]_vars
  PROVE  PushedOnce'
<1>1. CASE Count
  <2>1. order = <<>> /\ order' = order /\ ready' \subseteq DOMAIN indegree'
        /\ \A i \in ready' : indegree'[i] = 0
    BY <1>1 DEF Count, NotBegun
  <2> QED
    BY <1>1, <2>1 DEF PushedOnce, Begun, ToSet, IsInjective
<1>2. CASE Pop
  <2>1. PICK node \in ready : Popped(node)
    BY <1>2, PopFacts
  <2> USE <2>1 DEF Popped
  <2>2. Begun /\ indegree \in [g.tasks \cup DOMAIN g.dependencies -> Int]
        /\ downstream(g, node) \subseteq DOMAIN indegree
    BY <1>2 DEF Pop, Begun, SortTypeOK, downstream
  <2>3. DOMAIN order = 1 .. Len(order) /\ Len(order) \in Nat
        /\ DOMAIN order' = 1 .. Len(order) + 1
    BY <2>1 DEF SortTypeOK
  <2>4. \A n \in 1 .. Len(order) : order[n] # node
    BY <2>1, <2>3 DEF PushedOnce, ToSet
  <2>5. IsInjective(order')
    BY <2>1, <2>3, <2>4 DEF IsInjective, PushedOnce
  <2>6. \A i \in ready \cup ToSet(order) :
          i \in DOMAIN indegree /\ indegree[i] \in Int /\ indegree[i] <= 0
    BY <2>2 DEF PushedOnce
  <2>7. \A i \in ready \cup ToSet(order) : indegree'[i] <= indegree[i]
    BY <2>1, <2>2, <2>6
  <2>8. \A c \in downstream(g, node) :
          indegree'[c] = 0 => c \notin ready \cup ToSet(order)
    BY <2>1, <2>2, <2>6
  <2>9. ready' \cap ToSet(order') = {}
    BY <2>1, <2>8, ZenonT(40) DEF PushedOnce
  <2>10. ready' \cup ToSet(order') \subseteq DOMAIN indegree'
    BY <2>1, <2>2, <2>6
  <2>11. \A i \in ready' \cup ToSet(order') : indegree'[i] <= 0
    <3>1. \A i \in ready \cup ToSet(order) : indegree'[i] <= 0
      BY <2>1, <2>2, <2>6
    <3> QED
      BY <2>1, <3>1
  <2> QED
    BY <2>5, <2>9, <2>10, <2>11 DEF PushedOnce
<1>3. CASE UNCHANGED <<indegree, ready, order>> /\ pc # "counting"
  BY <1>3 DEF PushedOnce, Begun
<1>4. CASE UNCHANGED vars
  BY <1>4 DEF PushedOnce, Begun, vars
<1> QED
  BY <1>1, <1>2, <1>3, <1>4 DEF Next, Finish, Finished

(***************************************************************************)
(* The count of a task that waits is the size of what it waits for.        *)
(***************************************************************************)
LEMMA PendingShrinks ==
  ASSUME SortTypeOK, NEW t, NEW node, node \notin ToSet(order),
         ToSet(order') = ToSet(order) \cup {node}, g' = g
  PROVE  /\ Pending(t)' = Pending(t) \ {node}
         /\ IsFiniteSet(Pending(t)) /\ Cardinality(Pending(t)) \in Nat
         /\ Cardinality(Pending(t)') =
              IF node \in upstream(g, t) THEN Cardinality(Pending(t)) - 1
              ELSE Cardinality(Pending(t))
<1>1. Pending(t)' = Pending(t) \ {node}
  BY DEF Pending
<1>2. IsFiniteSet(Pending(t))
  BY IdsAreFinite, FS_Subset DEF Pending
<1>3. node \in Pending(t) <=> node \in upstream(g, t)
  BY DEF Pending
<1> QED
  BY <1>1, <1>2, <1>3, FS_RemoveElement, FS_CardinalityType

(***************************************************************************)
(* A child of a node is a task whose upstream the node is.                 *)
(***************************************************************************)
LEMMA ChildrenDepend ==
  ASSUME NEW t, NEW u
  PROVE  t \in downstream(g, u) <=> u \in upstream(g, t)
BY DEF downstream, upstream

(***************************************************************************)
(* On a registered graph the counts stay those of the tasks to come.       *)
(***************************************************************************)
LEMMA CountsPendingStep ==
  ASSUME SortTypeOK, NotBegun, PushedOnce, CountsPending, Registered(g), [Next]_vars
  PROVE  CountsPending'
<1>1. CASE Count
  <2>1. /\ g' = g /\ order' = order /\ order = <<>> /\ ToSet(order) = {}
        /\ DOMAIN indegree' = g.tasks
        /\ \A t \in g.tasks : indegree'[t] = Cardinality(upstream(g, t) \cap g.tasks)
        /\ ready' = {t \in g.tasks : indegree'[t] = 0}
    BY <1>1, UpstreamIsRegistered DEF Count, NotBegun, ToSet
  <2>2. \A t \in g.tasks : upstream(g, t) \cap g.tasks = Pending(t) /\ Pending(t)' = Pending(t)
    BY <2>1, UpstreamIsRegistered DEF Pending
  <2>3. \A t \in g.tasks : Cardinality(Pending(t)) = 0 <=> Pending(t) = {}
    BY IdsAreFinite, FS_Subset, FS_EmptySet DEF Pending
  <2>4. ready' = {t \in g.tasks \ ToSet(order) : Pending(t) = {}}
    BY <2>1, <2>2, <2>3
  <2> QED
    BY <2>1, <2>2, <2>4 DEF CountsPending
<1>2. CASE Pop
  <2>1. PICK node \in ready : Popped(node)
    BY <1>2, PopFacts
  <2> USE <2>1 DEF Popped
  <2>2. g' = g /\ Begun /\ node \notin ToSet(order)
    BY <1>2, <2>1 DEF Pop, Begun, PushedOnce
  <2>3. /\ DOMAIN indegree = g.tasks
        /\ \A t \in g.tasks : indegree[t] = Cardinality(Pending(t))
        /\ ready = {t \in g.tasks \ ToSet(order) : Pending(t) = {}}
    BY <2>2 DEF CountsPending
  <2>4. \A t \in g.tasks :
          /\ Pending(t)' = Pending(t) \ {node}
          /\ Cardinality(Pending(t)) \in Nat
          /\ indegree'[t] = Cardinality(Pending(t)')
    BY <2>1, <2>2, <2>3, PendingShrinks, ChildrenDepend
  <2>5. \A t \in g.tasks : Cardinality(Pending(t)') = 0 <=> Pending(t)' = {}
    <3>1. \A t : IsFiniteSet(Pending(t) \ {node})
      BY IdsAreFinite, FS_Subset DEF Pending
    <3> QED
      BY <2>4, <3>1, FS_EmptySet
  <2>6. downstream(g, node) \subseteq g.tasks
    BY UpstreamIsRegistered DEF downstream
  <2>7. node \notin downstream(g, node)
    BY <2>1, <2>2, <2>3, ChildrenDepend DEF Pending
  <2>8. ready' = {t \in g.tasks \ ToSet(order') : Pending(t)' = {}}
    <3>1. ASSUME NEW t \in ready' PROVE t \in g.tasks \ ToSet(order') /\ Pending(t)' = {}
      <4>1. CASE t \in ready \ {node}
        BY <2>1, <2>3, <2>4, <4>1
      <4>2. CASE t \in downstream(g, node) /\ indegree'[t] = 0
        <5>1. t \in g.tasks /\ Pending(t)' = {}
          BY <2>4, <2>5, <2>6, <4>2
        <5>2. t \notin ToSet(order')
          <6>1. t \notin ToSet(order)
            <7>1. node \in Pending(t)
              BY <2>2, <4>2, ChildrenDepend DEF Pending
            <7>2. Cardinality(Pending(t)) # 0
              BY <7>1, IdsAreFinite, FS_Subset, FS_EmptySet DEF Pending
            <7>3. indegree[t] \in Int /\ indegree[t] > 0
              BY ONLY <2>3, <2>4, <5>1, <7>2
            <7> QED
              BY <2>2, <7>3 DEF PushedOnce
          <6> QED
            BY <2>1, <2>7, <4>2, <6>1
        <5> QED
          BY <5>1, <5>2
      <4> QED
        BY <2>1, <3>1, <4>1, <4>2
    <3>2. ASSUME NEW t \in g.tasks \ ToSet(order'), Pending(t)' = {} PROVE t \in ready'
      <4>1. t # node /\ t \notin ToSet(order)
        BY <2>1, <3>2
      <4>2. CASE node \in upstream(g, t)
        BY <2>1, <2>4, <2>5, <3>2, <4>2, ChildrenDepend, ZenonT(40)
      <4>3. CASE node \notin upstream(g, t)
        <5>1. Pending(t)' = Pending(t)
          BY <2>4, <3>2, <4>3 DEF Pending
        <5>2. Pending(t) = {}
          BY <3>2, <5>1
        <5>3. t \in ready
          BY <2>3, <3>2, <4>1, <5>2
        <5> QED
          BY <2>1, <4>1, <5>3
      <4> QED
        BY <4>2, <4>3
    <3> QED
      BY <3>1, <3>2
  <2> QED
    BY <2>1, <2>2, <2>3, <2>4, <2>8 DEF CountsPending
<1>3. CASE UNCHANGED <<g, indegree, ready, order>> /\ (Begun' => Begun)
  BY <1>3 DEF CountsPending, Pending
<1> QED
  BY <1>1, <1>2, <1>3 DEF Next, Finish, Finished, vars, Begun

(***************************************************************************)
(* On a registered graph a task comes after its upstream.                  *)
(***************************************************************************)
LEMMA AfterUpstreamStep ==
  ASSUME SortTypeOK, PushedOnce, CountsPending, AfterUpstream, [Next]_vars
  PROVE  AfterUpstream'
<1>1. CASE Pop
  <2>1. PICK node \in ready :
           /\ order' = Append(order, node)
           /\ Len(order') = Len(order) + 1
           /\ \A n \in 1 .. Len(order) : order'[n] = order[n]
           /\ order'[Len(order) + 1] = node
    BY <1>1, PopFacts DEF Popped
  <2>2. /\ g' = g /\ Len(order) \in Nat /\ DOMAIN order = 1 .. Len(order)
        /\ DOMAIN order' = 1 .. Len(order) + 1
    BY <1>1, <2>1 DEF Pop, SortTypeOK
  <2>3. upstream(g, node) \subseteq ToSet(order)
    BY <1>1, <2>1 DEF Pop, CountsPending, Begun, Pending
  <2>4. SUFFICES ASSUME NEW n \in 1 .. Len(order) + 1, NEW u \in upstream(g, order'[n])
                 PROVE  \E m \in 1 .. n - 1 : order'[m] = u
    BY <2>2 DEF AfterUpstream
  <2>5. CASE n = Len(order) + 1
    <3>1. PICK m \in 1 .. Len(order) : order[m] = u
      BY <2>1, <2>2, <2>3, <2>4, <2>5 DEF ToSet
    <3> QED
      BY <2>1, <2>2, <2>5, <3>1
  <2>6. CASE n # Len(order) + 1
    <3>1. n \in 1 .. Len(order) /\ order'[n] = order[n]
      BY <2>1, <2>2, <2>4, <2>6
    <3>2. PICK m \in 1 .. n - 1 : order[m] = u
      BY <2>2, <2>4, <3>1 DEF AfterUpstream
    <3> QED
      BY <2>1, <2>2, <3>1, <3>2
  <2> QED
    BY <2>5, <2>6
<1>2. CASE UNCHANGED <<g, order>>
  BY <1>2 DEF AfterUpstream
<1> QED
  BY <1>1, <1>2 DEF Next, Count, Finish, Finished, vars

(***************************************************************************)
(* On a registered graph the heap holds what is ready.                     *)
(***************************************************************************)
LEMMA HeapIsReady ==
  ASSUME SortTypeOK, PushedOnce, CountsPending, Registered(g), Begun
  PROVE  order \in Seq(g.tasks) /\ ready = Ready(g, order)
<1>1. DOMAIN indegree = g.tasks /\ ready = {t \in g.tasks \ ToSet(order) : Pending(t) = {}}
  BY DEF CountsPending
<1>2. order \in Seq(g.tasks)
  <2>1. ToSet(order) \subseteq g.tasks
    BY <1>1 DEF PushedOnce
  <2> QED
    BY <2>1 DEF SortTypeOK, ToSet
<1>3. \A t \in g.tasks :
        Pending(t) = {} <=> upstream(g, t) \cap g.tasks \subseteq ToSet(order)
  BY UpstreamIsRegistered DEF Pending
<1>4. ready = Ready(g, order)
  BY <1>1, <1>3 DEF Ready
<1> QED
  BY <1>2, <1>4

(***************************************************************************)
(* On a registered graph the least of what is ready is emitted.            *)
(***************************************************************************)
LEMMA LeastFirstStep ==
  ASSUME SortTypeOK, PushedOnce, CountsPending, Registered(g), LeastFirst(g, order),
         [Next]_vars
  PROVE  LeastFirst(g, order)'
<1>1. CASE Pop
  <2>1. g' = g /\ order' = Append(order, Min(ready)) /\ ready # {} /\ Begun
    BY <1>1 DEF Pop, Begun
  <2>2. order \in Seq(g.tasks) /\ ready = Ready(g, order)
    BY <2>1, HeapIsReady
  <2>3. LeastFirst(g, Append(order, Min(Ready(g, order))))
    BY <2>1, <2>2, IdsAreFinite, LeastFirstGrows
  <2> QED
    BY <2>1, <2>2, <2>3
<1>2. CASE UNCHANGED <<g, order>>
  BY <1>2 DEF LeastFirst
<1> QED
  BY <1>1, <1>2 DEF Next, Count, Finish, Finished, vars

(***************************************************************************)
(* The invariant is inductive.                                             *)
(***************************************************************************)
LEMMA NextSortInv ==
  ASSUME SortInv, [Next]_vars
  PROVE  SortInv'
<1> USE DEF SortInv
<1>1. SortTypeOK' /\ PushedOnce'
  BY SortTypeOKStep, PushedOnceStep
<1>2. NotBegun' /\ Ended'
  BY DEF Next, Count, Pop, Finish, Finished, vars, NotBegun, Ended
<1>3. g' = g
  BY DEF Next, Count, Pop, Finish, Finished, vars
<1>4. Registered(g)' => CountsPending' /\ AfterUpstream' /\ LeastFirst(g, order)'
  BY <1>3, CountsPendingStep, AfterUpstreamStep, LeastFirstStep
<1> QED
  BY <1>1, <1>2, <1>4

(***************************************************************************)
(* The invariant holds on every workflow, throughout the sort.             *)
(***************************************************************************)
THEOREM SortInvariance == Spec => []SortInv
<1>1. SortInv /\ [Next]_vars => SortInv'
  BY NextSortInv
<1> QED
  BY InitSortInv, <1>1, PTL DEF Spec

(***************************************************************************)
(* A full order has every task.                                            *)
(***************************************************************************)
LEMMA OrderIsFull ==
  ASSUME SortInv, Registered(g), Begun
  PROVE  /\ ToSet(order) \subseteq g.tasks
         /\ Len(order) = Cardinality(g.tasks) <=> ToSet(order) = g.tasks
<1>1. ToSet(order) \subseteq g.tasks
  BY DEF SortInv, PushedOnce, CountsPending
<1>2. Cardinality(ToSet(order)) = Len(order)
  BY LengthIsCardinality DEF SortInv, SortTypeOK, PushedOnce
<1> QED
  BY <1>1, <1>2, IdsAreFinite, FS_Subset DEF SortInv

(***************************************************************************)
(* No node enters an order twice, whatever the graph (254-264).            *)
(***************************************************************************)
THEOREM NothingIsEmittedTwice == Spec => []NothingTwice
<1>1. SortInv => NothingTwice
  BY DEF SortInv, PushedOnce, NothingTwice
<1> QED
  BY <1>1, SortInvariance, PTL

(***************************************************************************)
(* What is returned for a registered graph is a topological order of all   *)
(* its tasks (266-273).                                                    *)
(***************************************************************************)
THEOREM SortIsCorrect == Spec => []OrderIsTopological
<1>1. ASSUME SortInv, pc = "returned", Registered(g)
      PROVE  IsTopological(g, order)
  <2>1. ToSet(order) = g.tasks
    BY <1>1, OrderIsFull DEF SortInv, Ended, Begun
  <2> QED
    BY <1>1, <2>1 DEF SortInv, PushedOnce, AfterUpstream, IsTopological
<1>2. SortInv => OrderIsTopological
  BY <1>1 DEF OrderIsTopological
<1> QED
  BY <1>2, SortInvariance, PTL

(***************************************************************************)
(* On a registered graph a cycle, and only a cycle, makes the sort raise   *)
(* (266-271).                                                              *)
(***************************************************************************)
THEOREM SortRaisesOnCycle == Spec => []RaisesOnCycle
<1>1. ASSUME SortInv, pc = "raised", Registered(g)
      PROVE  HasCycle(g)
  <2> DEFINE S == g.tasks \ ToSet(order)
  <2>1. Begun /\ ready = {}
    BY <1>1 DEF SortInv, Ended, Begun
  <2>2. S # {}
    BY <1>1, <2>1, OrderIsFull DEF SortInv, Ended
  <2>3. \A t \in S : upstream(g, t) \cap S # {}
    BY <1>1, <2>1, UpstreamIsRegistered DEF SortInv, CountsPending, Pending
  <2> QED
    BY <2>2, <2>3 DEF HasCycle
<1>2. ASSUME SortInv, pc = "returned", Registered(g), HasCycle(g)
      PROVE  FALSE
  <2>1. PICK S \in SUBSET g.tasks : S # {} /\ \A t \in S : upstream(g, t) \cap S # {}
    BY <1>2 DEF HasCycle
  <2>2. ToSet(order) = g.tasks /\ AfterUpstream /\ order \in Seq(Id)
    BY <1>2, OrderIsFull DEF SortInv, Ended, Begun, SortTypeOK
  <2> DEFINE Places == {n \in DOMAIN order : order[n] \in S}
  <2>3. Places \subseteq 1 .. Len(order) /\ Len(order) \in Nat
    BY <2>2
  <2>4. Places \in SUBSET Nat /\ IsFiniteSet(Places)
    <3>1. IsFiniteSet(1 .. Len(order)) /\ 1 .. Len(order) \subseteq Nat
      BY <2>3, FS_Interval
    <3> HIDE DEF Places
    <3> QED
      BY <2>3, <3>1, FS_Subset
  <2>5. Places # {}
    BY <2>1, <2>2 DEF ToSet
  <2>6. PICK n \in Places : \A p \in Places : n <= p
    <3> HIDE DEF Places
    <3> QED
      BY <2>4, <2>5, LeastIsMember
  <2>7. PICK u \in upstream(g, order[n]) \cap S : TRUE
    BY <2>1, <2>6
  <2>8. PICK m \in 1 .. n - 1 : order[m] = u
    BY <2>2, <2>6, <2>7 DEF AfterUpstream
  <2>9. m \in Places
    BY <2>2, <2>3, <2>6, <2>7, <2>8
  <2> QED
    BY <2>3, <2>6, <2>8, <2>9
<1>3. SortInv => RaisesOnCycle
  BY <1>1, <1>2 DEF RaisesOnCycle
<1> QED
  BY <1>3, SortInvariance, PTL

(***************************************************************************)
(* The order that is returned for a registered graph is the one that the   *)
(* function topological_order describes, and no topological order is       *)
(* before it (243-245).                                                    *)
(***************************************************************************)
THEOREM SortIsLeast == Spec => []OrderIsLeast
<1>1. ASSUME SortInv, pc = "returned", Registered(g)
      PROVE  /\ order = topological_order(g)
             /\ \A other \in TopologicalOrders(g) : ~Before(other, order)
  <2>1. g.tasks \subseteq Nat /\ IsFiniteSet(g.tasks)
    BY <1>1, IdsAreFinite DEF SortInv
  <2>2. LeastFirst(g, order) /\ Len(order) = Cardinality(g.tasks)
    BY <1>1 DEF SortInv, Ended
  <2>3. order \in Seq(g.tasks)
    BY <1>1, HeapIsReady DEF SortInv, Begun
  <2> QED
    BY <2>1, <2>2, <2>3, LeastFirstIsTheOrder, LeastFirstIsLeast
<1>2. SortInv => OrderIsLeast
  BY <1>1 DEF OrderIsLeast
<1> QED
  BY <1>2, SortInvariance, PTL

(***************************************************************************)
(* Whatever run() schedules, sequentially or by levels, every task has a   *)
(* batch after those of its upstream, and no batch is empty (engine.py     *)
(* 209-213 and 244-258).                                                   *)
(***************************************************************************)
THEOREM SortGivesSchedules == Spec => []BatchesAreSchedules
<1>1. ASSUME SortInv, RaisesOnCycle, pc = "returned", Registered(g)
      PROVE  IsSchedule(g, run_batches(g, 1)) /\ IsSchedule(g, run_batches(g, 2))
  <2>1. g.tasks \subseteq Nat /\ IsFiniteSet(g.tasks) /\ ~HasCycle(g)
    BY <1>1, IdsAreFinite DEF SortInv, RaisesOnCycle
  <2> QED
    BY <1>1, <2>1, BatchesOfAcyclicGraph
<1>2. SortInv /\ RaisesOnCycle => BatchesAreSchedules
  BY <1>1 DEF BatchesAreSchedules
<1> QED
  BY <1>2, SortInvariance, SortRaisesOnCycle, PTL

(***************************************************************************)
(* The sort ends after at most one pop for each id it counts, and two      *)
(* steps more, whatever the graph: unregistered ids, counts below zero and *)
(* cycles do not keep the loop going (dag.py 240-273).                     *)
(***************************************************************************)
SortSteps == Len(order) + CASE pc = "counting" -> 0 [] pc = "popping" -> 1 [] OTHER -> 2

THEOREM SortEnds ==
  Spec => /\ [](SortSteps \in 0 .. Cardinality(g.tasks \cup DOMAIN g.dependencies) + 2)
          /\ [][SortSteps' = SortSteps + 1]_vars
<1>1. ASSUME SortInv
      PROVE  SortSteps \in 0 .. Cardinality(g.tasks \cup DOMAIN g.dependencies) + 2
  <2> DEFINE counted == g.tasks \cup DOMAIN g.dependencies
  <2>1. IsFiniteSet(counted)
    BY <1>1, IdAssumption, FS_Subset DEF SortInv, SortTypeOK, IsWorkflow
  <2>2. ToSet(order) \subseteq counted
    <3>1. CASE pc = "counting"
      BY <1>1, <3>1 DEF SortInv, NotBegun, ToSet
    <3>2. CASE pc # "counting"
      BY <1>1, <3>2 DEF SortInv, SortTypeOK, PushedOnce, Begun
    <3> QED
      BY <3>1, <3>2
  <2>3. Cardinality(ToSet(order)) = Len(order)
    BY <1>1, LengthIsCardinality DEF SortInv, SortTypeOK, PushedOnce
  <2>4. Len(order) <= Cardinality(counted) /\ Cardinality(counted) \in Nat
    BY <2>1, <2>2, <2>3, FS_Subset, FS_CardinalityType
  <2> HIDE DEF counted
  <2>5. Len(order) \in Nat
    BY <1>1 DEF SortInv, SortTypeOK
  <2>6. SortSteps \in 0 .. Cardinality(counted) + 2
    BY <2>4, <2>5 DEF SortSteps
  <2> QED
    BY <2>6 DEF counted
<1>2. ASSUME SortInv, Next PROVE SortSteps' = SortSteps + 1 \/ UNCHANGED vars
  <2>1. CASE Pop
    <3>1. Len(order') = Len(order) + 1 /\ Len(order) \in Nat
      BY <1>2, <2>1, PopFacts DEF SortInv, SortTypeOK, Popped
    <3> QED
      BY <2>1, <3>1 DEF Pop, SortSteps
  <2>2. CASE Count \/ Finish
    <3>1. Len(order) \in Nat /\ order' = order
      BY <1>2, <2>2 DEF SortInv, SortTypeOK, Count, Finish
    <3> QED
      BY <2>2, <3>1 DEF Count, Finish, SortSteps
  <2> QED
    BY <1>2, <2>1, <2>2 DEF Next, Finished
<1>3. SortInv /\ [Next]_vars => [SortSteps' = SortSteps + 1]_vars
  BY <1>2
<1> QED
  BY SortInvariance, <1>1, <1>3, PTL DEF Spec
=============================================================================
