---------------------------- MODULE BuildProofs ----------------------------
(***************************************************************************)
(* What every sequence of calls of the builders leaves: a graph of         *)
(* registered tasks none of which depends on itself; that a call which     *)
(* adds a task closes no cycle; and that a chain runs in its order.        *)
(***************************************************************************)
EXTENDS WorkflowBuild, DagLemmas

(***************************************************************************)
(* FailsFast in terms of upstream alone, for any workflow.                 *)
(***************************************************************************)
Sound(h) ==
  /\ DOMAIN h.dependencies \subseteq h.tasks
  /\ \A t \in h.tasks : upstream(h, t) \subseteq h.tasks \ {t}

(***************************************************************************)
(* The invariant: a workflow, and a sound one.                             *)
(***************************************************************************)
BuildInv ==
  /\ IsRecord(g)
  /\ Sound(g)

(***************************************************************************)
(* A sound workflow fails fast.                                            *)
(***************************************************************************)
LEMMA SoundFailsFast == BuildInv => FailsFast
<1> SUFFICES ASSUME BuildInv PROVE FailsFast
  OBVIOUS
<1>1. \A t \in DOMAIN g.dependencies : g.dependencies[t] = upstream(g, t)
  BY DEF upstream
<1>2. \A t \in DOMAIN g.dependencies : t \in g.tasks /\ upstream(g, t) \subseteq g.tasks
  BY DEF BuildInv, Sound
<1> QED
  BY <1>1, <1>2 DEF BuildInv, Sound, FailsFast, Registered, NamedIds

(***************************************************************************)
(* What a call of add_task that is not refused outright does: t is new, so *)
(* nothing named it before, and what it depends on was there before it.    *)
(***************************************************************************)
LEMMA NewTask ==
  ASSUME BuildInv, NEW t, NEW depends_on \in Seq(Id), add_task(t, depends_on),
         t \notin g.tasks
  PROVE  /\ IsRecord(g')
         /\ (g').tasks = g.tasks \cup {t}
         /\ upstream(g', t) \subseteq g.tasks
         /\ \A i : i # t => upstream(g', i) = upstream(g, i)
         /\ DOMAIN (g').dependencies \subseteq DOMAIN g.dependencies \cup {t}
<1> DEFINE h == WithTask(g, t)
           refused == {n \in DOMAIN depends_on : Refusal(h, t, depends_on[n]) # "nothing"}
           wired   == {n \in DOMAIN depends_on : \A m \in refused : n < m}
           S       == {depends_on[n] : n \in wired}
<1>1. IsRecord(h) /\ h.tasks = g.tasks \cup {t} /\ h.dependencies = g.dependencies
  BY WithTaskFields DEF BuildInv
<1>2. g' = WithUpstream(h, t, S)
  BY DEF add_task
<1>3. S \subseteq g.tasks
  <2> SUFFICES ASSUME NEW n \in wired PROVE depends_on[n] \in g.tasks
    OBVIOUS
  <2>1. n \in DOMAIN depends_on /\ n \in Nat
    OBVIOUS
  <2>2. n \notin refused
    BY <2>1
  <2>3. Refusal(h, t, depends_on[n]) = "nothing"
    BY <2>1, <2>2
  <2> QED
    BY <1>1, <2>3 DEF Refusal
<1>4. upstream(g, t) = {}
  BY DEF BuildInv, Sound, upstream
<1>5. \A i : upstream(h, i) = upstream(g, i)
  BY <1>1 DEF upstream
<1>6. /\ IsRecord(g')
      /\ (g').tasks = g.tasks \cup {t}
      /\ upstream(g', t) = upstream(h, t) \cup S
      /\ \A i : i # t => upstream(g', i) = upstream(h, i)
      /\ DOMAIN (g').dependencies \subseteq DOMAIN g.dependencies \cup {t}
  <2> HIDE DEF S, h
  <2>1. upstream(g', t) = upstream(h, t) \cup S
    BY <1>1, <1>2 DEF IsRecord, WithUpstream, upstream
  <2>2. \A i : i # t => upstream(g', i) = upstream(h, i)
    BY <1>1, <1>2 DEF IsRecord, WithUpstream, upstream
  <2>3. IsRecord(g') /\ (g').tasks = g.tasks \cup {t}
    BY <1>1, <1>2, WithUpstreamFields
  <2>4. DOMAIN (g').dependencies \subseteq DOMAIN g.dependencies \cup {t}
    BY <1>1, <1>2 DEF IsRecord, WithUpstream
  <2> QED
    BY <2>1, <2>2, <2>3, <2>4
<1> QED
  BY <1>3, <1>4, <1>5, <1>6

(***************************************************************************)
(* What a chain of distinct ids is: each id depends on the one before.     *)
(***************************************************************************)
LEMMA ChainFields ==
  ASSUME NEW task_ids \in Seq(Id), task_ids # <<>>
  PROVE  LET c == chain(task_ids)
         IN  /\ IsRecord(c)
             /\ c.tasks = ToSet(task_ids)
             /\ DOMAIN c.dependencies \subseteq c.tasks
             /\ \A t : \A u \in upstream(c, t) :
                  \E n \in 1 .. Len(task_ids) - 1 : u = task_ids[n] /\ t = task_ids[n + 1]
<1> DEFINE c == chain(task_ids)
<1>1. \A n \in 1 .. Len(task_ids) - 1 : Tail(task_ids)[n] = task_ids[n + 1]
  OBVIOUS
<1>2. ToSet(Tail(task_ids)) \subseteq ToSet(task_ids)
  <2>1. Len(Tail(task_ids)) = Len(task_ids) - 1 /\ DOMAIN Tail(task_ids) = 1 .. Len(task_ids) - 1
    OBVIOUS
  <2> QED
    BY <1>1, <2>1 DEF ToSet
<1> QED
  BY <1>2 DEF chain, upstream, IsRecord

(***************************************************************************)
(* The wiring of a chain of distinct ids is never refused: its tasks are   *)
(* all registered before, and neighbours differ.                           *)
(***************************************************************************)
LEMMA ChainIsNotRefused ==
  ASSUME NEW task_ids \in Lists, from_chain(task_ids), IsInjective(task_ids)
  PROVE  raised' = "nothing" /\ g' = chain(task_ids)
<1>1. task_ids \in Seq(Id) /\ task_ids # <<>>
  BY ListsAssumption DEF from_chain
<1>2. ASSUME NEW n \in 1 .. Len(task_ids) - 1
      PROVE  Refusal(chain(task_ids), task_ids[n + 1], task_ids[n]) = "nothing"
  <2>1. chain(task_ids).tasks = ToSet(task_ids)
    BY <1>1, ChainFields
  <2>2. n \in DOMAIN task_ids /\ n + 1 \in DOMAIN task_ids /\ n # n + 1
    BY <1>1
  <2>3. {task_ids[n], task_ids[n + 1]} \subseteq ToSet(task_ids)
    BY <2>2 DEF ToSet
  <2>4. task_ids[n + 1] # task_ids[n]
    BY <2>2 DEF IsInjective
  <2> QED
    BY <2>1, <2>3, <2>4 DEF Refusal
<1> HIDE DEF chain
<1>3. raised' = "nothing"
  BY <1>2 DEF from_chain
<1> QED
  BY <1>3 DEF from_chain

(***************************************************************************)
(* The builders keep the invariant.                                        *)
(***************************************************************************)
LEMMA NextBuildInv == BuildInv /\ [Next]_vars => BuildInv'
<1> SUFFICES ASSUME BuildInv, [Next]_vars PROVE BuildInv'
  OBVIOUS
<1>1. ASSUME NEW t \in Id, NEW depends_on \in Lists, add_task(t, depends_on)
      PROVE  BuildInv'
  <2>1. CASE t \in g.tasks
    BY <1>1, <2>1 DEF add_task, BuildInv, Sound
  <2>2. CASE t \notin g.tasks
    <3>1. depends_on \in Seq(Id)
      BY ListsAssumption
    <3>2. /\ IsRecord(g')
          /\ (g').tasks = g.tasks \cup {t}
          /\ upstream(g', t) \subseteq g.tasks
          /\ \A i : i # t => upstream(g', i) = upstream(g, i)
          /\ DOMAIN (g').dependencies \subseteq DOMAIN g.dependencies \cup {t}
      BY <1>1, <2>2, <3>1, NewTask
    <3> QED
      BY <2>2, <3>2 DEF BuildInv, Sound
  <2> QED
    BY <2>1, <2>2
<1>2. ASSUME NEW t \in Id, NEW u \in Id, add_dependency(t, u)
      PROVE  BuildInv'
  <2>1. CASE Refusal(g, t, u) # "nothing"
    BY <1>2, <2>1 DEF add_dependency, BuildInv, Sound
  <2>2. CASE Refusal(g, t, u) = "nothing"
    <3>1. t \in g.tasks /\ u \in g.tasks \ {t}
      BY <2>2 DEF Refusal
    <3>2. g' = WithUpstream(g, t, {u})
      BY <1>2, <2>2 DEF add_dependency
    <3>3. /\ IsRecord(g')
          /\ (g').tasks = g.tasks
          /\ upstream(g', t) = upstream(g, t) \cup {u}
          /\ \A i : i # t => upstream(g', i) = upstream(g, i)
          /\ DOMAIN (g').dependencies = DOMAIN g.dependencies \cup {t}
      BY <3>2, WithUpstreamFields DEF BuildInv, IsRecord, WithUpstream, upstream
    <3> QED
      BY <3>1, <3>3 DEF BuildInv, Sound
  <2> QED
    BY <2>1, <2>2
<1>3. ASSUME NEW task_ids \in Lists, from_chain(task_ids) PROVE BuildInv'
  <2>1. CASE raised' = "nothing"
    <3>1. task_ids \in Seq(Id) /\ task_ids # <<>> /\ IsInjective(task_ids)
      BY <1>3, <2>1, ListsAssumption DEF from_chain
    <3>2. g' = chain(task_ids)
      BY <1>3, <2>1 DEF from_chain
    <3>3. \A n \in 1 .. Len(task_ids) - 1 :
             /\ task_ids[n] \in ToSet(task_ids)
             /\ task_ids[n] # task_ids[n + 1]
      BY <3>1 DEF ToSet, IsInjective
    <3> HIDE DEF chain
    <3> QED
      BY <3>1, <3>2, <3>3, ChainFields DEF BuildInv, Sound
  <2>2. CASE raised' # "nothing"
    BY <1>3, <2>2 DEF from_chain, BuildInv, Sound
  <2> QED
    BY <2>1, <2>2
<1>4. CASE UNCHANGED vars
  BY <1>4 DEF vars, BuildInv, Sound
<1> QED
  BY <1>1, <1>2, <1>3, <1>4 DEF Next, AddTask, AddDependency, FromChain

(***************************************************************************)
(* Before any call the workflow is empty.                                  *)
(***************************************************************************)
LEMMA InitBuildInv == Init => BuildInv
  BY DEF Init, BuildInv, IsRecord, Sound, EmptyWorkflow

(***************************************************************************)
(* Whatever is called, whatever is raised and caught, the graph names      *)
(* registered ids only and no task depends on itself (dag.py 116-144).     *)
(***************************************************************************)
THEOREM BuildersFailFast == Spec => []FailsFast
<1> QED
  BY InitBuildInv, NextBuildInv, SoundFailsFast, PTL DEF Spec

(***************************************************************************)
(* A trap without t stays a trap when nobody in it depends on t, so adding *)
(* t to an acyclic workflow that does not name it leaves it acyclic.       *)
(***************************************************************************)
LEMMA NewTaskClosesNoCycle ==
  ASSUME BuildInv, ~HasCycle(g),
         NEW t, NEW depends_on \in Seq(Id), add_task(t, depends_on), t \notin g.tasks
  PROVE  ~HasCycle(g')
<1> SUFFICES ASSUME NEW S \in SUBSET (g').tasks, S # {},
                    \A i \in S : upstream(g', i) \cap S # {}
             PROVE  FALSE
  BY DEF HasCycle
<1>1. /\ (g').tasks = g.tasks \cup {t}
      /\ upstream(g', t) \subseteq g.tasks
      /\ \A i : i # t => upstream(g', i) = upstream(g, i)
  BY NewTask
<1>2. \A i \in S \ {t} : upstream(g, i) \cap (S \ {t}) # {}
  BY <1>1 DEF BuildInv, Sound
<1>3. S \ {t} # {}
  BY <1>1
<1>4. S \ {t} \in SUBSET g.tasks
  BY <1>1
<1> QED
  BY <1>2, <1>3, <1>4 DEF HasCycle

(***************************************************************************)
(* A chain of distinct ids has no cycle: in a trap, the first id of the    *)
(* chain would depend on one before it.                                    *)
(***************************************************************************)
LEMMA ChainHasNoCycle ==
  ASSUME NEW task_ids \in Seq(Id), task_ids # <<>>, IsInjective(task_ids)
  PROVE  ~HasCycle(chain(task_ids))
<1> DEFINE c == chain(task_ids)
<1> SUFFICES ASSUME NEW S \in SUBSET c.tasks, S # {},
                    \A t \in S : upstream(c, t) \cap S # {}
             PROVE  FALSE
  BY DEF HasCycle
<1>f. /\ c.tasks = ToSet(task_ids)
      /\ \A t : \A u \in upstream(c, t) :
           \E n \in 1 .. Len(task_ids) - 1 : u = task_ids[n] /\ t = task_ids[n + 1]
  BY ChainFields
<1> HIDE DEF c
<1> DEFINE P == {n \in 1 .. Len(task_ids) : task_ids[n] \in S}
<1>1. P # {}
  <2>1. PICK t \in S : t \in ToSet(task_ids)
    BY <1>f
  <2>2. PICK n \in 1 .. Len(task_ids) : task_ids[n] = t
    BY <2>1 DEF ToSet
  <2> QED
    BY <2>1, <2>2
<1>2. P \in SUBSET Nat /\ IsFiniteSet(P)
  BY FS_Interval, FS_Subset
<1> HIDE DEF P
<1>3. Min(P) \in P /\ \A n \in P : Min(P) <= n
  BY <1>1, <1>2, LeastIsMember
<1>4. PICK u \in S : u \in upstream(c, task_ids[Min(P)])
  BY <1>3 DEF P
<1>5. PICK n \in 1 .. Len(task_ids) - 1 :
        u = task_ids[n] /\ task_ids[Min(P)] = task_ids[n + 1]
  BY <1>f, <1>4
<1>6. Min(P) = n + 1
  BY <1>3, <1>5 DEF IsInjective, P
<1>7. n \in P
  BY <1>4, <1>5 DEF P
<1> QED
  BY <1>3, <1>6, <1>7

(***************************************************************************)
(* Only add_dependency can close a cycle.                                  *)
(***************************************************************************)
THEOREM OnlyDependenciesCloseCycles == Spec => NewTasksCloseNoCycle
<1>1. ASSUME BuildInv, [Next]_vars, (g').tasks # g.tasks, ~HasCycle(g)
      PROVE  ~HasCycle(g')
  <2>1. ASSUME NEW t \in Id, NEW depends_on \in Lists, add_task(t, depends_on)
        PROVE  ~HasCycle(g')
    <3>1. t \notin g.tasks
      BY <1>1, <2>1 DEF add_task
    <3> QED
      BY <1>1, <2>1, <3>1, ListsAssumption, NewTaskClosesNoCycle
  <2>2. ASSUME NEW t \in Id, NEW u \in Id, add_dependency(t, u)
        PROVE  (g').tasks = g.tasks
    BY <1>1, <2>2, WithUpstreamFields DEF add_dependency, BuildInv
  <2>3. ASSUME NEW task_ids \in Lists, from_chain(task_ids) PROVE ~HasCycle(g')
    BY <1>1, <2>3, ListsAssumption, ChainHasNoCycle DEF from_chain
  <2> QED
    BY <1>1, <2>1, <2>2, <2>3 DEF Next, AddTask, AddDependency, FromChain, vars
<1>2. BuildInv /\ [Next]_vars
        => [(g').tasks # g.tasks /\ ~HasCycle(g) => ~HasCycle(g')]_vars
  BY <1>1
<1> QED
  BY InitBuildInv, NextBuildInv, <1>2, PTL DEF Spec, NewTasksCloseNoCycle

(***************************************************************************)
(* Whatever is called, the graph stays within the ids, and each builder    *)
(* raises no more than this: add_task what it refuses and what the wiring  *)
(* is refused with, add_dependency no DuplicateTaskError, and from_chain   *)
(* nothing but one (dag.py 116-144, 278-286).                              *)
(***************************************************************************)
THEOREM BuildTypes == Spec => []BuildTypeOK
<1>1. ASSUME Init PROVE BuildTypeOK
  BY <1>1 DEF Init, BuildTypeOK, IsWorkflow, EmptyWorkflow
<1>2. ASSUME BuildInv, BuildTypeOK, [Next]_vars PROVE BuildTypeOK'
  <2>1. ASSUME NEW h, IsRecord(h), IsWorkflow(h, Id), NEW t \in Id, NEW S \in SUBSET Id
        PROVE  IsWorkflow(WithUpstream(h, t, S), Id)
    <3>1. CASE S = {}
      BY <2>1, <3>1 DEF WithUpstream
    <3>2. CASE S # {}
      <4>1. upstream(h, t) \subseteq Id
        BY <2>1 DEF IsWorkflow, upstream
      <4> DEFINE E == [i \in DOMAIN h.dependencies \cup {t} |->
                         IF i = t THEN upstream(h, t) \cup S ELSE h.dependencies[i]]
      <4>2. WithUpstream(h, t, S) = [tasks |-> h.tasks, dependencies |-> E]
        BY <2>1, <3>2 DEF WithUpstream, IsRecord
      <4>3. DOMAIN E \subseteq Id /\ \A i \in DOMAIN E : E[i] \subseteq Id
        BY <2>1, <4>1 DEF IsWorkflow
      <4> HIDE DEF E
      <4> QED
        BY <2>1, <4>2, <4>3 DEF IsWorkflow
    <3> QED
      BY <3>1, <3>2
  <2>2. \A h, t, u : Refusal(h, t, u) \in {"nothing", "UnknownTaskError", "SelfDependencyError"}
    BY DEF Refusal
  <2>3. IsRecord(g) /\ IsWorkflow(g, Id)
    BY <1>2 DEF BuildInv, BuildTypeOK
  <2>4. ASSUME NEW t \in Id, NEW depends_on \in Lists, add_task(t, depends_on)
        PROVE  BuildTypeOK'
    <3>1. CASE t \in g.tasks
      BY <1>2, <2>4, <3>1 DEF add_task, BuildTypeOK
    <3>2. CASE t \notin g.tasks
      <4> DEFINE h == WithTask(g, t)
                 refused == {n \in DOMAIN depends_on : Refusal(h, t, depends_on[n]) # "nothing"}
                 wired   == {n \in DOMAIN depends_on : \A m \in refused : n < m}
                 S       == {depends_on[n] : n \in wired}
      <4>1. IsRecord(h) /\ IsWorkflow(h, Id)
        BY <2>3, WithTaskFields DEF IsWorkflow
      <4>2. S \in SUBSET Id
        <5>1. depends_on \in Seq(Id)
          BY ListsAssumption
        <5> QED
          BY <5>1
      <4>3. g' = WithUpstream(h, t, S)
        BY <2>4, <3>2 DEF add_task
      <4>4. raised' = IF refused = {} THEN "nothing"
                      ELSE Refusal(h, t, depends_on[Min(refused)])
        BY <2>4, <3>2 DEF add_task
      <4> HIDE DEF h, refused, S
      <4>5. IsWorkflow(g', Id)
        BY <2>1, <4>1, <4>2, <4>3
      <4>6. raised' \in {"nothing", "UnknownTaskError", "SelfDependencyError"}
        BY <2>2, <4>4
      <4>7. called' = "add_task"
        BY <2>4 DEF add_task
      <4> QED
        BY <4>5, <4>6, <4>7 DEF BuildTypeOK
    <3> QED
      BY <3>1, <3>2
  <2>5. ASSUME NEW t \in Id, NEW u \in Id, add_dependency(t, u)
        PROVE  BuildTypeOK'
    <3>1. g' = g \/ g' = WithUpstream(g, t, {u})
      BY <2>5 DEF add_dependency
    <3>2. IsWorkflow(g', Id)
      BY <2>1, <2>3, <3>1
    <3> QED
      BY <2>2, <2>5, <3>2 DEF add_dependency, BuildTypeOK
  <2>6. ASSUME NEW task_ids \in Lists, from_chain(task_ids)
        PROVE  BuildTypeOK'
    <3>1. task_ids \in Seq(Id) /\ task_ids # <<>>
      BY <2>6, ListsAssumption DEF from_chain
    <3>2. IsWorkflow(chain(task_ids), Id)
      <4>1. ToSet(task_ids) \subseteq Id
        BY <3>1 DEF ToSet
      <4>2. \A t \in DOMAIN chain(task_ids).dependencies :
              chain(task_ids).dependencies[t] = upstream(chain(task_ids), t)
        BY DEF upstream
      <4>3. \A t : upstream(chain(task_ids), t) \subseteq Id
        BY <3>1, ChainFields
      <4> QED
        BY <3>1, <4>1, <4>2, <4>3, ChainFields DEF IsWorkflow
    <3>3. g' = chain(task_ids) \/ g' = g
      BY <2>6 DEF from_chain
    <3>4. IsWorkflow(g', Id)
      BY <2>3, <3>2, <3>3
    <3>5. raised' \in {"nothing", "DuplicateTaskError"}
      <4>1. CASE IsInjective(task_ids)
        BY <2>6, <4>1, ChainIsNotRefused
      <4>2. CASE ~IsInjective(task_ids)
        BY <2>6, <4>2 DEF from_chain
      <4> QED
        BY <4>1, <4>2
    <3>6. called' = "from_chain"
      BY <2>6 DEF from_chain
    <3> QED
      BY <3>4, <3>5, <3>6 DEF BuildTypeOK
  <2> QED
    BY <1>2, <2>4, <2>5, <2>6 DEF Next, AddTask, AddDependency, FromChain, vars, BuildTypeOK
<1> QED
  BY InitBuildInv, NextBuildInv, <1>1, <1>2, PTL DEF Spec

(***************************************************************************)
(* A chain of distinct ids is the least of its orders: at each place one   *)
(* id is ready, the next of the list.                                      *)
(***************************************************************************)
LEMMA ChainIsLeastFirst ==
  ASSUME NEW task_ids \in Seq(Id), task_ids # <<>>, IsInjective(task_ids)
  PROVE  LeastFirst(chain(task_ids), task_ids)
<1> DEFINE c == chain(task_ids)
           L == Len(task_ids)
           Pre(n) == {task_ids[m] : m \in 1 .. n - 1}
<1>1. L \in Nat /\ DOMAIN task_ids = 1 .. L /\ \A n \in 1 .. L : task_ids[n] \in Nat
  <2>1. L \in Nat /\ DOMAIN task_ids = 1 .. L /\ \A n \in 1 .. L : task_ids[n] \in Id
    OBVIOUS
  <2>2. \A i \in Id : i \in Nat
    BY IdAssumption
  <2> QED
    BY <2>1, <2>2
<1>2. /\ c.tasks = ToSet(task_ids)
      /\ \A t : \A u \in upstream(c, t) :
           \E n \in 1 .. L - 1 : u = task_ids[n] /\ t = task_ids[n + 1]
  BY ChainFields
<1>3. ASSUME NEW n \in 1 .. L - 1 PROVE task_ids[n] \in upstream(c, task_ids[n + 1])
  <2>1. /\ DOMAIN Tail(task_ids) = 1 .. L - 1
        /\ Tail(task_ids)[n] = task_ids[n + 1]
    OBVIOUS
  <2>2. task_ids[n + 1] \in ToSet(Tail(task_ids))
    BY <2>1 DEF ToSet
  <2> QED
    BY <2>2 DEF chain, upstream
<1> HIDE DEF c
<1>4. \A n \in 1 .. L : \A m \in 1 .. L : task_ids[n] = task_ids[m] => n = m
  BY <1>1 DEF IsInjective
<1> SUFFICES ASSUME NEW n \in 1 .. L
             PROVE  /\ task_ids[n] \in Ready(c, SubSeq(task_ids, 1, n - 1))
                    /\ \A t \in Ready(c, SubSeq(task_ids, 1, n - 1)) : task_ids[n] <= t
  BY <1>1 DEF LeastFirst, c
<1>5. ToSet(SubSeq(task_ids, 1, n - 1)) = Pre(n)
  <2>1. n \in 1 .. Len(task_ids) + 1
    BY <1>1
  <2> QED
    BY <2>1, PrefixSet
<1>6. task_ids[n] \in c.tasks \ Pre(n)
  <2>1. task_ids[n] \in c.tasks
    BY <1>1, <1>2 DEF ToSet
  <2>2. ASSUME NEW m \in 1 .. n - 1 PROVE task_ids[m] # task_ids[n]
    <3>1. m \in 1 .. L /\ m # n
      BY <1>1
    <3> QED
      BY <1>4, <3>1
  <2> QED
    BY <2>1, <2>2
<1>7. upstream(c, task_ids[n]) \subseteq Pre(n)
  <2> SUFFICES ASSUME NEW u \in upstream(c, task_ids[n]) PROVE u \in Pre(n)
    OBVIOUS
  <2>1. PICK m \in 1 .. L - 1 : u = task_ids[m] /\ task_ids[n] = task_ids[m + 1]
    BY <1>2
  <2>2. m + 1 \in 1 .. L
    BY <1>1
  <2>3. n = m + 1
    BY <1>4, <2>1, <2>2
  <2>4. m \in 1 .. n - 1
    BY <2>3
  <2> QED
    BY <2>1, <2>4
<1>8. ASSUME NEW t \in c.tasks \ Pre(n), upstream(c, t) \cap c.tasks \subseteq Pre(n)
      PROVE  t = task_ids[n]
  <2>1. PICK k \in 1 .. L : t = task_ids[k]
    BY <1>1, <1>2 DEF ToSet
  <2>2. CASE k < n
    <3>1. k \in 1 .. n - 1
      BY <2>2
    <3> QED
      BY <1>8, <2>1, <3>1
  <2>3. CASE k > n
    <3>1. k - 1 \in 1 .. L - 1 /\ (k - 1) + 1 = k /\ k - 1 \in 1 .. L
      BY <1>1, <2>3
    <3>2. task_ids[k - 1] \in upstream(c, t)
      <4>1. task_ids[k - 1] \in upstream(c, task_ids[(k - 1) + 1])
        BY <1>3, <3>1
      <4> QED
        BY <2>1, <3>1, <4>1
    <3>3. task_ids[k - 1] \in c.tasks
      BY <1>1, <1>2, <3>1 DEF ToSet
    <3>4. task_ids[k - 1] \in Pre(n)
      BY <1>8, <3>2, <3>3
    <3>5. PICK m \in 1 .. n - 1 : task_ids[m] = task_ids[k - 1]
      BY <3>4
    <3>6. m \in 1 .. L
      BY <1>1
    <3>7. m = k - 1
      BY <1>4, <3>1, <3>5, <3>6
    <3> QED
      BY <1>1, <2>3, <3>7
  <2> QED
    BY <1>1, <2>1, <2>2, <2>3
<1>9. task_ids[n] \in Ready(c, SubSeq(task_ids, 1, n - 1))
  <2> HIDE DEF Pre
  <2> QED
    BY <1>5, <1>6, <1>7 DEF Ready
<1>10. \A t \in Ready(c, SubSeq(task_ids, 1, n - 1)) : t = task_ids[n]
  <2> HIDE DEF Pre
  <2> QED
    BY <1>5, <1>8 DEF Ready
<1> QED
  BY <1>1, <1>9, <1>10

(***************************************************************************)
(* A workflow made by from_chain runs in the order of its list, whatever   *)
(* the order of the ids (dag.py 278-286).                                  *)
(***************************************************************************)
THEOREM ChainsRunInOrder == Spec => ChainRunsInOrder
<1>1. ASSUME NEW task_ids \in Lists, from_chain(task_ids), raised' = "nothing"
      PROVE  topological_order(g') = task_ids
  <2>1. task_ids \in Seq(Id) /\ task_ids # <<>>
    BY <1>1, ListsAssumption DEF from_chain
  <2>2. IsInjective(task_ids) /\ g' = chain(task_ids)
    BY <1>1 DEF from_chain
  <2> DEFINE c == chain(task_ids)
  <2>3. c.tasks = ToSet(task_ids)
    BY <2>1, ChainFields
  <2>4. IsFiniteSet(ToSet(task_ids)) /\ Cardinality(ToSet(task_ids)) = Len(task_ids)
    BY <2>1, <2>2, LengthIsCardinality
  <2>5. ToSet(task_ids) \subseteq Nat /\ task_ids \in Seq(ToSet(task_ids))
    <3>1. ToSet(task_ids) \subseteq Id
      BY <2>1 DEF ToSet
    <3>2. \A i \in Id : i \in Nat
      BY IdAssumption
    <3>3. task_ids \in Seq(ToSet(task_ids))
      BY <2>1 DEF ToSet
    <3> QED
      BY <3>1, <3>2, <3>3
  <2>6. LeastFirst(c, task_ids)
    BY <2>1, <2>2, ChainIsLeastFirst
  <2> HIDE DEF c
  <2>7. task_ids = topological_order(c)
    BY <2>3, <2>4, <2>5, <2>6, LeastFirstIsTheOrder
  <2> QED
    BY <2>2, <2>7 DEF c
<1>2. [Next]_vars => [\A task_ids \in Lists :
                        from_chain(task_ids) /\ raised' = "nothing"
                          => topological_order(g') = task_ids]_vars
  BY <1>1
<1> QED
  BY <1>2, PTL DEF Spec, ChainRunsInOrder
=============================================================================
