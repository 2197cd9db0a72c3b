---------------------------- MODULE LoadingProofs ----------------------------
(***************************************************************************)
(* Proofs about loading, for files of any length that may change at any    *)
(* time: the workflow that the two loops of build_workflow make is the one *)
(* that the file declares, and the checks, made one by one in four places, *)
(* accept the executable files and no others.                              *)
(***************************************************************************)
EXTENDS Loading, DagLemmas

(***************************************************************************)
(* The entries of the file, and what of them has been added and wired.     *)
(***************************************************************************)
Size        == Len(config.tasks)
TaskId(n)   == config.tasks[n].task_id
Upstream(n) == config.tasks[n].depends_on
Added(n)    == {TaskId(m) : m \in 1 .. n}

Wired(n) ==
  IF n < entry THEN ToSet(Upstream(n))
  ELSE IF n = entry THEN {Upstream(n)[m] : m \in 1 .. dep - 1}
  ELSE {}

(***************************************************************************)
(* Where loading is, and how far it must have come.                        *)
(***************************************************************************)
BeforeAdding == {"finding", "reading", "creating"}
Resolved     == {"finding params", "reading params", "constructing", "ready"}
AfterWiring  == {"resolving"} \cup Resolved
AfterAdding  == {"wiring"} \cup AfterWiring
Readings     == {"finding", "reading", "finding params", "reading params"}

(***************************************************************************)
(* The first n tasks are distinct and named by identifiers.                *)
(***************************************************************************)
Accepted(n) ==
  /\ config.workflow_id \notin BadIds
  /\ Added(n) \cap BadIds = {}
  /\ \A a, b \in 1 .. n : TaskId(a) = TaskId(b) => a = b

(***************************************************************************)
(* The loop that adds: the workflow has the tasks before the entry.        *)
(***************************************************************************)
Adding ==
  /\ entry \in 1 .. Size + 1
  /\ dep = 1
  /\ Accepted(entry - 1)
  /\ g = [tasks |-> Added(entry - 1), dependencies |-> EmptyWorkflow.dependencies]

(***************************************************************************)
(* The loops that wire, and everything after them: each task has the       *)
(* upstream that has been wired, and that is registered.                   *)
(***************************************************************************)
Wiring ==
  /\ entry \in 1 .. Size + 1
  /\ dep \in Nat \ {0}
  /\ entry <= Size => dep <= Len(Upstream(entry)) + 1
  /\ Accepted(Size)
  /\ IsRecord(g)
  /\ g.tasks = Added(Size)
  /\ DOMAIN g.dependencies \subseteq g.tasks
  /\ \A n \in 1 .. Size : /\ upstream(g, TaskId(n)) = Wired(n)
                          /\ Wired(n) \subseteq g.tasks \ {TaskId(n)}

(***************************************************************************)
(* What is raised, and where.                                              *)
(***************************************************************************)
Refused ==
  /\ error \in {"OSError", "ValueError"} => pc \in Readings
  /\ error = "ValidationError" =>
       (Declared(config).tasks \cup {config.workflow_id}) \cap BadIds # {}
  /\ error \in OrchestrationError \cup {"none", "OSError", "ValueError", "ValidationError"}
  /\ error # "none" => pc \in Readings \/ ~Executable(config)

(***************************************************************************)
(* The inductive invariant of loading (config.py, and the constructor of   *)
(* WorkflowEngine).                                                        *)
(***************************************************************************)
LoadInv ==
  /\ config \in Configs
  /\ pc \in BeforeAdding \cup {"adding"} \cup AfterAdding
  /\ pc \in BeforeAdding => entry = 1 /\ dep = 1 /\ g = EmptyWorkflow
  /\ pc = "adding" => Adding
  /\ pc \in AfterAdding => Wiring
  /\ pc \in AfterWiring => entry = Size + 1
  /\ pc \in Resolved =>
       callables = g.tasks /\ \A n \in 1 .. Size : config.tasks[n].callable \in Registry
  /\ pc = "ready" => validate_graph(g) /\ error = "none"
  /\ Refused
-----------------------------------------------------------------------------
(***************************************************************************)
(* What a config holds.                                                    *)
(***************************************************************************)
LEMMA ConfigFacts ==
  ASSUME config \in Configs
  PROVE  /\ Size \in Nat \ {0} /\ Entries(config) = 1 .. Size
         /\ config.workflow_id \in Id
         /\ \A n \in 1 .. Size : TaskId(n) \in Id /\ Upstream(n) \in Seq(Id)
<1>1. /\ config.tasks \in Seq([task_id : Id, callable : STRING, depends_on : Seq(Id)])
      /\ config.tasks # <<>> /\ config.workflow_id \in Id
  BY LoadingAssumption
<1>2. \A n \in DOMAIN config.tasks :
        config.tasks[n] \in [task_id : Id, callable : STRING, depends_on : Seq(Id)]
  <2> DEFINE R == [task_id : Id, callable : STRING, depends_on : Seq(Id)]
  <2>1. config.tasks \in Seq(R)
    BY <1>1
  <2> HIDE DEF R
  <2>2. \A n \in DOMAIN config.tasks : config.tasks[n] \in R
    BY <2>1
  <2> QED
    BY <2>2 DEF R
<1>3. \A n \in DOMAIN config.tasks :
        config.tasks[n].task_id \in Id /\ config.tasks[n].depends_on \in Seq(Id)
  BY <1>2
<1>4. Size \in Nat \ {0} /\ DOMAIN config.tasks = 1 .. Size
  BY <1>1 DEF Size
<1> QED
  BY <1>1, <1>3, <1>4 DEF Entries, TaskId, Upstream

(***************************************************************************)
(* The tasks of a file are as many as its entries if no two share an id.   *)
(***************************************************************************)
LEMMA DistinctIsFull ==
  ASSUME config \in Configs
  PROVE  /\ Declared(config).tasks = Added(Size)
         /\ IsFiniteSet(Added(Size))
         /\ Cardinality(Added(Size)) = Size <=>
              \A a, b \in 1 .. Size : TaskId(a) = TaskId(b) => a = b
<1> DEFINE f == [n \in 1 .. Size |-> TaskId(n)]
<1>1. Size \in Nat /\ Entries(config) = 1 .. Size
  BY ConfigFacts
<1>2. Declared(config).tasks = Added(Size)
  BY <1>1 DEF Declared, Added, TaskId
<1>3. f \in Surjection(1 .. Size, Added(Size))
  BY DEF Surjection, Added
<1>4. IsFiniteSet(1 .. Size) /\ Cardinality(1 .. Size) = Size
  BY <1>1, FS_Interval
<1> HIDE DEF f
<1>5. /\ IsFiniteSet(Added(Size))
      /\ Cardinality(Added(Size)) = Size <=> f \in Injection(1 .. Size, Added(Size))
  BY <1>3, <1>4, FS_Surjection
<1>6. f \in Injection(1 .. Size, Added(Size)) <=>
        \A a, b \in 1 .. Size : TaskId(a) = TaskId(b) => a = b
  <2>1. \A n \in 1 .. Size : f[n] = TaskId(n)
    BY DEF f
  <2>2. f \in [1 .. Size -> Added(Size)]
    BY <1>3 DEF Surjection
  <2> QED
    BY <2>1, <2>2 DEF Injection, IsInjective
<1> QED
  BY <1>2, <1>5, <1>6

(***************************************************************************)
(* The upstream that a file without repeated ids declares for a task is    *)
(* the list of its entry.                                                  *)
(***************************************************************************)
LEMMA DeclaredUpstream ==
  ASSUME config \in Configs, Accepted(Size)
  PROVE  /\ \A n \in 1 .. Size : upstream(Declared(config), TaskId(n)) = ToSet(Upstream(n))
         /\ DOMAIN Declared(config).dependencies = Added(Size)
<1>1. Entries(config) = 1 .. Size
  BY ConfigFacts
<1>2. ASSUME NEW n \in 1 .. Size
      PROVE  upstream(Declared(config), TaskId(n)) = ToSet(Upstream(n))
  <2>1. {m \in 1 .. Size : TaskId(m) = TaskId(n)} = {n}
    BY DEF Accepted
  <2>2. upstream(Declared(config), TaskId(n)) =
          UNION {ToSet(Upstream(i)) : i \in {m \in 1 .. Size : TaskId(m) = TaskId(n)}}
    BY <1>1 DEF Declared, upstream, TaskId, Upstream
  <2>3. {ToSet(Upstream(i)) : i \in {m \in 1 .. Size : TaskId(m) = TaskId(n)}}
          = {ToSet(Upstream(n))}
    BY <2>1
  <2> QED
    BY <2>2, <2>3
<1>3. DOMAIN Declared(config).dependencies = Added(Size)
  BY <1>1 DEF Declared, Added, TaskId
<1> QED
  BY <1>2, <1>3

(***************************************************************************)
(* Once everything is wired the workflow is the one that is declared.      *)
(***************************************************************************)
LEMMA SameGraph ==
  ASSUME config \in Configs, Wiring, entry = Size + 1
  PROVE  /\ g.tasks = Declared(config).tasks
         /\ \A t \in g.tasks : upstream(g, t) = upstream(Declared(config), t)
         /\ Registered(Declared(config)) /\ Registered(g)
         /\ HasCycle(g) <=> HasCycle(Declared(config))
         /\ g.tasks # {} /\ g.tasks \subseteq Id
<1> DEFINE d == Declared(config)
<1>1. /\ Size \in Nat \ {0}
      /\ \A n \in 1 .. Size : TaskId(n) \in Id /\ Upstream(n) \in Seq(Id)
  BY ConfigFacts
<1>2. g.tasks = Added(Size) /\ d.tasks = Added(Size)
  BY DistinctIsFull DEF Wiring
<1>3. \A t \in g.tasks : \E n \in 1 .. Size : t = TaskId(n)
  BY <1>2 DEF Added
<1>4. \A n \in 1 .. Size : Wired(n) = ToSet(Upstream(n))
  BY <1>1 DEF Wired
<1>5. \A n \in 1 .. Size : upstream(d, TaskId(n)) = ToSet(Upstream(n))
  BY DeclaredUpstream DEF Wiring
<1> HIDE DEF d
<1>6. \A t \in g.tasks : upstream(g, t) = upstream(d, t) /\ upstream(g, t) \subseteq g.tasks
  BY <1>3, <1>4, <1>5 DEF Wiring
<1>7. Registered(g)
  <2>1. \A t \in DOMAIN g.dependencies : t \in g.tasks /\ g.dependencies[t] = upstream(g, t)
    BY DEF Wiring, upstream
  <2> QED
    BY <1>6, <2>1 DEF Registered, NamedIds
<1>8. Registered(d)
  <2>1. DOMAIN d.dependencies = g.tasks
    BY <1>2, DeclaredUpstream DEF Wiring, d
  <2>2. \A t \in DOMAIN d.dependencies : d.dependencies[t] = upstream(d, t)
    BY DEF upstream
  <2> QED
    BY <1>2, <1>6, <2>1, <2>2 DEF Registered, NamedIds
<1>9. HasCycle(g) <=> HasCycle(d)
  BY <1>2, <1>6 DEF HasCycle
<1>10. g.tasks # {} /\ g.tasks \subseteq Id
  BY <1>1, <1>2 DEF Added
<1> QED
  BY <1>2, <1>6, <1>7, <1>8, <1>9, <1>10 DEF d

(***************************************************************************)
(* What makes a config executable.                                         *)
(***************************************************************************)
LEMMA ExecutableMeans ==
  ASSUME config \in Configs
  PROVE  Executable(config) <=>
           /\ Accepted(Size)
           /\ \A n \in 1 .. Size : config.tasks[n].callable \in Registry
           /\ Registered(Declared(config)) /\ ~HasCycle(Declared(config))
<1>1. /\ Declared(config).tasks = Added(Size)
      /\ Cardinality(Added(Size)) = Size <=>
           \A a, b \in 1 .. Size : TaskId(a) = TaskId(b) => a = b
  BY DistinctIsFull
<1>2. Entries(config) = 1 .. Size /\ config.workflow_id \in Id /\ Added(Size) \subseteq Id
  BY ConfigFacts DEF Added
<1>3. ({config.workflow_id} \cup Added(Size)) \subseteq Id \ BadIds <=>
        config.workflow_id \notin BadIds /\ Added(Size) \cap BadIds = {}
  BY <1>2
<1> QED
  BY <1>1, <1>2, <1>3 DEF Executable, Accepted, Size

(***************************************************************************)
(* Nothing that is said of a config changes while it does not.             *)
(***************************************************************************)
LEMMA SameConfig ==
  ASSUME config' = config
  PROVE  /\ Size' = Size
         /\ \A n : /\ TaskId(n)' = TaskId(n) /\ Upstream(n)' = Upstream(n)
                   /\ Added(n)' = Added(n) /\ Accepted(n)' = Accepted(n)
         /\ Declared(config)' = Declared(config)
         /\ Executable(config)' = Executable(config)
  BY DEF Size, TaskId, Upstream, Added, Accepted, Declared, Executable, Entries

(***************************************************************************)
(* Going on raises nothing.                                                *)
(***************************************************************************)
LEMMA NothingRefused ==
  ASSUME error' = "none"
  PROVE  Refused'
  BY DEF Refused

(***************************************************************************)
(* A step that leaves alone what the loops have made.                      *)
(***************************************************************************)
LEMMA NothingBuilt ==
  ASSUME UNCHANGED <<config, built>>
  PROVE  Adding' = Adding /\ Wiring' = Wiring
<1>1. UNCHANGED <<config, entry, dep, g>>
  BY DEF built
<1>2. \A n : Wired(n)' = Wired(n)
  BY <1>1, SameConfig DEF Wired
<1>3. \A n : upstream(g, n)' = upstream(g, n)
  BY <1>1
<1>4. Accepted(entry - 1)' = Accepted(entry - 1) /\ Added(entry - 1)' = Added(entry - 1)
  BY <1>1 DEF Accepted, Added, TaskId
<1>5. Adding' = Adding
  BY <1>1, <1>4, SameConfig DEF Adding
<1>6. Wiring' = Wiring
  BY <1>1, <1>2, <1>3, SameConfig DEF Wiring, IsRecord
<1> QED
  BY <1>5, <1>6

(***************************************************************************)
(* Finding and reading the file, before and after the workflow is built.   *)
(***************************************************************************)
LEMMA ReadingKeepsInv ==
  ASSUME LoadInv,
         NEW from, NEW next,
         \/ from = "finding" /\ next = "reading"
         \/ from = "reading" /\ next = "creating"
         \/ from = "finding params" /\ next = "reading params"
         \/ from = "reading params" /\ next = "constructing",
         Find(from, next) \/ Read(from, next)
  PROVE  LoadInv'
<1> USE DEF LoadInv
<1>1. UNCHANGED <<config, built>> /\ UNCHANGED <<config, entry, dep, g, callables>>
      /\ pc = from /\ error = "none"
  BY DEF Find, Read, At, built
<1>2. Size' = Size /\ Adding' = Adding /\ Wiring' = Wiring
  BY <1>1, SameConfig, NothingBuilt
<1>3. \/ pc' = next /\ error' = "none"
      \/ pc' = from /\ error' \in {"WorkflowConfigError", "OSError", "ValueError"}
  <2>1. CASE Find(from, next)
    BY <1>1, <2>1 DEF Find, Go, Raise
  <2>2. CASE Read(from, next)
    BY <1>1, <2>2 DEF Read, Go, Raise
  <2> QED
    BY <2>1, <2>2
<1>4. CASE pc' = next /\ error' = "none"
  BY <1>1, <1>2, <1>4, NothingRefused DEF BeforeAdding, AfterAdding, AfterWiring, Resolved
<1>5. CASE pc' = from /\ error' \in {"WorkflowConfigError", "OSError", "ValueError"}
  <2>1. Refused'
    BY <1>5 DEF Refused, Readings, OrchestrationError
  <2> QED
    BY <1>1, <1>2, <1>5, <2>1 DEF BeforeAdding, AfterAdding, AfterWiring, Resolved
<1> QED
  BY <1>3, <1>4, <1>5

(***************************************************************************)
(* Going on to the next stage, or refusing a config that is not            *)
(* executable, without a change to the workflow.                           *)
(***************************************************************************)
LEMMA StageKeepsInv ==
  ASSUME LoadInv, UNCHANGED <<config, entry, dep, g>>, error = "none",
         NEW next \in AfterWiring,
         \/ /\ pc' = next /\ error' = "none"
            /\ pc \in AfterAdding /\ entry = Size + 1
            /\ next \in Resolved =>
                 /\ callables' = g.tasks
                 /\ \A n \in 1 .. Size : config.tasks[n].callable \in Registry
            /\ next = "ready" => validate_graph(g)
         \/ /\ pc' = pc /\ pc \in AfterAdding \ {"ready"} /\ callables' = callables
            /\ error' \in OrchestrationError
            /\ ~Executable(config)
  PROVE  LoadInv'
<1> USE DEF LoadInv
<1>1. Size' = Size /\ Executable(config)' = Executable(config)
  BY SameConfig
<1>2. Wiring' = Wiring
  <2>1. \A n : Wired(n)' = Wired(n)
    BY SameConfig DEF Wired
  <2> QED
    BY <2>1, SameConfig DEF Wiring, IsRecord
<1>3. CASE pc' = next /\ error' = "none" /\ pc \in AfterAdding /\ entry = Size + 1
           /\ (next \in Resolved =>
                 /\ callables' = g.tasks
                 /\ \A n \in 1 .. Size : config.tasks[n].callable \in Registry)
           /\ (next = "ready" => validate_graph(g))
  <2>1. Refused'
    BY <1>3, NothingRefused
  <2> QED
    BY <1>1, <1>2, <1>3, <2>1 DEF BeforeAdding, AfterAdding, AfterWiring, Resolved
<1>4. CASE pc' = pc /\ pc \in AfterAdding \ {"ready"} /\ callables' = callables
           /\ error' \in OrchestrationError /\ ~Executable(config)
  <2>1. Refused'
    BY <1>1, <1>4 DEF Refused, OrchestrationError
  <2> QED
    BY <1>1, <1>2, <1>4, <2>1 DEF BeforeAdding, AfterAdding, AfterWiring, Resolved
<1> QED
  BY <1>3, <1>4

(***************************************************************************)
(* The loop that adds the tasks.                                           *)
(***************************************************************************)
LEMMA AddKeepsInv ==
  ASSUME LoadInv, Add
  PROVE  LoadInv'
<1> USE DEF LoadInv
<1>1. /\ pc = "adding" /\ pc' = "adding" /\ error = "none"
      /\ UNCHANGED <<config, dep, callables>>
  BY DEF Add, At, Go, Raise
<1>2. Adding /\ entry \in 1 .. Size /\ Size \in Nat
  BY <1>1, ConfigFacts DEF Add, Adding
<1>3. /\ Size' = Size /\ Declared(config)' = Declared(config)
      /\ Executable(config)' = Executable(config)
      /\ \A n : Added(n)' = Added(n) /\ Accepted(n)' = Accepted(n)
  BY <1>1, SameConfig
<1>4. \A n \in 1 .. Size : TaskId(n) \in Added(Size)
  BY DEF Added
<1>5. Current.task_id = TaskId(entry)
  BY DEF Current, TaskId
<1>6. CASE error' = "ValidationError" /\ TaskId(entry) \in BadIds /\ UNCHANGED <<entry, g>>
  <2>1. TaskId(entry) \in Declared(config).tasks \cap BadIds
    BY <1>2, <1>4, <1>6, DistinctIsFull
  <2>2. ~Executable(config)
    BY <1>2, <1>4, <1>6, ExecutableMeans DEF Accepted
  <2>3. Refused'
    BY <1>3, <1>6, <2>1, <2>2, <1>1 DEF Refused
  <2>4. Adding'
    <3>1. Accepted(entry - 1)' /\ Added(entry - 1)' = Added(entry - 1)
      BY <1>1, <1>2, <1>6 DEF Adding, Accepted, Added, TaskId
    <3> QED
      BY <1>1, <1>2, <1>3, <1>6, <3>1 DEF Adding
  <2> QED
    BY <1>1, <2>3, <2>4 DEF BeforeAdding, AfterAdding, AfterWiring, Resolved
<1>7. CASE error' = "DuplicateTaskError" /\ TaskId(entry) \in g.tasks /\ UNCHANGED <<entry, g>>
  <2>1. PICK m \in 1 .. entry - 1 : TaskId(entry) = TaskId(m)
    BY <1>2, <1>7 DEF Adding, Added
  <2>2. m \in 1 .. Size /\ m # entry
    BY <1>2
  <2>3. ~Executable(config)
    BY <1>2, <2>1, <2>2, ExecutableMeans DEF Accepted
  <2>4. Refused'
    BY <1>3, <1>7, <2>3 DEF Refused, OrchestrationError
  <2>5. Adding'
    <3>1. Accepted(entry - 1)' /\ Added(entry - 1)' = Added(entry - 1)
      BY <1>1, <1>2, <1>7 DEF Adding, Accepted, Added, TaskId
    <3> QED
      BY <1>1, <1>2, <1>3, <1>7, <3>1 DEF Adding
  <2> QED
    BY <1>1, <2>4, <2>5 DEF BeforeAdding, AfterAdding, AfterWiring, Resolved
<1>8. CASE /\ error' = "none" /\ entry' = entry + 1 /\ g' = WithTask(g, TaskId(entry))
           /\ TaskId(entry) \notin BadIds \cup g.tasks
  <2>1. entry' \in 1 .. Size + 1 /\ entry' - 1 = entry
    BY <1>2, <1>8
  <2>2. 1 .. entry = (1 .. entry - 1) \cup {entry}
    BY <1>2
  <2>3. Added(entry) = Added(entry - 1) \cup {TaskId(entry)}
    BY <2>2 DEF Added
  <2>4. Accepted(entry)
    <3>1. Accepted(entry - 1) /\ TaskId(entry) \notin Added(entry - 1)
      BY <1>2, <1>8 DEF Adding
    <3>2. \A a \in 1 .. entry - 1 : TaskId(a) # TaskId(entry)
      BY <3>1 DEF Added
    <3> QED
      BY <1>8, <2>2, <2>3, <3>1, <3>2 DEF Accepted
  <2>5. g' = [tasks |-> Added(entry), dependencies |-> EmptyWorkflow.dependencies]
    BY <1>2, <1>8, <2>3 DEF Adding, WithTask
  <2>6. Accepted(entry - 1)' <=> Accepted(entry)
    BY <1>1, <2>1 DEF Accepted, Added, TaskId
  <2>7. Added(entry - 1)' = Added(entry)
    BY <1>1, <2>1 DEF Added, TaskId
  <2>8. Adding'
    BY <1>1, <1>2, <1>3, <2>1, <2>4, <2>5, <2>6, <2>7 DEF Adding, EmptyWorkflow
  <2>9. Refused'
    BY <1>8, NothingRefused
  <2> QED
    BY <1>1, <2>8, <2>9 DEF BeforeAdding, AfterAdding, AfterWiring, Resolved
<1>9. \/ /\ error' = "ValidationError" /\ TaskId(entry) \in BadIds
         /\ UNCHANGED <<entry, g>>
      \/ /\ error' = "DuplicateTaskError" /\ TaskId(entry) \in g.tasks
         /\ UNCHANGED <<entry, g>>
      \/ /\ error' = "none" /\ entry' = entry + 1 /\ g' = WithTask(g, TaskId(entry))
         /\ TaskId(entry) \notin BadIds \cup g.tasks
  BY <1>1, <1>5 DEF Add, Go, Raise
<1> QED
  BY <1>6, <1>7, <1>8, <1>9

(***************************************************************************)
(* The workflow is created, or its id refused.                             *)
(***************************************************************************)
LEMMA CreateKeepsInv ==
  ASSUME LoadInv, Create
  PROVE  LoadInv'
<1> USE DEF LoadInv
<1>1. /\ pc = "creating" /\ error = "none"
      /\ UNCHANGED <<config, entry, dep, g, callables>>
  BY DEF Create, At, built
<1>2. entry = 1 /\ dep = 1 /\ g = EmptyWorkflow /\ Size \in Nat \ {0}
  BY <1>1, ConfigFacts DEF BeforeAdding
<1>3. Size' = Size /\ Executable(config)' = Executable(config)
      /\ Declared(config)' = Declared(config)
  BY <1>1, SameConfig
<1>4. CASE /\ pc' = pc /\ error' = "ValidationError" /\ config.workflow_id \in BadIds
  <2>1. ~Executable(config)
    BY <1>4, ExecutableMeans DEF Accepted
  <2>2. Refused'
    BY <1>1, <1>3, <1>4, <2>1 DEF Refused
  <2> QED
    BY <1>1, <1>2, <1>4, <2>2 DEF BeforeAdding, AfterAdding, AfterWiring, Resolved
<1>5. CASE /\ pc' = "adding" /\ error' = "none" /\ config.workflow_id \notin BadIds
  <2>1. Adding'
    <3>1. entry' - 1 = 0 /\ dep' = 1 /\ entry' \in 1 .. Size + 1
      BY <1>1, <1>2
    <3>2. Added(entry - 1)' = {}
      BY <3>1 DEF Added
    <3>3. Accepted(entry - 1)'
      BY <1>1, <1>5, <3>1, <3>2 DEF Accepted
    <3>4. g' = [tasks |-> {}, dependencies |-> EmptyWorkflow.dependencies]
      BY <1>1, <1>2 DEF EmptyWorkflow
    <3> QED
      BY <1>3, <3>1, <3>2, <3>3, <3>4 DEF Adding, EmptyWorkflow
  <2>2. Refused'
    BY <1>5, NothingRefused
  <2> QED
    BY <1>1, <1>5, <2>1, <2>2 DEF BeforeAdding, AfterAdding, AfterWiring, Resolved
<1> QED
  BY <1>1, <1>4, <1>5 DEF Create, Go, Raise

(***************************************************************************)
(* From the one loop to the other: nothing is wired.                       *)
(***************************************************************************)
LEMMA AllAddedKeepsInv ==
  ASSUME LoadInv, AllAdded
  PROVE  LoadInv'
<1> USE DEF LoadInv
<1>1. /\ pc = "adding" /\ pc' = "wiring" /\ error' = "none" /\ entry' = 1
      /\ UNCHANGED <<config, dep, g, callables>>
  BY DEF AllAdded, At, Go
<1>2. Size \in Nat \ {0} /\ Adding /\ entry = Size + 1 /\ entry - 1 = Size
  BY <1>1, ConfigFacts DEF AllAdded, Adding
<1>3. /\ Size' = Size
      /\ \A n : Added(n)' = Added(n) /\ Accepted(n)' = Accepted(n) /\ TaskId(n)' = TaskId(n)
  BY <1>1, SameConfig
<1>4. /\ g.tasks = Added(Size) /\ g.dependencies = EmptyWorkflow.dependencies
      /\ DOMAIN g.dependencies = {} /\ IsRecord(g) /\ Accepted(Size) /\ dep = 1
  <2>1. g = [tasks |-> Added(Size), dependencies |-> EmptyWorkflow.dependencies]
        /\ Accepted(Size) /\ dep = 1
    BY <1>2 DEF Adding
  <2>2. DOMAIN EmptyWorkflow.dependencies = {}
    BY DEF EmptyWorkflow
  <2> HIDE DEF LoadInv
  <2> QED
    BY <2>1, <2>2 DEF IsRecord
<1>5. \A t : upstream(g, t) = {}
  BY <1>4 DEF upstream
<1>6. \A n \in 1 .. Size : Wired(n)' = {}
  BY <1>1, <1>4 DEF Wired
<1>7. Wiring'
  <2>1. entry' \in 1 .. Size + 1 /\ dep' \in Nat \ {0}
    BY <1>1, <1>2, <1>4
  <2>2. dep' <= Len(Upstream(entry)') + 1
    <3>1. Upstream(1) \in Seq(Id)
      BY <1>2, ConfigFacts
    <3>2. Upstream(entry)' = Upstream(1)
      BY <1>1 DEF Upstream
    <3> QED
      BY <1>1, <1>4, <3>1, <3>2
  <2>3. IsRecord(g)' /\ (g').tasks = Added(Size)
    BY <1>1, <1>4 DEF IsRecord
  <2>4. \A n \in 1 .. Size : upstream(g, TaskId(n))' = Wired(n)'
    BY <1>1, <1>3, <1>5, <1>6
  <2> QED
    BY <1>1, <1>3, <1>4, <1>6, <2>1, <2>2, <2>3, <2>4 DEF Wiring
<1>8. Refused'
  BY <1>1, NothingRefused
<1> QED
  BY <1>1, <1>7, <1>8 DEF BeforeAdding, AfterAdding, AfterWiring, Resolved

(***************************************************************************)
(* One dependency is wired, or refused.                                    *)
(***************************************************************************)
LEMMA WireKeepsInv ==
  ASSUME LoadInv, Wire
  PROVE  LoadInv'
<1> USE DEF LoadInv
<1> DEFINE up == Upstream(entry)[dep]
           t  == TaskId(entry)
<1>1. /\ pc = "wiring" /\ pc' = "wiring" /\ error = "none"
      /\ UNCHANGED <<config, entry, callables>>
      /\ entry \in Entries(config) /\ dep \in DOMAIN Upstream(entry)
      /\ \/ Refusal(g, t, up) = "nothing" /\ error' = "none" /\ dep' = dep + 1
              /\ g' = WithUpstream(g, t, {up})
         \/ Refusal(g, t, up) = "UnknownTaskError" /\ error' = "WorkflowConfigError"
              /\ UNCHANGED <<dep, g>>
         \/ Refusal(g, t, up) \notin {"nothing", "UnknownTaskError"}
              /\ error' = Refusal(g, t, up) /\ UNCHANGED <<dep, g>>
  BY DEF Wire, At, Go, Raise, Current, TaskId, Upstream
<1> HIDE DEF up, t
<1>2. /\ Wiring /\ entry \in 1 .. Size /\ Size \in Nat
      /\ Upstream(entry) \in Seq(Id) /\ dep \in 1 .. Len(Upstream(entry))
  BY <1>1, ConfigFacts DEF AfterAdding
<1>3. /\ Size' = Size /\ Executable(config)' = Executable(config)
      /\ \A n : /\ Added(n)' = Added(n) /\ Accepted(n)' = Accepted(n)
                /\ TaskId(n)' = TaskId(n) /\ Upstream(n)' = Upstream(n)
  BY <1>1, SameConfig
<1>4. t \in g.tasks /\ t \in Added(Size)
  BY <1>2 DEF Wiring, Added, t
<1>5. CASE Refusal(g, t, up) # "nothing"
  <2>1. /\ error' \in OrchestrationError /\ UNCHANGED <<dep, g>>
        /\ up \notin g.tasks \/ up = t
    BY <1>1, <1>4, <1>5 DEF Refusal, OrchestrationError
  <2>2. ~Executable(config)
    <3>1. SUFFICES ASSUME Executable(config) PROVE FALSE
      OBVIOUS
    <3>2. Registered(Declared(config)) /\ ~HasCycle(Declared(config))
      BY <3>1, ExecutableMeans
    <3>3. up \in upstream(Declared(config), t)
      <4>1. up \in ToSet(Upstream(entry))
        BY <1>1 DEF ToSet, up
      <4>2. upstream(Declared(config), TaskId(entry)) = ToSet(Upstream(entry))
        BY <1>2, DeclaredUpstream DEF Wiring
      <4> QED
        BY <4>1, <4>2 DEF t
    <3>4. Declared(config).tasks = g.tasks
      BY <1>2, DistinctIsFull DEF Wiring
    <3>5. up \in g.tasks
      BY <3>2, <3>3, <3>4 DEF Registered, NamedIds, upstream
    <3>6. up = t
      BY <2>1, <3>5
    <3>7. HasCycle(Declared(config))
      <4>1. {t} \in SUBSET Declared(config).tasks /\ {t} # {}
        BY <1>4, <3>4
      <4>2. \A x \in {t} : upstream(Declared(config), x) \cap {t} # {}
        BY <3>3, <3>6
      <4> QED
        BY <4>1, <4>2 DEF HasCycle
    <3> QED
      BY <3>2, <3>7
  <2> QED
    <3>1. pc' = pc /\ pc \in AfterAdding \ {"ready"} /\ callables' = callables
          /\ UNCHANGED <<config, entry, dep, g>>
      BY <1>1, <2>1 DEF AfterAdding
    <3>2. "resolving" \in AfterWiring
      BY DEF AfterWiring
    <3> HIDE DEF LoadInv
    <3> QED
      BY <1>1, <2>1, <2>2, <3>1, <3>2, StageKeepsInv
<1>6. CASE Refusal(g, t, up) = "nothing"
  <2>1. error' = "none" /\ dep' = dep + 1 /\ g' = WithUpstream(g, t, {up})
    BY <1>1, <1>6
  <2>2. up \in g.tasks \ {t}
    BY <1>6 DEF Refusal
  <2>3. IsRecord(g) /\ g.tasks = Added(Size) /\ DOMAIN g.dependencies \subseteq g.tasks
        /\ Accepted(Size)
    BY <1>2 DEF Wiring
  <2>4. /\ IsRecord(g') /\ (g').tasks = g.tasks
        /\ DOMAIN (g').dependencies \subseteq g.tasks
        /\ upstream(g', t) = upstream(g, t) \cup {up}
        /\ \A i : i # t => upstream(g', i) = upstream(g, i)
    <3>1. /\ IsRecord(g') /\ (g').tasks = g.tasks
          /\ DOMAIN (g').dependencies \subseteq DOMAIN g.dependencies \cup {t}
          /\ upstream(g', t) = upstream(g, t) \cup {up}
          /\ \A i : i # t => upstream(g', i) = upstream(g, i)
      BY <2>1, <2>3, WithUpstreamFields
    <3> QED
      BY <1>4, <2>3, <3>1
  <2>5. ASSUME NEW n \in 1 .. Size, n = entry PROVE Wired(n)' = Wired(n) \cup {up}
    <3>1. 1 .. dep' - 1 = (1 .. dep - 1) \cup {dep}
      BY <1>2, <2>1
    <3>2. Wired(n) = {Upstream(n)[m] : m \in 1 .. dep - 1}
      BY <1>2, <2>5 DEF Wired
    <3>3. Wired(n)' = {(Upstream(n)')[m] : m \in 1 .. dep' - 1}
      BY <1>1, <1>2, <2>5 DEF Wired
    <3>4. Upstream(n)' = Upstream(n)
      BY <1>3
    <3>5. Upstream(n)[dep] = up
      BY <2>5 DEF up
    <3> QED
      BY <3>1, <3>2, <3>3, <3>4, <3>5
  <2>6. \A n \in 1 .. Size : n # entry => Wired(n)' = Wired(n) /\ TaskId(n) # t
    BY <1>1, <1>2, <1>3, <2>3 DEF Wired, Accepted, t
  <2>7. ASSUME NEW n \in 1 .. Size
        PROVE  /\ upstream(g', TaskId(n)) = Wired(n)'
               /\ Wired(n)' \subseteq g.tasks \ {TaskId(n)}
    <3>0. upstream(g, TaskId(n)) = Wired(n) /\ Wired(n) \subseteq g.tasks \ {TaskId(n)}
      BY <1>2 DEF Wiring
    <3>1. CASE n = entry
      <4>1. Wired(n)' = Wired(n) \cup {up}
        BY <2>5, <3>1
      <4> QED
        BY <2>2, <2>4, <3>0, <3>1, <4>1 DEF t
    <3>2. CASE n # entry
      BY <2>4, <2>6, <3>0, <3>2
    <3> QED
      BY <3>1, <3>2
  <2>8. dep' \in Nat \ {0} /\ dep' <= Len(Upstream(entry)) + 1
    BY <1>2, <2>1
  <2>9. Upstream(entry)' = Upstream(entry)
    BY <1>1 DEF Upstream
  <2>10. Wiring'
    BY <1>1, <1>2, <1>3, <2>3, <2>4, <2>7, <2>8, <2>9 DEF Wiring, IsRecord
  <2>11. Refused'
    BY <2>1, NothingRefused
  <2> QED
    BY <1>1, <2>10, <2>11 DEF BeforeAdding, AfterAdding, AfterWiring, Resolved
<1> QED
  BY <1>5, <1>6

(***************************************************************************)
(* The inner loop starts over with the next entry.                         *)
(***************************************************************************)
LEMMA NextEntryKeepsInv ==
  ASSUME LoadInv, NextEntry
  PROVE  LoadInv'
<1> USE DEF LoadInv
<1>1. /\ pc = "wiring" /\ pc' = "wiring" /\ error' = "none"
      /\ UNCHANGED <<config, g, callables>> /\ entry' = entry + 1 /\ dep' = 1
      /\ entry \in Entries(config) /\ dep \notin DOMAIN Upstream(entry)
  BY DEF NextEntry, At, Go, Current, Upstream
<1>2. /\ Wiring /\ entry \in 1 .. Size /\ Size \in Nat
      /\ Upstream(entry) \in Seq(Id)
  BY <1>1, ConfigFacts DEF AfterAdding
<1>3. dep = Len(Upstream(entry)) + 1
  <2>1. DOMAIN Upstream(entry) = 1 .. Len(Upstream(entry)) /\ Len(Upstream(entry)) \in Nat
    BY <1>2
  <2> QED
    BY <1>1, <1>2, <2>1 DEF Wiring
<1>4. /\ Size' = Size
      /\ \A n : /\ Added(n)' = Added(n) /\ Accepted(n)' = Accepted(n)
                /\ TaskId(n)' = TaskId(n) /\ Upstream(n)' = Upstream(n)
  BY <1>1, SameConfig
<1>5. ASSUME NEW n \in 1 .. Size PROVE Wired(n)' = Wired(n)
  <2>1. Upstream(n)' = Upstream(n)
    BY <1>4
  <2>2. CASE n < entry
    BY <1>1, <1>2, <2>1, <2>2 DEF Wired
  <2>3. CASE n = entry
    <3>1. Wired(n)' = ToSet(Upstream(n))
      BY <1>1, <1>2, <2>1, <2>3 DEF Wired
    <3>2. Wired(n) = {Upstream(n)[m] : m \in 1 .. Len(Upstream(n))}
      BY <1>2, <1>3, <2>3 DEF Wired
    <3> QED
      BY <1>2, <2>3, <3>1, <3>2 DEF ToSet
  <2>4. CASE n > entry
    <3>1. Wired(n) = {}
      BY <1>2, <2>4 DEF Wired
    <3>2. Wired(n)' = IF n = entry + 1 THEN {(Upstream(n)')[m] : m \in 1 .. dep' - 1} ELSE {}
      BY <1>1, <1>2, <2>4 DEF Wired
    <3>3. 1 .. dep' - 1 = {}
      BY <1>1
    <3> QED
      BY <3>1, <3>2, <3>3
  <2> QED
    BY <1>2, <2>2, <2>3, <2>4
<1>6. entry' <= Size => dep' <= Len(Upstream(entry)') + 1
  <2>1. SUFFICES ASSUME entry' <= Size PROVE dep' <= Len(Upstream(entry)') + 1
    OBVIOUS
  <2>2. Upstream(entry)' = Upstream(entry + 1)
    BY <1>1 DEF Upstream
  <2>3. entry + 1 \in 1 .. Size
    BY <1>1, <1>2, <2>1
  <2>4. Upstream(entry + 1) \in Seq(Id)
    BY <2>3, ConfigFacts
  <2> QED
    BY <1>1, <2>2, <2>4
<1>7. \A n \in 1 .. Size : upstream(g, TaskId(n))' = upstream(g, TaskId(n))
  BY <1>1, <1>4
<1>8. Wiring'
  BY <1>1, <1>2, <1>4, <1>5, <1>6, <1>7 DEF Wiring, IsRecord
<1>9. Refused'
  BY <1>1, NothingRefused
<1> QED
  BY <1>1, <1>8, <1>9 DEF BeforeAdding, AfterAdding, AfterWiring, Resolved

(***************************************************************************)
(* The stages that follow: the callables are resolved, and the engine is   *)
(* constructed.                                                            *)
(***************************************************************************)
LEMMA LaterKeepsInv ==
  ASSUME LoadInv, AllWired \/ Resolve \/ Construct
  PROVE  LoadInv'
<1>1. UNCHANGED <<config, entry, dep, g>> /\ error = "none"
  BY DEF AllWired, Resolve, Construct, At, built
<1>2. Size \in Nat \ {0} /\ Entries(config) = 1 .. Size /\ config \in Configs
  BY ConfigFacts DEF LoadInv
<1>3. CASE AllWired
  <2>1. /\ pc = "wiring" /\ pc' = "resolving" /\ error' = "none"
        /\ entry \notin Entries(config)
    BY <1>3 DEF AllWired, At, Go
  <2>2. entry = Size + 1
    BY <1>2, <2>1 DEF LoadInv, Wiring, AfterAdding
  <2>3. "resolving" \in AfterWiring /\ "resolving" \notin Resolved /\ pc \in AfterAdding
    BY <2>1 DEF AfterWiring, AfterAdding, Resolved
  <2> QED
    BY <1>1, <2>1, <2>2, <2>3, StageKeepsInv
<1>4. CASE Resolve
  <2>1. /\ pc = "resolving" /\ pc \in AfterAdding \ {"ready"}
        /\ entry = Size + 1 /\ Wiring
    BY <1>4 DEF LoadInv, AfterAdding, AfterWiring, Resolve, At
  <2>2. "finding params" \in AfterWiring
    BY DEF AfterWiring, Resolved
  <2>3. CASE \A n \in Entries(config) : config.tasks[n].callable \in Registry
    <3>1. pc' = "finding params" /\ error' = "none"
          /\ callables' = {config.tasks[n].task_id : n \in Entries(config)}
      BY <1>1, <1>4, <2>3 DEF Resolve, Go
    <3>2. callables' = g.tasks
      BY <1>2, <2>1, <3>1 DEF Wiring, Added, TaskId
    <3> QED
      BY <1>1, <1>2, <2>1, <2>2, <2>3, <3>1, <3>2, StageKeepsInv
  <2>4. CASE ~\A n \in Entries(config) : config.tasks[n].callable \in Registry
    <3>1. pc' = pc /\ error' = "WorkflowConfigError" /\ callables' = callables
      BY <1>4, <2>4 DEF Resolve, Raise
    <3>2. error' \in OrchestrationError
      BY <3>1 DEF OrchestrationError
    <3>3. ~Executable(config)
      BY <1>2, <2>4, ExecutableMeans
    <3> QED
      BY <1>1, <2>1, <2>2, <3>1, <3>2, <3>3, StageKeepsInv
  <2> QED
    BY <2>3, <2>4
<1>5. CASE Construct
  <2>1. /\ pc = "constructing" /\ pc \in AfterAdding \ {"ready"}
        /\ entry = Size + 1 /\ Wiring
        /\ callables = g.tasks /\ callables' = callables
        /\ \A n \in 1 .. Size : config.tasks[n].callable \in Registry
    BY <1>5 DEF LoadInv, AfterAdding, AfterWiring, Resolved, Construct, At, built
  <2>2. "ready" \in AfterWiring
    BY DEF AfterWiring, Resolved
  <2>3. CASE validate_graph(g) /\ callables = g.tasks
    <3>1. pc' = "ready" /\ error' = "none"
      BY <1>1, <1>5, <2>3 DEF Construct, Go
    <3> QED
      BY <1>1, <2>1, <2>2, <2>3, <3>1, StageKeepsInv
  <2>4. CASE ~(validate_graph(g) /\ callables = g.tasks)
    <3>1. pc' = pc /\ error' = "EngineConfigurationError"
      BY <1>5, <2>4 DEF Construct, Raise
    <3>2. error' \in OrchestrationError
      BY <3>1 DEF OrchestrationError
    <3>3. ~Executable(config)
      <4>1. ~validate_graph(g)
        BY <2>1, <2>4
      <4>2. g.tasks # {} /\ Registered(g) /\ (HasCycle(g) <=> HasCycle(Declared(config)))
        BY <1>2, <2>1, SameGraph
      <4>3. HasCycle(Declared(config))
        BY <4>1, <4>2 DEF validate_graph
      <4> QED
        BY <1>2, <4>3, ExecutableMeans
    <3> QED
      BY <1>1, <2>1, <2>2, <3>1, <3>2, <3>3, StageKeepsInv
  <2> QED
    BY <2>3, <2>4
<1> QED
  BY <1>3, <1>4, <1>5

(***************************************************************************)
(* An edit of the file, and no step at all, leave the caller where it is.  *)
(***************************************************************************)
LEMMA NobodyMoves ==
  ASSUME LoadInv, UNCHANGED <<config, pc, error, built>>
  PROVE  LoadInv'
<1>1. Adding' = Adding /\ Wiring' = Wiring /\ Size' = Size
  BY NothingBuilt, SameConfig
<1>2. Refused' = Refused
  <2>1. Declared(config)' = Declared(config) /\ Executable(config)' = Executable(config)
    BY SameConfig
  <2> QED
    BY <2>1 DEF Refused
<1> QED
  BY <1>1, <1>2 DEF LoadInv, built

(***************************************************************************)
(* The invariant is inductive.                                             *)
(***************************************************************************)
LEMMA NextLoadInv == LoadInv /\ [Next]_vars => LoadInv'
<1> SUFFICES ASSUME LoadInv, [Next]_vars PROVE LoadInv'
  OBVIOUS
<1>1. CASE Edit
  BY <1>1, NobodyMoves DEF Edit
<1>2. CASE UNCHANGED vars
  BY <1>2, NobodyMoves DEF vars, built
<1>3. CASE Load
  BY <1>3, ReadingKeepsInv DEF Load
<1>4. CASE LoadParams
  BY <1>4, ReadingKeepsInv DEF LoadParams
<1>5. CASE Build
  BY <1>5, CreateKeepsInv, AddKeepsInv, AllAddedKeepsInv, WireKeepsInv, NextEntryKeepsInv,
     LaterKeepsInv DEF Build
<1>6. CASE Resolve \/ Construct
  BY <1>6, LaterKeepsInv
<1> QED
  BY <1>1, <1>2, <1>3, <1>4, <1>5, <1>6 DEF Next, Finished

(***************************************************************************)
(* Before anything is read the invariant holds.                            *)
(***************************************************************************)
LEMMA InitLoadInv == Init => LoadInv
  BY DEF Init, LoadInv, Refused, BeforeAdding, AfterAdding, AfterWiring, Resolved

(***************************************************************************)
(* The invariant holds while any file is loaded.                           *)
(***************************************************************************)
THEOREM LoadingInvariance == Spec => []LoadInv
  BY InitLoadInv, NextLoadInv, PTL DEF Spec

(***************************************************************************)
(* What is built is what the file declares, with a callable for each task  *)
(* and no other, whatever is written to the file meanwhile (config.py      *)
(* 78-104, 119-137).                                                       *)
(***************************************************************************)
THEOREM LoadingBuildsWhatIsDeclared == Spec => []BuildsWhatIsDeclared
<1>1. ASSUME LoadInv, pc \in AfterWiring
      PROVE  /\ g.tasks = Declared(config).tasks
             /\ \A t \in g.tasks : upstream(g, t) = upstream(Declared(config), t)
             /\ pc # "resolving" => callables = g.tasks
  <2>1. config \in Configs /\ Wiring /\ entry = Size + 1
    BY <1>1 DEF LoadInv, AfterAdding
  <2>2. pc # "resolving" => callables = g.tasks
    BY <1>1 DEF LoadInv, AfterWiring
  <2> QED
    BY <2>1, <2>2, SameGraph
<1>2. LoadInv => BuildsWhatIsDeclared
  BY <1>1 DEF BuildsWhatIsDeclared, AfterWiring, Resolved
<1> QED
  BY <1>2, LoadingInvariance, PTL

(***************************************************************************)
(* An engine is made of the executable configs and of no others, and an    *)
(* executable config is refused only where the file is read: the checks of *)
(* config.py, dag.py and the constructor of the engine together are        *)
(* neither too weak nor too strict, for files of any size (config.py       *)
(* 78-137, engine.py 143-164).                                             *)
(***************************************************************************)
THEOREM LoadingAcceptsExactly == Spec => []AcceptsExactly
<1>1. ASSUME LoadInv, pc = "ready" PROVE Executable(config)
  <2>1. config \in Configs /\ Wiring /\ entry = Size + 1 /\ validate_graph(g)
        /\ \A n \in 1 .. Size : config.tasks[n].callable \in Registry
    BY <1>1 DEF LoadInv, AfterAdding, AfterWiring, Resolved
  <2>2. Registered(Declared(config)) /\ (HasCycle(g) <=> HasCycle(Declared(config)))
    BY <2>1, SameGraph
  <2>3. ~HasCycle(Declared(config)) /\ Accepted(Size)
    BY <2>1, <2>2 DEF validate_graph, Wiring
  <2> QED
    BY <2>1, <2>2, <2>3, ExecutableMeans
<1>2. ASSUME LoadInv, error # "none", Executable(config)
      PROVE  pc \in {"finding", "reading", "finding params", "reading params"}
  BY <1>2 DEF LoadInv, Refused, Readings
<1>3. LoadInv => AcceptsExactly
  BY <1>1, <1>2 DEF AcceptsExactly
<1> QED
  BY <1>3, LoadingInvariance, PTL

(***************************************************************************)
(* What the scheduler does not capture (scheduler.py 121-138) was raised   *)
(* where the file is looked for or read, or is about an id of the file     *)
(* which is no identifier.  So no fault of the graph, of the callables or  *)
(* of the order of the entries escapes, whoever edits the file meanwhile.  *)
(***************************************************************************)
EscapesComeFromFileOrId ==
  ~FailuresAreCaptured =>
    \/ pc \in Readings
    \/ /\ error = "ValidationError"
       /\ (Declared(config).tasks \cup {config.workflow_id}) \cap BadIds # {}

(***************************************************************************)
(* What the file must have done for an exception to pass the handler of    *)
(* the scheduler.                                                          *)
(***************************************************************************)
THEOREM EscapesAreOfFileOrId == Spec => []EscapesComeFromFileOrId
<1>1. LoadInv => EscapesComeFromFileOrId
  BY DEF LoadInv, Refused, EscapesComeFromFileOrId, FailuresAreCaptured
<1> QED
  BY <1>1, LoadingInvariance, PTL

(***************************************************************************)
(* An engine that is made of a file can be scheduled, with any number of   *)
(* workers: its batches are those that the model of the engine asks for.   *)
(***************************************************************************)
LoadedIsSchedulable ==
  pc = "ready" => \A max_workers \in Nat :
    /\ run_batches(g, max_workers) \in [g.tasks -> Nat]
    /\ IsSchedule(g, run_batches(g, max_workers))

(***************************************************************************)
(* Loading, validation and scheduling fit together (config.py 78-104,      *)
(* engine.py 143-164 and 209-223).                                         *)
(***************************************************************************)
THEOREM LoadedEnginesRun == Spec => []LoadedIsSchedulable
<1>1. ASSUME LoadInv, pc = "ready", NEW max_workers \in Nat
      PROVE  /\ run_batches(g, max_workers) \in [g.tasks -> Nat]
             /\ IsSchedule(g, run_batches(g, max_workers))
  <2>1. config \in Configs /\ Wiring /\ entry = Size + 1 /\ validate_graph(g)
    BY <1>1 DEF LoadInv, AfterAdding, AfterWiring, Resolved
  <2>2. g.tasks \subseteq Nat
    <3>1. g.tasks \subseteq Id
      BY <2>1, SameGraph
    <3>2. \A i \in Id : i \in Nat
      BY LoadingAssumption
    <3> QED
      BY <3>1, <3>2
  <2>3. IsFiniteSet(g.tasks)
    BY <2>1, DistinctIsFull DEF Wiring
  <2>4. Registered(g) /\ ~HasCycle(g)
    BY <2>1 DEF validate_graph
  <2> QED
    BY <2>2, <2>3, <2>4, BatchesOfAcyclicGraph
<1>2. LoadInv => LoadedIsSchedulable
  BY <1>1 DEF LoadedIsSchedulable
<1> QED
  BY <1>2, LoadingInvariance, PTL
=============================================================================
