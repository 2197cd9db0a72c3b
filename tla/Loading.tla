------------------------------- MODULE Loading -------------------------------
(***************************************************************************)
(* From a workflow file to an engine: the steps that _run_schedule         *)
(* (scheduler.py) and _build_engine (cli.py) take through config.py and    *)
(* the constructor of WorkflowEngine.  The file may change meanwhile; it   *)
(* is read twice, and each time found before it is opened.                 *)
(*                                                                         *)
(* The second reading gives the params, of which nothing is modelled but   *)
(* whether they can be read.                                               *)
(***************************************************************************)
EXTENDS Dag

CONSTANTS
  Id,        \* the ids that a file may give to tasks and to the workflow
  BadIds,    \* those that are no identifiers
  Registry,  \* the names of callables that are registered
  Configs,   \* contents of a well-formed file
  Kinds      \* what the file may be

ASSUME LoadingAssumption ==
  /\ Id \subseteq Nat /\ BadIds \subseteq Id
  /\ Kinds \subseteq {"missing", "unreadable", "undecodable", "malformed", "config"}
  /\ \A c \in Configs :
       /\ c.workflow_id \in Id
       /\ c.tasks \in Seq([task_id : Id, callable : STRING, depends_on : Seq(Id)])
       /\ c.tasks # <<>>

OrchestrationError ==
  {"WorkflowConfigError", "DuplicateTaskError", "UnknownTaskError",
   "SelfDependencyError", "EngineConfigurationError"}

VARIABLES
  file,       \* what the file is now
  config,     \* its contents when it is a config; what was read of it
  pc,         \* where the caller is, or was when an exception ended it
  entry,      \* the entry of config.tasks that is next
  dep,        \* the element of its depends_on that is next
  g,          \* the workflow
  callables,  \* the task ids that have a callable
  error       \* the exception that ended the loading, or "none"

built == <<entry, dep, g, callables>>
vars  == <<file, config, pc, entry, dep, g, callables, error>>

Init ==
  /\ file \in Kinds
  /\ config \in Configs
  /\ pc = "finding"
  /\ entry = 1
  /\ dep = 1
  /\ g = EmptyWorkflow
  /\ callables = {}
  /\ error = "none"

(***************************************************************************)
(* Somebody else writes or removes the file.                               *)
(***************************************************************************)
Edit ==
  /\ file' \in Kinds \ {file}
  /\ UNCHANGED <<config, pc, error, built>>
-----------------------------------------------------------------------------
At(here)    == pc = here /\ error = "none"
Go(next)    == pc' = next /\ UNCHANGED error
Raise(what) == error' = what /\ UNCHANGED pc

Entries(c) == DOMAIN c.tasks
Current    == config.tasks[entry]

(***************************************************************************)
(* load_workflow_config.  An unreadable file is one that the operating     *)
(* system refuses: some refusals is_file takes for a missing file or lets  *)
(* out, others come only at the open, as that of a file which vanished     *)
(* meanwhile.  Of an undecodable one the bytes are no UTF-8, or safe_load  *)
(* raises what is no YAMLError, for an impossible date for instance;       *)
(* "ValueError" stands for all of that.                                    *)
(***************************************************************************)
Find(from, next) ==
  /\ At(from)
  /\ \/ file \in {"missing", "unreadable"} /\ Raise("WorkflowConfigError")
     \/ file = "unreadable" /\ Raise("OSError")
     \/ file # "missing" /\ Go(next)
  /\ UNCHANGED <<file, config, built>>

Read(from, next) ==
  /\ At(from)
  /\ CASE file = "config"      -> Go(next)
       [] file = "malformed"   -> Raise("WorkflowConfigError")
       [] file = "undecodable" -> Raise("ValueError")
       [] OTHER                -> Raise("OSError")
  /\ UNCHANGED <<file, config, built>>

Load       == Find("finding", "reading") \/ Read("reading", "creating")
LoadParams == \/ Find("finding params", "reading params")
              \/ Read("reading params", "constructing")

(***************************************************************************)
(* build_workflow: all the tasks first, then all the dependencies.         *)
(***************************************************************************)
Create ==
  /\ At("creating")
  /\ IF config.workflow_id \in BadIds THEN Raise("ValidationError") ELSE Go("adding")
  /\ UNCHANGED <<file, config, built>>

(***************************************************************************)
(* Wrong: the dependencies that are known so far are wired with the task.  *)
(***************************************************************************)
AddWired ==
  /\ At("adding")
  /\ entry \in Entries(config)
  /\ IF Current.task_id \in BadIds
       THEN Raise("ValidationError") /\ UNCHANGED <<entry, g>>
     ELSE IF ~ToSet(Current.depends_on) \subseteq g.tasks
       THEN Raise("WorkflowConfigError") /\ UNCHANGED <<entry, g>>
     ELSE Go("adding") /\ entry' = entry + 1 /\ g' = WithTask(g, Current.task_id)
  /\ UNCHANGED <<file, config, dep, callables>>

Add ==
  /\ At("adding")
  /\ entry \in Entries(config)
  /\ IF Current.task_id \in BadIds
       THEN Raise("ValidationError") /\ UNCHANGED <<entry, g>>
     ELSE IF Current.task_id \in g.tasks
       THEN Raise("DuplicateTaskError") /\ UNCHANGED <<entry, g>>
     ELSE Go("adding") /\ entry' = entry + 1 /\ g' = WithTask(g, Current.task_id)
  /\ UNCHANGED <<file, config, dep, callables>>

AllAdded ==
  /\ At("adding")
  /\ entry \notin Entries(config)
  /\ Go("wiring")
  /\ entry' = 1
  /\ UNCHANGED <<file, config, dep, g, callables>>

(***************************************************************************)
(* An unknown upstream id is told as an error of the file.                 *)
(***************************************************************************)
Wire ==
  /\ At("wiring")
  /\ entry \in Entries(config)
  /\ dep \in DOMAIN Current.depends_on
  /\ LET up == Current.depends_on[dep] IN
     CASE Refusal(g, Current.task_id, up) = "nothing" ->
            /\ Go("wiring")
            /\ dep' = dep + 1
            /\ g' = WithUpstream(g, Current.task_id, {up})
       [] Refusal(g, Current.task_id, up) = "UnknownTaskError" ->
            Raise("WorkflowConfigError") /\ UNCHANGED <<dep, g>>
       [] OTHER ->
            Raise(Refusal(g, Current.task_id, up)) /\ UNCHANGED <<dep, g>>
  /\ UNCHANGED <<file, config, entry, callables>>

(***************************************************************************)
(* Wrong: the inner loop goes on from where it was.                        *)
(***************************************************************************)
NextEntryKept ==
  /\ At("wiring")
  /\ entry \in Entries(config)
  /\ dep \notin DOMAIN Current.depends_on
  /\ Go("wiring")
  /\ entry' = entry + 1
  /\ UNCHANGED <<file, config, dep, g, callables>>

NextEntry ==
  /\ At("wiring")
  /\ entry \in Entries(config)
  /\ dep \notin DOMAIN Current.depends_on
  /\ Go("wiring")
  /\ entry' = entry + 1
  /\ dep' = 1
  /\ UNCHANGED <<file, config, g, callables>>

AllWired ==
  /\ At("wiring")
  /\ entry \notin Entries(config)
  /\ Go("resolving")
  /\ UNCHANGED <<file, config, built>>

(***************************************************************************)
(* resolve_callables.                                                      *)
(***************************************************************************)
Resolve ==
  /\ At("resolving")
  /\ IF \A n \in Entries(config) : config.tasks[n].callable \in Registry
       THEN /\ Go("finding params")
            /\ callables' = {config.tasks[n].task_id : n \in Entries(config)}
       ELSE Raise("WorkflowConfigError") /\ UNCHANGED callables
  /\ UNCHANGED <<file, config, entry, dep, g>>

(***************************************************************************)
(* WorkflowEngine.__init__.                                                *)
(***************************************************************************)
Construct ==
  /\ At("constructing")
  /\ IF validate_graph(g) /\ callables = g.tasks
       THEN Go("ready") ELSE Raise("EngineConfigurationError")
  /\ UNCHANGED <<file, config, built>>

Build == Create \/ Add \/ AllAdded \/ Wire \/ NextEntry \/ AllWired

Finished == (pc = "ready" \/ error # "none") /\ UNCHANGED vars

Next == Edit \/ Load \/ Build \/ Resolve \/ LoadParams \/ Construct \/ Finished

Spec == Init /\ [][Next]_vars
-----------------------------------------------------------------------------
(***************************************************************************)
(* The graph that a config declares, and when it can be executed: what the *)
(* checks, made one by one in four places, amount to.                      *)
(***************************************************************************)
Declared(c) ==
  [tasks |-> {c.tasks[n].task_id : n \in Entries(c)},
   dependencies |->
     [t \in {c.tasks[n].task_id : n \in Entries(c)} |->
        UNION {ToSet(c.tasks[n].depends_on) :
                 n \in {m \in Entries(c) : c.tasks[m].task_id = t}}]]

Executable(c) ==
  /\ {c.workflow_id} \cup Declared(c).tasks \subseteq Id \ BadIds
  /\ Cardinality(Declared(c).tasks) = Len(c.tasks)
  /\ \A n \in Entries(c) : c.tasks[n].callable \in Registry
  /\ Registered(Declared(c)) /\ ~HasCycle(Declared(c))

(***************************************************************************)
(* An engine is made of every executable config and of no other, in        *)
(* whatever order the file lists the tasks: a task may depend on a later   *)
(* one.  An executable config is refused only where the file is read.      *)
(***************************************************************************)
AcceptsExactly ==
  /\ pc = "ready" => Executable(config)
  /\ error # "none" /\ Executable(config) =>
       pc \in {"finding", "reading", "finding params", "reading params"}

(***************************************************************************)
(* What is built is what the file declares, entry by entry, and has a      *)
(* callable for each task and no other: the constructor's two checks of    *)
(* the callables never fail for a workflow that comes out of a file.       *)
(***************************************************************************)
BuildsWhatIsDeclared ==
  pc \in {"resolving", "finding params", "reading params", "constructing", "ready"} =>
    /\ g.tasks = Declared(config).tasks
    /\ \A t \in g.tasks : upstream(g, t) = upstream(Declared(config), t)
    /\ pc # "resolving" => callables = g.tasks

(***************************************************************************)
(* "Failures to load or configure a workflow are captured ... the          *)
(* scheduler must survive a broken workflow file" (scheduler.py 107-109):  *)
(* what can be raised is what _run_schedule catches.                       *)
(***************************************************************************)
FailuresAreCaptured == error \in OrchestrationError \cup {"none"}
=============================================================================
