# Verification of the ETL orchestration framework

TLA+ models of the framework in `src/src/etl_orchestrator`, the TLC runs that check
them on small instances, and TLAPS proofs of what matters most for every instance.
Line numbers below and in the modules' comments are those of the files in that
directory.

## 1. The system

A workflow is a graph of tasks (`dag.py`). A `WorkflowEngine` (`engine.py`) validates
it, puts it in topological order, and runs it batch by batch on a thread pool; every
change of a task's or a run's state goes through the tables of `states.py`. Workflow
files are loaded by `config.py`; `scheduler.py` runs files at an interval in a
background thread; `persistence.py` keeps finished runs in SQLite; `cli.py` is one
process per command and shares with the others the database and a JSON file of
schedules.

| Component | State it keeps | Operations | Meets others through |
|---|---|---|---|
| State machines (`states.py`) | none | the two transition checks, aggregation | called by the engine and by `cancel_run` |
| Workflow graph (`dag.py`) | `tasks`, `dependencies` | `add_task`, `add_dependency`, `from_chain`, `validate_graph`, `_find_cycles`, `topological_order` | built by `config.py` or the API, read by the engine |
| Engine (`engine.py`) | a `WorkflowRun`: state, a record per task (state, attempts, error); a lock; a pool per batch | `run`, `_execute_task`, `_schedule_retry`, `_block_if_upstream_failed`, `_block_downstream` | worker threads share the run; user code is called as callables and hooks |
| Hooks (`hooks.py`) | none | six callbacks | called by the engine on its threads, may raise |
| Configuration (`config.py`) | none | `load_workflow_config`, `build_workflow`, `load_task_params`, `resolve_callables` | files; called by the CLI and the scheduler |
| Run store (`persistence.py`) | tables of runs and of task runs | `save_run`, `load_run`, `cancel_run`, `list_runs` | shared by processes through one database |
| Scheduler (`scheduler.py`) | schedules, `last_run_at` of each, an event, a thread | `register`, `unregister`, `due`, `run_once`, `start`, `stop` | its thread and its callers share the dict without a lock |
| Command line (`cli.py`) | the schedules file | one process per command | all of the above |
| Observability (`observability.py`) | none | metrics of a run, JSON log lines | reads records |

What is hard here, and what makes each part correct:

* **Engine.** Worker threads read the records without the lock, write them with it,
  and `record()` inserts without it. A failure is not propagated when it happens:
  each dependent finds out for itself when it is dispatched, and then blocks *every*
  dependent of the culprit, so the walks of several threads overlap on the same
  records. Correct means: a task runs only after all it depends on has succeeded;
  nobody is blocked because of a failure that is retried; whoever depends on a
  failure is blocked and nobody else; a run ends, with the right state; a raise
  leaves no thread behind; transitions follow the table.
* **Graph.** Ids in `dependencies` need not be registered, both searches are
  in-place loops with pruning, and the engine's joins rely on their results. Correct
  means: a cycle is found exactly when there is one, an order is returned exactly
  when there is none, and it is a topological order, the least one.
* **Builders and configuration.** Calls come in any order, a refused call leaves
  part of its effect, a file lists tasks in any order and may change between its two
  readings. Correct means: nothing unregistered or self-dependent enters a graph, an
  engine is made of every executable file and of no other, and what can go wrong is
  raised as what the callers catch.
* **Store.** `save_run` is one transaction under the lock of its process, but
  `load_run` is two SELECTs outside of one, `cancel_run` loads, looks and saves in
  separate ones, and `workflow status` lists and then loads; processes die. Correct
  means: what is stored is always one whole run; what is loaded is one unless another
  process got in between; an ended run changes only by the two races that the code
  leaves open; a lock taken is given back.
* **Scheduler.** The caller's thread changes the registry that a loop iterates over
  and looks up in, starts and stops loops, and may run schedules itself; nothing is
  locked. Correct means: one loop, unless a stop timed out; what is due is run while a
  loop lives, and not again before its interval has passed; what is registered anew
  starts over; a stop ends the loop.
* **Schedules file.** Commands read it, change it and write it anew with nothing to
  keep them apart; the write truncates first. Correct means: what a command changed
  stays, but for races; one bad entry or one raising run does no more harm than the
  code says.

## 2. The modules

| Module | Models | State and actions, and where they come from |
|---|---|---|
| `States` | `states.py` | Operators only: states, tables, checks, `aggregate_workflow_state`. |
| `Engine` | `engine.py` 180-456 | `pc`, `batch`, `wfState`: the calling thread. `state`, `attempts`, `error`: the records. `phase`: the program counter of each task's thread. `lock`, `target`, `culprit`, `todo`, `visited`: the lock and the locals of `_block_downstream`. `detached`: which threads hold a record that `run.records` has lost. One action per stretch of code between two points where another thread may interfere. |
| `EngineProperties` | – | The safety, action and liveness properties, and the mapping to the contract. |
| `WorkflowContract` | – | The abstract specification: what a run promises, without threads, batches, records or walks. |
| `EngineInvariant` | – | The inductive invariant `IInv` in named parts. |
| `Dag` | `dag.py` 97-202, 240-273; `engine.py` 209-213, 244-258 | Graphs as records of `tasks` and `dependencies`; queries, `validate_graph` as the predicate it decides, the effects of the builders, the order as a recursive function, both schedules of `run()`. |
| `TopologicalSort` | `dag.py` 240-273 | Kahn's algorithm step by step: counts, heap, order. |
| `CycleSearch` | `dag.py` 204-235 | The colored depth-first search step by step: colors, path, what each node has left to try, reported cycles. |
| `SortInvariant`, `CycleInvariant` | – | Their inductive invariants. |
| `WorkflowBuild` | `dag.py` 116-144, 278-286 | Builder calls in any order; `called` is the last one and `raised` its exception. |
| `Loading` | `config.py` 58-137, `engine.py` 143-173, `scheduler.py` 121-137, `cli.py` 56-66 | A file, what it is, and the path from it to an engine, while somebody else edits it. |
| `RunStore` | `persistence.py` 99-228; `cli.py` 183-260; `observability.py` 87-109 | `db`, `writer`, `draft`: the two tables, and the one open transaction. `lock`: who holds the `_lock` of each process. `pc`, `op`, `run`, `val`, `found`: where each thread is in the store and with what. `age`: how far each run has got. One action per statement, plus errors of statements and crashes of processes. |
| `AtomicStore` | – | The abstract store: whole runs, each replaced at once. |
| `StoreInvariant` | – | The inductive invariant `StoreInv` and the mapping to `AtomicStore`. |
| `Scheduler` | `scheduler.py` 40-167 | `schedules` with their `last_run_at`, `event`, `thread`; `pc`, `scan`, `todo`, `name`, `attached`: the locals of each thread in `due` and `run_once`; `now`: the clock. One action per call, per entry of the iteration, per step of a run. |
| `ScheduleFile` | `cli.py` 266-346 | `file`: what text there is; `at`, `entries`, `left`, `ran`: each command. Reading, truncating, writing, registering and running each entry, and dying are steps. The commands have the names of `cli.py`, and nothing has a name that `Scheduler` uses, so that one module can be about both. |
| `EngineProofs`, `DagLemmas`, `SortProofs`, `CycleProofs`, `BuildProofs`, `LoadingProofs`, `StoreProofs`, `SchedulerProofs` | – | Theorems and proofs. `DagLemmas` holds what the order and the schedules are on any graph; `SchedulerProofs` is about `Scheduler` and `ScheduleFile`. |
| `MCEngine`, `MCGraph`, `MCTopologicalSort`, `MCCycleSearch`, `MCWorkflowBuild`, `MCLoading`, `MCRunStore`, `MCScheduler`, `MCScheduleFile` | – | Instances for TLC. |

The parts meet where the code has them meet. The life of a run in `RunStore` (`Life`) is
what `Engine` leaves of it: `LifeAssumption` says that a run is at work until it ends as
`success` or `failed` with every record final, which is what `RunsLeaveLives` proves of
every returned run. A run of `Scheduler` may be saved, or raise: `Loading` says what
raises and what becomes a FAILED run, `Engine` which runs raise, `RunStore` when a save
does. `scheduler_run_once` of `ScheduleFile` is `run_once` of `Scheduler` with nothing
stamped yet.

`Engine` takes the batch of each task as a constant with an assumption
(`BatchAssumption`: later than its dependencies, no gaps). The property
`BatchesAreSchedules` of the run `Sort` shows that both schedules of `run()` satisfy
it on every graph of four tasks, `BatchesOfAcyclicGraph` proves it of every graph, and
`MCEngine` assumes, so that TLC evaluates it, that its literals are the schedules `Dag`
computes for its graphs. `Loading` and
`WorkflowBuild` use the same builder operators of `Dag`.

An operator whose comment begins with "Wrong:" is a variant of the definition after
it with a plausible bug. No specification uses it; each property of a passing run is
violated when the variant named under `mutants` in `PROJECT.json` takes the
definition's place.

### Decisions worth knowing when comparing with the code

* **Where threads can interfere.** A step of `Engine` ends where the code takes or
  releases the lock, reads or inserts a record without it, or calls user code.
  `_execute_task` reads the state at 286 and again at 305 with no write of others
  possible in between that the model would tell apart, so these are one step;
  `BeginAttempt` writes under the lock without reading again. From there on only the
  thread itself changes its record, so the check of a transition and its write are
  one step (`Move`).
* **Detached records.** `record()` (93-95) may overwrite a record another thread
  has looked up. A walk's record overwritten between lookup and mark behaves as if
  overwritten right after the mark. A thread whose own record was overwritten is in
  `detached` until its second lookup (285). The model lets threads write to the
  table; `NoDetachedExecutor` is what justifies it.
* **Order of a walk.** The breadth-first order is abstracted to any order, and the
  first failed dependency to any failed one (it comes out of a frozenset): more
  behaviours than the code has, so safety carries over.
* **`max_workers <= 1`** is a pool of one with batches of one task in topological
  order, which is what the loop at 209-213 amounts to.
* **User code** may succeed, fail, raise what is not an `Exception`
  (`Interruptible`), and any hook in `RaisingHooks` may raise. A hook that edits
  records, or a caller that edits the workflow during a run, is not modelled.
* **Sort and search.** The heap is a set of which the least is popped; all children
  of a popped node are counted down in one step, since nobody else looks. Graphs
  loaded in bulk may name ids that are not registered. In the code `seen` never
  has anything to reject in the runs; the model keeps it.
* **Loading.** `is_file` and reading are two steps with edits between. The contents
  of the file are fixed; edits change whether it can be found, opened, decoded and
  parsed. `"unreadable"` is what the operating system refuses, which `is_file` may take
  for a missing file, let out as an `OSError`, or not notice; `"undecodable"` is what
  makes `read_text` or `safe_load` raise something that is neither an `OSError` nor a
  `YAMLError`, with `"ValueError"` for all of that (no UTF-8, an impossible date). Of
  the second reading only this is modelled, because the params it yields are opaque: no
  property would notice params of another version of the file.
* **Store.** A connection sees its own open transaction, others what is committed
  (`View`); SQLite lets one transaction be open at a time, which `InsertRow` waits for.
  `Abort` is any statement that raises (locked for too long, disk full); `with
  self._conn` rolls back. A process that dies loses its threads, its lock and its
  transaction; its runs are at age 0 and never saved again. Times, params, logs and
  errors are data that no property tells apart. `interfered` is history: loads between
  whose SELECTs another process committed that run.
* **Registry.** A dict that changes its size during an iteration makes it raise
  `RuntimeError`. One that changes and has its old size again does not: entries that
  are put back come at the end and are found again, and when the dict is compacted
  meanwhile some are skipped. Hence `left` (CPython raises, too, when more entries come
  than there were), `skipped`, and `todo` as a count. `attached` tells whether a
  running `Schedule` object is still the registered one: `last_run_at` goes to the
  object, not to the name. The clock only goes forward. `disturbed` is history: threads
  whose `run_once` met another one, or whose iteration met a registration of a new name;
  `churned` likewise: threads during whose `run_once` a name came or went.
* **Intervals** are counted in steps of the clock: 0 stands for any positive interval
  shorter than a step, so that its schedule is due at every poll, and a negative one for
  whatever `register` refuses.
* **Loops.** `stop` sets the event, joins, and forgets the thread also when the join
  times out; that timeout can fire whenever the thread is alive. A thread sleeps in
  `polling`.
* **Schedules file.** `write_text` truncates, then writes; readers in between find an
  empty text and die of it. Two texts that overlap leave either the second or, when the
  first is longer, no JSON (`Garbled`). A command may die at any point. `intended` is
  history: the entries if every command changed what it was asked to and nothing else;
  `changed` likewise: the names that were written since a run-once read the file.
* **Left out everywhere:** timestamps, log entries, messages, contexts, the length of
  a backoff.

## 3. The runs

| Run | Instance | Shows |
|---|---|---|
| `EngineParallel` | 5 tasks, 2 workers, one task with 2 attempts, all hooks may raise, interrupts, fairness | Who may run (`UpstreamSucceeded`), who is blamed (`BlameIsReal`), what a raise leaves (`RaiseDrainsPool`), which illegal transitions occur (`OnlyDoomedRecordsReset`), that a run ends (`Termination`) and a failure is propagated in the end (`FailureBlocksDependents`) |
| `EngineOverlap` | 6 tasks, 3 workers, 530 000 states | `IInv` holds; `NoDetachedExecutor`; `CleanFinalization`, `OutcomeMatches`; the engine implements `WorkflowContract` |
| `EngineIllegalReset` | 2 workers | finding: a blocked record is reset to pending |
| `Sort` | every graph four tasks can be given, and every graph on three ids, registered or not (9 900 graphs) | raises exactly on cycles, the order is topological and the least, both schedules are schedules, `SortInv` |
| `Cycles` | the same graphs | finds a cycle exactly when there is one, reports real cycles, `SearchInv` |
| `BuildCalls` | every sequence of calls on four ids (16 000 states) | `FailsFast`, `NewTasksCloseNoCycle`, `ChainRunsInOrder`, what each builder raises (`BuildTypeOK`) |
| `LoadingFiles` | 4 500 files, each well-formed, missing, unreadable, undecodable or malformed at first and edited at any time (262 000 states) | `AcceptsExactly`, `BuildsWhatIsDeclared` |
| `LoadingEscapes` | the same files, well-formed all the time | finding: an exception that the scheduler does not catch |
| `StoreShared` | 3 threads in 2 processes, 2 runs, errors and crashes, fairness (45 700 states) | `StoreInv`; loads are whole unless interfered with (`LoadsAreWhole`), `StatusFindsItsRun`, what metrics can count (`EndedRunsAreMeasured`), the two races (`EndedRunsChangeByRaces`), `LockIsReleased`; the store implements `AtomicStore` |
| `Scheduling` | 2 schedules, 2 loops and a caller, 3 calls, 2 values of the clock, intervals -1 (refused), 0 (always due) and 1, fairness (123 000 states) | `SchedulerInv`, `RegistrationsStartOver`, `IntervalsAreKept`, what ends a loop (`LoopsEndForAReason`), `DueIsRun`, `StopEndsLoops` |
| `LoopsUntilStop` | the same, with the clock standing still | finding: a loop whose stop timed out is set going again |
| `SchedulesFile` | 5 commands, 3 at a time, 2 names, intervals 0 (refused) and 1 (1 260 000 states) | what can be lost or torn (`LostByRacesOnly`), what run-once runs beside other commands (`RunOnceRunsWhatIsAsked`) |

Why these bounds are enough to be worth running. The engine's hazards need two
threads whose walks meet on a record, a third task below both, a record that is
absent when a walk comes and inserted by its own thread at the same time, a retry, and
a batch after these: five tasks and two workers have all of it. `EngineOverlap` adds a
third walk, a second failure that competes for the blame and a dependency that skips a
level. The graph algorithms meet all cases of cross, back and self edges, shared
children and unregistered ids on three or four nodes. Three entries of a file suffice
for a later task, a duplicate, a self-dependency and cycles of two and three.

The store's hazards need a thread that saves, one of the same process that the lock must
keep out, and one of another process that it cannot; a run that is stored before its end
and again after it; and a second run that sorts before or after the first and has no
records, as the scheduler stores of a workflow that it could not load. `Scheduling` has
what a second `start` after a stop that timed out takes (three calls), two run_onces that
meet, a name that sorts behind another, a name taken out and put back (two calls) while
the loop that the third started iterates, an interval that passes when the clock ticks,
and one that has passed at every poll, so that its schedule, whose name sorts first or
last, is run again and again while the other waits. In `SchedulesFile` two commands race
and a third reads; five commands are one more than it takes to lose an entry, write one
back and die of it. What holds beyond these bounds is shown by the proofs.

`CHECK_DEADLOCK` is off in `Scheduling`, `LoopsUntilStop` and `SchedulesFile` only: the
system stops there when the caller has made its `MaxCalls` or `MaxCommands` calls, which
are bounds of the model, or when nobody calls any more. Elsewhere a system that is over
has an explicit `Finished` step, and any other state without a successor would be an
error.

**Fairness.** `EngineParallel` assumes `WF_vars(Next)`, that some thread that can take a
step takes one. The operating system does not stop all threads for ever, and user code
returns or raises (a callable that never returns blocks `run()` in the code too). No
thread is favoured; termination comes from the threads running out of steps.
`StoreShared` assumes `WF_vars(Step(u))` of each thread, that who is in the store goes
on: a lock is handed on by the interpreter, a locked database raises after its timeout.
Nothing makes a thread call the store, a run go on, or a process die. `Scheduling` and
`LoopsUntilStop` assume that each loop goes on for as long as it lives, which means that
its runs end (`Termination`); nothing is assumed of the caller and of the clock. Safety
does not depend on any of it.

## 4. What is proved

Every safety and action property and every refinement that a passing run checks is
also proved with `TLAPS`: for every workflow, schedule, number of workers and attempts,
set of raising hooks, every graph, sequence of builder calls, workflow file, and any
number of processes, threads, runs, schedules and commands. The assumptions are the
named ones on the constants: `TaskAssumption` (a finite nonempty set of ids),
`GraphAssumption`, `BatchAssumption` (a schedule), `ParameterAssumption` for the engine;
`WorkflowsAssumption` for the two algorithms; `IdAssumption` (ids are numbers, for the
heap compares them) and `ListsAssumption` for the builders; `LoadingAssumption` for
loading (a file has entries, as `min_length` of `config.py` 54 demands, and so have the
ids); `StoreAssumption`, `LifeAssumption`, `SchedulerAssumption` and `FileAssumption` for
the rest. TLC evaluates them in every run.

* **Engine** (`EngineProofs`). None of the safety properties is inductive. `IInv` adds
  to them: the batches go through the pool one after the other (`Pipeline`); what a
  record may say while its thread is where it is (`StateFitsPhase`); an admitted
  thread has its dependencies done (`Admitted`); **a walk only ever reaches tasks that
  can never be admitted**, because each has a dependency that did not and will not
  succeed (`WalkIsDoomed`) – this is why the unlocked reads do no harm; who holds the
  lock and what it looks at (`LockedVisit`); **no dependent of a blocked task is left
  behind**: while its record is absent some walk still has to visit it
  (`BlockedSpreads`) – this is why lazy blocking misses nobody; who may be blamed
  (`Blamed`); where a detached record can be (`DetachedIsBeforeAdmission`); that an
  insertion that meets a record takes a second thread in the batch
  (`InsertedByPeer`); that there is no batch without a task and no walk has to go where
  it has been (`NothingTwice`); and the outcome (`Concluded`). Each part has a lemma that a step
  preserves it. From `IInv` follow `TypeCorrect`, `RunsOnlyAfterUpstream`,
  `BlameIsCorrect`, `FinalizationIsClean`, `OutcomeIsCorrect`, `ExecutorsAreAttached`,
  `RaiseIsDrained`, `ResetsAreDoomed`, and `SequentialRunsAreLegal`: with batches of one
  task the property that `EngineIllegalReset` violates holds.
* **Progress of a run** (`EngineProofs`). What `Termination` needs beside fairness.
  `RunsAreBounded`: a run has milestones – of each batch the places of `run()`, of each
  task the places of its thread in each attempt, of each task and visitor the stages of a
  visit, in all `4(n + 1)`, the sum of `4 * max_attempts + 8`, and `3n^2` – each is
  passed once and for good, and every step passes one, so that no retry, walk or second
  insertion goes round in a circle. That a walk visits nobody twice is what makes this
  true of the walks, and is why `NothingTwice` is a part of `IInv`. `RunsNeverHang`:
  until `run()` has returned or raised, some thread or `run()` itself can go on; who
  waits for the lock waits for a thread that waits for nothing, and a task is queued
  only behind tasks at work or with a free worker. `RunsLeaveLives`: what is left to be
  stored is a life as `RunStore` assumes it.
* **Refinement** (`EngineProofs`). `EngineImplementsContract`: the initial state
  maps to the contract's and every step to a step or a stutter, under `StatusOf` and
  `OutcomeOf`. A blocked record counts as blocked when its thread is done with it,
  which is what hides the resets.
* **Topological sort** (`SortProofs`). `SortInv`: counts are those of the dependencies
  still to come, the heap is what has none left, and, on any graph at all, what has been
  pushed has a count of zero or less and so is not pushed again; on a registered graph,
  each place of the order has the least of the tasks that were ready then
  (`LeastFirst`). Hence `NothingIsEmittedTwice`, `SortIsCorrect`, `SortRaisesOnCycle`,
  and `SortIsLeast`: the loop over counts and heap returns what the recursive function
  `topological_order` describes, and no topological order comes before it. `SortEnds`:
  the number of steps, which every step raises by one, is at most that of the ids and
  two, on any graph at all.
* **Order and schedules** (`DagLemmas`). `OrderOfAcyclicGraph` and
  `BatchesOfAcyclicGraph`, about any graph that `validate_graph` accepts: the order has
  every task after its upstream, and the batches of `run()`, for any `max_workers`, are
  what `Engine` assumes of its constant `Batch`. From these `SortGivesSchedules`.
  `topological_order` and `level_of` are recursive functions, and a recursive function
  is to TLAPS *some* function that satisfies its equation, if there is one. That there is one is
  `RecursionHasSolution`, by an induction without operator parameters
  (`UpToInduction`): a set of numbers that misses one up to a bound misses a least one,
  which finite sets have. `LeastFirstIsTheOrder` then says that an order that is the
  least first at every place is *the* order, by the first place where two would differ.
* **Cycle search** (`CycleProofs`). `SearchInv`: the path is the gray nodes; while
  nothing is reported, black nodes lead only to black nodes and hold no *trap* (a set
  of tasks each of which depends on another of the set). Hence `ReportIsReal` and
  `SearchIsComplete`. Both algorithms are compared with the same `HasCycle`, so the two
  theorems together show that the raise at `dag.py` 270-271 cannot happen for a
  validated graph. `SearchEnds`: a visit begins once, tries each neighbor once and ends
  once, so that `3n^2 + 1` steps are enough.
* **Builders** (`BuildProofs`). `BuildersFailFast`, `OnlyDependenciesCloseCycles`,
  `BuildTypes` (which of the three errors each builder can raise), and `ChainsRunInOrder`:
  what `from_chain` builds has one ready task at each place, so that the heap has nothing
  to choose and the ids' order does not matter.
* **Loading** (`LoadingProofs`). `LoadInv`: until the loop that adds has ended, the
  workflow has the tasks of the entries before the one it is at, and these are distinct
  identifiers; while the two nested loops wire, each task has the upstream of its entry
  as far as it has been read, all registered and none itself; and what has been raised
  has its reason in the file. Hence `LoadingBuildsWhatIsDeclared` and
  `LoadingAcceptsExactly`, for files of any length that anyone edits at any time. Two
  more theorems have no property of a run: `EscapesAreOfFileOrId` bounds the finding of
  `LoadingEscapes` (what passes the handler was raised where the file is looked for or
  read, or is a `ValidationError` of an id in the file that is no identifier; no fault of
  the graph, of the callables or of the order of entries does), and `LoadedEnginesRun` puts the
  components together: every workflow that reaches a constructed engine has the
  schedules that `Engine` assumes.
* **Store** (`StoreProofs`). For any processes, threads, runs and lives of runs.
  `StoreInv` adds to the safety properties: who is between a first and a last statement
  holds the lock of its process, and only that thread has the transaction (`Exclusive`);
  the draft is what is committed but for the one run (`DraftIsNext`); what is committed
  is whole and, while its owner lives, not ahead of it (`CommittedIsWhole`); and what each
  call has in its hands: a save the run as it is (`SaveInHand`), a cancel a point of its
  life with the state changed, of a run that had not ended when it looked
  (`CancelInHand`), a load a row that is still there and, unless interfered with, still
  the same (`LoadInHand`). Hence `LoadsWhole`, `StatusFinds`, `EndedMeasured`,
  `EndedChangeByRaces`, and the refinement `StoreIsAtomic`: `Commit` is a `Save` or a
  `Cancel` of `AtomicStore`, everything else, crashes included, a stutter. What
  `LockIsReleased` needs beside fairness: `StoreCallsEnd`, a call goes through its places
  forward only, at most seven steps; and `StoreNeverHangs`, while any thread is in the
  store one can go on *without an error*: the threads take the lock of their process
  before the transaction, and who has the transaction waits for nothing.
* **Scheduler** (`SchedulerProofs`). For any schedules, intervals, number of loops, calls
  and ticks. `ThreadsFit`: types, at most the known loop and abandoned ones, and that an
  attached thread's name is registered and no iteration has a name before it that is not.
  From it `LoopIsOne` and `RegistrationsAreNew`. `SchedulerInv` adds `StampsFollow` (a
  save is followed by its stamp, by the thread that is attached and about to give it) and
  `Alone`: a thread in a `run_once` that nobody has met is the only one, holds each name
  at most once, not while it is still to be visited, nor while it runs, and only if its
  interval has passed. That is what `IntervalsKept` needs: the clock is read once, long
  before the run, and the registry may change in between. The last part is `Steady`: a
  thread in a `run_once` under which no name comes or goes finds the dict as large as it
  was, has as many entries before it as it counts, and finds what it is to look up. Hence
  `LoopsEndForReasons`: neither a registration that replaces another nor the `run_once`s
  of other threads end a loop.
* **Schedules file** (`SchedulerProofs`). `FileInv`: the readable file,
  and the entries in the hands of a process that rewrites it, agree with `intended` but
  for `suspects` and for what that process changes (`FileIsIntended`, `HoldsIntended`);
  the name of a writer is suspect as soon as another rewrites too or has written since
  (`WritersAreSuspect`); without a tear there is one writer, and it leaves no other
  text behind (`OneWriter`). Hence `OnlyRacesLose`, for any number of processes, names
  and commands. A run-once has a copy of the file, which agrees with `intended` but for
  `suspects` and for what has been written since (`CopyIsIntended`), and goes through it
  entry by entry, first to register and then to run (`RunsTheCopy`): hence
  `RunOnceIsFaithful`.

The inductive invariants are checked by TLC before they are relied on: those in the
modules named `...Invariant` and `SchedulerInv` in the runs that name them. `LoadInv` and
`FileInv` are stated in the proof modules, which TLC does not run; they were evaluated
on the instances of `LoadingFiles` (261 580 states) and `SchedulesFile` (1 262 126 states).

The guards that `RunsNeverHang` and `StoreNeverHangs` speak of (`ThreadCanStep`,
`MainCanStep`, `CanGoOn`) are written out, because ENABLED is beyond TLAPS; TLC evaluated
that they are what enables the actions (without `Abort`, in the store), and the measures
with them, on the instances of `EngineParallel` (3 431 states) and `StoreShared`
(45 695 states), and the progress of a run also on that of `EngineOverlap`.

**Only model-checked:** liveness, that is `Termination`, `FailureBlocksDependents`,
`LockIsReleased`, `DueIsRun` and `StopEndsLoops`, because fairness needs ENABLED, which is
beyond TLAPS; and the three violations of section 5. Of `Termination` only the
application of weak fairness is missing: a run that is not over has an enabled step, and
there are finitely many; that it has then blocked whom it should is `OutcomeIsCorrect`.
Of `LockIsReleased` likewise: whoever holds a lock is at a place from which each step leads
forward to its release. `DueIsRun` and `StopEndsLoops` rest on fairness throughout.

## 5. Findings

1. **An illegal transition occurs silently** (`engine.py` 94, run `EngineIllegalReset`).
   `record()` tests and inserts without the lock. Task 1 fails; 3 and 4 depend on it and
   run in one batch. The thread of 4 finds its record absent; the walk of 3 inserts and
   marks it `upstream_failed`; then 4 puts a fresh `pending` record over it. The table
   has no such transition. The damage is bounded, and proved so: the task is below an
   exhausted failure, is blocked again, never runs, and it takes two threads.
2. **A broken workflow file can end the scheduler** (`scheduler.py` 131, run
   `LoadingEscapes`), although 107-109 say it must not: an id that is no identifier
   raises pydantic's `ValidationError`; only `OrchestrationError` is caught. The same goes
   for a file that vanishes or must not be read (`OSError`), is no UTF-8
   (`UnicodeDecodeError`), or has a value that the YAML parser cannot convert
   (`ValueError`), at `config.py` 66-70. That no other fault of a file does it is
   `EscapesAreOfFileOrId`.
3. **A loop can survive its stop** (`scheduler.py` 147, run `LoopsUntilStop`), although
   8-9 say that it polls until `stop`. `stop` forgets a thread that outlives the join;
   the next `start` clears the event, which all loops share, before that thread has seen
   it. It then polls on beside the new loop, and no later `stop` waits for it. That no
   two loops run otherwise is `LoopIsOne`.

Smaller divergences met while modelling, which the properties account for and which
have no run of their own:

* Dependents of an exhausted failure are not blocked when it fails (`engine.py` 272-273,
  343-344, `EXPLANATION.md` 187) but when one of them is dispatched;
  `FailureBlocksDependents` shows that they are in the end, unless the run raises.
* `_find_cycles` does not report every cycle (`dag.py` 207, `EXPLANATION.md` 143-144): when
  1 depends on 2 and 3, 2 on 1, and 3 on 2, the cycle 1, 3, 2 is cut off at the `BLACK`
  test (227). One is always reported (`SearchIsComplete`).
* `add_task` names `DuplicateTaskError` as all that it raises (`dag.py` 120-121), but lets
  out what the wiring of `depends_on` is refused with, `UnknownTaskError` and
  `SelfDependencyError`, and the task stays, half wired. `from_chain` names nothing
  (278-280) and raises `DuplicateTaskError`. `BuildTypeOK` states what each builder does raise.
* `build_workflow` builds "a validated Workflow" (`config.py` 79) without looking for
  cycles, which the engine's constructor does. `AcceptsExactly` covers both. Of what it
  raises it does not name `SelfDependencyError` (81-84).
* A cancelled run that goes on is stored as what it becomes, and a run that ends while
  `cancel_run` has it in hand is stored as cancelled, with records from before its end
  (`EndedRunsChangeByRaces`). The callers in the repository save a run once, after its
  end, so that for their runs `run cancel` always finds an ended one; the checkpoints of
  `EXPLANATION.md` 416-418 are not there.
* `latest_run` puts a run without `started_at` last (`persistence.py` 211), so the FAILED
  run of a workflow that could not be loaded is never the latest while there is another.
* `scheduler run-once` runs every schedule each time (`cli.py` 335), although
  `scheduler.py` 6-7 speaks of those whose interval has elapsed; `scheduler register`
  takes intervals that `Scheduler.register` refuses, and one such entry keeps every later
  run-once from running anything (`RunOnceRunsWhatIsAsked`).

## 6. Not modelled

* `builtins.py`: sample user code. `observability.py`: formatting and counts, except for
  the states that `compute_run_metrics` has counters for. The argument parsing, the
  search for workflow files and the output of `cli.py`.
* Hooks and callables that change records or the workflow; a second `run()` of the same
  engine at the same time (each run has its own records; the lock is the only thing
  shared).
* Opening a database: the schema is there before any process starts, and two processes
  that create it at once are kept apart by SQLite. Two `RunStore` objects on one file in
  one process are two processes to the model.
* A clock that is set back, which delays a schedule by as much, and an interval that is
  not a number.

## 7. Running it

Each configuration `X.cfg` belongs to the module named in `PROJECT.json`:
`tlc -config EngineParallel.cfg MCEngine`; `tlapm EngineProofs.tla` checks a module's
proofs. `EngineOverlap` takes a minute or two, all other runs less than one.

## 8. Plan

Done: the engine with its contract, the graph with both algorithms, the builders,
loading, the run store with its abstract specification, the scheduler, the schedules
file; proofs of every safety and action property and both refinements;
proofs of what `Termination` and `LockIsReleased` need beside fairness; and that a
run of the engine leaves what the store assumes.

Left: the liveness properties themselves as theorems, once the prover has ENABLED.
