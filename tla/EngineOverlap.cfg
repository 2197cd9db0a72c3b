\* Three workers whose walks overlap.
CONSTANTS
  Task <- ForkTask
  Upstream <- ForkUpstream
  MaxAttempts <- ForkAttempts
  Batch <- ForkLevels
  MaxWorkers = 3
  RaisingHooks = {"on_task_failure"}
  Interruptible = TRUE
SPECIFICATION Spec
INVARIANT IInv
INVARIANT NoDetachedExecutor
INVARIANT CleanFinalization
INVARIANT OutcomeMatches
PROPERTY ImplementsContract
