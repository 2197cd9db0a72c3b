\* Two workers on the five-task join; any hook may raise, any call be interrupted.
CONSTANTS
  Task <- JoinTask
  Upstream <- JoinUpstream
  MaxAttempts <- JoinAttempts
  Batch <- JoinLevels
  MaxWorkers = 2
  RaisingHooks = {"on_workflow_start", "on_task_start", "on_task_success", "on_task_failure", "on_task_retry", "on_workflow_end"}
  Interruptible = TRUE
SPECIFICATION FairSpec
INVARIANT UpstreamSucceeded
INVARIANT BlameIsReal
INVARIANT RaiseDrainsPool
PROPERTY OnlyDoomedRecordsReset
PROPERTY Termination
PROPERTY FailureBlocksDependents
