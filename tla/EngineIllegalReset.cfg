\* Two workers: the unlocked insertion resets a blocked record.
CONSTANTS
  Task <- JoinTask
  Upstream <- JoinUpstream
  MaxAttempts <- JoinAttempts
  Batch <- JoinLevels
  MaxWorkers = 2
  RaisingHooks = {}
  Interruptible = FALSE
SPECIFICATION Spec
PROPERTY LegalTransitions
