\* Two processes, one of them with two threads, on one database.
CONSTANTS
  Process <- MCProcess
  NoProcess = "none"
  Thread <- MCThread
  NoThread = 0
  ProcessOf <- MCProcessOf
  Run <- MCRun
  StartedAt <- MCStartedAt
  Owner <- MCOwner
  Uses <- MCUses
  Task <- MCTask
  Life <- MCLife
SPECIFICATION FairSpec
INVARIANT StoreInv
INVARIANT LoadsAreWhole
INVARIANT EndedRunsAreMeasured
INVARIANT StatusFindsItsRun
PROPERTY EndedRunsChangeByRaces
PROPERTY LockIsReleased
PROPERTY ImplementsAtomicStore
