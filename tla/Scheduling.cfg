\* Two schedules and two loops, one of which may have been abandoned.
CONSTANTS
  Name <- MCName
  Interval <- MCInterval
  MaxTime = 2
  MaxCalls = 3
  MaxLoops = 2
SPECIFICATION FairSpec
CHECK_DEADLOCK FALSE
INVARIANT SchedulerInv
INVARIANT RegistrationsStartOver
PROPERTY IntervalsAreKept
PROPERTY LoopsEndForAReason
PROPERTY DueIsRun
PROPERTY StopEndsLoops
