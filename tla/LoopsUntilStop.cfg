\* A stop() whose join times out, and a start() after it.
CONSTANTS
  Name <- MCName
  Interval <- MCInterval
  MaxTime = 1
  MaxCalls = 3
  MaxLoops = 2
SPECIFICATION FairSpec
CHECK_DEADLOCK FALSE
PROPERTY StoppedLoopsEnd
