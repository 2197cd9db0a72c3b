\* Five commands, three at a time, on a file with two schedules.
CONSTANTS
  Process <- MCProcess
  FileName <- MCFileName
  FileInterval <- MCFileInterval
  MaxCommands = 5
SPECIFICATION FileSpec
CHECK_DEADLOCK FALSE
INVARIANT LostByRacesOnly
INVARIANT RunOnceRunsWhatIsAsked
