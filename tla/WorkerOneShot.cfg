CONSTANTS
  ReauthIntervalDays = 1
  DayStep = 1
  Commands <- WaitCommands
  MaxUpdates = 2
  RunOnce = TRUE
  IntervalMode = FALSE
SPECIFICATION FairSpec
INVARIANTS OneShotAuthIsReady
PROPERTIES WaitEnds
