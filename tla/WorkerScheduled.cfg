CONSTANTS
  ReauthIntervalDays = 7
  DayStep = 3
  Commands <- LoopCommands
  MaxUpdates = 2
  RunOnce = FALSE
  IntervalMode = TRUE
SPECIFICATION FairSpec
INVARIANTS TypeOK BackupGated DurableWhenAuthenticated PromptImpliesPending MarkersExclusive NoCommandLost FreshCommandsOnly
PROPERTIES ReauthPendingSticky
