CONSTANTS
  NoTime = NoTime
  NoDays = NoDays
  DayTicks = 4
  MonthStarts <- Months
  Configs <- EverySetting
  Scenes <- AllScenes
  Instants <- DayBeforeToDayAfter
SPECIFICATION FairSpec
INVARIANTS TypeOK NoSlotMissed
PROPERTIES StaysPinnedOutsideRepeat DueRunTaken
