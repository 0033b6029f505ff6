CONSTANTS
  DayTicks = 2
  KeepDays = 1
  MaxBytes = 2
  Daily = TRUE
  MaxRecord = 2
  MaxClock = 5
  MaxLines = 3
SPECIFICATION LogSpec
INVARIANTS LogTypeOK SizeIsBounded
PROPERTIES LinesKept
CHECK_DEADLOCK FALSE
