CONSTANTS
  library = library
  report = report
  sheet = sheet
  Paths <- SheetPaths
  Under <- SheetUnder
  Untyped = {library}
  Unresolvable = {library}
  Known = {sheet}
  DeleteRemoved = TRUE
  FirstDrive <- SheetDrive
  MaxVersion = 2
  MaxChanges = 2
  MaxRuns = 2
SPECIFICATION Spec
INVARIANTS TypeOK SkipIsSafe
PROPERTIES CleanRunMirrors IncompleteRunsKeep
CHECK_DEADLOCK FALSE
