CONSTANTS
  library = library
  report = report
  sheet = sheet
  Paths <- LibraryPaths
  Under <- LibraryUnder
  Untyped = {library}
  Unresolvable = {}
  Known = {}
  DeleteRemoved = FALSE
  FirstDrive <- LibraryDrive
  MaxVersion = 2
  MaxChanges = 0
  MaxRuns = 2
SPECIFICATION Spec
PROPERTIES NothingDeletedByDefault
CHECK_DEADLOCK FALSE
