CONSTANTS
  root = root
  docs = docs
  library = library
  padded = padded
  report = report
  note = note
  draft = draft
  Nodes <- DriveNodes
  Dirs <- DriveDirs
  Root = root
  Children <- DriveChildren
  Untyped <- DriveUntyped
  Unresolvable <- DriveUnresolvable
  Workers = 2
  MaxAttempts = 2
  StallWaits = 2
  MaxListings = 1
SPECIFICATION Spec
INVARIANTS EmptyIsFlagged
CHECK_DEADLOCK FALSE
