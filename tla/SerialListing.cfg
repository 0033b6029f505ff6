CONSTANTS
  root = root
  docs = docs
  library = library
  padded = padded
  report = report
  note = note
  draft = draft
  Nodes <- DriveNodes
  Dirs <- DriveDirs
  Root = root
  Children <- DriveChildren
  Untyped <- DriveUntyped
  Unresolvable <- DriveUnresolvable
  MaxAttempts = 2
  MaxListings = 2
SPECIFICATION FairSpec
INVARIANTS TypeOK ListingContract
PROPERTIES CallerEnds
CHECK_DEADLOCK FALSE
