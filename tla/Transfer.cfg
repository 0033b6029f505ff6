CONSTANTS
  entry = entry
  folder = folder
  inner = inner
  outer = outer
  Items = {entry, folder, inner, outer}
  Root = entry
  Children <- Tree
  FirstDrives <- EntryOfAnyKind
  RETRY_ATTEMPTS = 2
  MaxVersion = 2
  MaxChanges = 1
  MaxTransfers = 2
SPECIFICATION FairSpec
INVARIANTS TypeOK WholeFiles SuccessIsComplete
PROPERTIES FilesOnlyAdvance TransferEnds
CHECK_DEADLOCK FALSE
