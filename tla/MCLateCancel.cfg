SPECIFICATION FairSpec
CONSTANTS
  MaxImports = 2
  Ids <- ImportIds
  Interruptible <- ImportRequests
  MaxReports = 1
  MaxAwaits = 1
  NoOp = NoOp
INVARIANT NothingLeftResident
CHECK_DEADLOCK FALSE
