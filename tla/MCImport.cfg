SPECIFICATION FairSpec
CONSTANTS
  MaxImports = 2
  Ids <- ImportIds
  Interruptible <- ImportRequests
  MaxReports = 1
  MaxAwaits = 1
  NoOp = NoOp
INVARIANTS
  TypeOK
  OpenPromises
  OnePlace
  BarHasAnImport
  ShownIsResident
  OnlyCancelledAreLeft
PROPERTIES
  CancelledWorkIsSilent
  ShowsTheNewest
  ImportEnds
CHECK_DEADLOCK FALSE
