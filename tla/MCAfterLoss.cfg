SPECIFICATION FairProtocol
CONSTANTS
  Ids = {o1, o2}
  Interruptible = {o1}
  MaxReports = 1
  MaxAwaits = 1
  NoOp = NoOp
PROPERTY NoRequestHangs
CHECK_DEADLOCK FALSE
