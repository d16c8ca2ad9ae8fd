SPECIFICATION Spec
CONSTANTS
  Parts = {pa, pb}
  Setups <- PageSetups
  MaxWaiting = 1
SYMMETRY PartSymmetry
INVARIANTS
  OnlyCancelledAreForgotten
  TypeOK
  ShowsTheResidentRevision
  EverySpinnerEnds
  DescribesTheModel
  OfferedUndoIsTheLastChange
  OfferedFillApplies
CHECK_DEADLOCK FALSE
