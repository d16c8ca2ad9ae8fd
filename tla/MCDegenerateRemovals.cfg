SPECIFICATION Spec
CONSTANTS
  MaxVertices = 5
  MaxFaces = 5
  MaxRepairs = 0
  Shapes = {}
  Files <- SliversAtOneEdge
  Splits = {0}
  Requests <- Every
  MaxLoopVertices = 5
  MaxBoundaryEdges = 9
INVARIANT DegenerateRemovalsAreInert
CHECK_DEADLOCK FALSE
