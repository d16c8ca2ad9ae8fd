SPECIFICATION Spec
CONSTANTS
  MaxVertices = 7
  MaxFaces = 5
  MaxRepairs = 0
  Shapes <- Pages
  Files <- NoFile
  Splits = {0}
  Requests = {}
  MaxLoopVertices = 5
  MaxBoundaryEdges = 8
INVARIANT ComponentsAreWhole
CHECK_DEADLOCK FALSE
