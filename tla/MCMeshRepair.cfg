SPECIFICATION Spec
CONSTANTS
  MaxVertices = 5
  MaxFaces = 4
  MaxRepairs = 1
  Shapes <- EveryShape
  Files <- EveryFile
  Splits = {0, 1}
  Requests <- Every
  MaxLoopVertices = 5
  MaxBoundaryEdges = 9
CONSTRAINT GroupsInSmallMeshes
INVARIANTS
  ComponentsAreConnected
  SolverFindsTheOrientation
  AcceptedIsRepaired
  RepairsTearNothing
  OneAnswerAboutOpenings
  AdmissionAgreesWithTheEngine
  FillsCloseExactlyTheirOpenings
CHECK_DEADLOCK FALSE
