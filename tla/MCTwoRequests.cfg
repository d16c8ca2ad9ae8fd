SPECIFICATION Spec
CONSTANTS
  body = body
  lid = lid
  rim = rim
  m1 = m1
  m2 = m2
  PartIds = {body, lid, rim}
  Meshes = {m1, m2}
  NoMesh = NoMesh
  Imports <- EverySetup
  Requests = {r1, r2}
  Tags = {t1}
  Workflows = {"analyze", "repair", "fill", "texture", "split"}
  MaxDocuments = 2
  MaxRevision = 4
  MaxCandidates = 2
  MaxGeneration = 4
  MaxDescriptors = 2
ACTION_CONSTRAINT ToolsOfTheFile
SYMMETRY Symmetry
INVARIANTS
  TypeOK
  OneLiveCandidate
  UndoRestoresParent
  ReportsDescribeTheirMesh
  OneReadyEdit
  ReadyEditsDescribeTheModel
  NoGeometryOfReleasedDocuments
CHECK_DEADLOCK FALSE
