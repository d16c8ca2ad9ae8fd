SPECIFICATION Spec
CONSTANTS
  body = body
  lid = lid
  rim = rim
  m1 = m1
  m2 = m2
  PartIds = {body}
  Meshes = {m1, m2}
  NoMesh = NoMesh
  Imports <- OnePart
  Requests = {r1}
  Tags = {t1}
  Workflows = {"repair"}
  MaxDocuments = 1
  MaxRevision = 2
  MaxCandidates = 1
  MaxGeneration = 1
  MaxDescriptors = 2
SYMMETRY Symmetry
INVARIANTS
  NoRepairOfReleasedDocuments
CHECK_DEADLOCK FALSE
