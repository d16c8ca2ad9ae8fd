SPECIFICATION Spec
CONSTANTS
  body = body
  lid = lid
  rim = rim
  m1 = m1
  m2 = m2
  PartIds = {body}
  Meshes = {m1, m2}
  NoMesh = NoMesh
  Imports <- OnePart
  Requests = {r1, r2}
  Tags = {t1}
  Workflows = {"repair", "texture"}
  MaxDocuments = 1
  MaxRevision = 2
  MaxCandidates = 1
  MaxGeneration = 2
  MaxDescriptors = 2
SYMMETRY Symmetry
PROPERTIES
  InvalidatesOnlyItsOwn
CHECK_DEADLOCK FALSE
