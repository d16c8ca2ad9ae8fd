SPECIFICATION Spec
CONSTANTS
  body = body
  lid = lid
  rim = rim
  m1 = m1
  m2 = m2
  PartIds = {body, lid, rim}
  Meshes = {m1, m2}
  NoMesh = NoMesh
  Imports <- OnePart
  Requests = {r1}
  Tags = {t1}
  Workflows = {"repair", "fill", "texture", "split"}
  MaxDocuments = 1
  MaxRevision = 3
  MaxCandidates = 1
  MaxGeneration = 2
  MaxDescriptors = 2
SYMMETRY Symmetry
PROPERTIES
  AppliesToItsSource
  RefinesAuthoritativeModel
CHECK_DEADLOCK FALSE
