SPECIFICATION Spec
CONSTANTS
  MaxExports = 3
  MaxRevisions = 4
  Chunks = 2
  Requests = {ra, rb}
  Documents = {da, db}
  MaxCalls = 3
  PartIds = {body}
  Meshes = {m1}
  NoMesh = NoMesh
  MaxDescriptors = 2
  HistoryDocuments = {1, 2, 3, 4}
  HistoryRevisions = 4
INVARIANTS
  PublishedIsTold
  WaitsForTheActive
  EvictionKeepsUndo
PROPERTIES
  
  TouchesOnlyItsOwn
  PublishesWhatIsShown
  EveryExportEnds
  CommitsRestoreTheCap
CHECK_DEADLOCK FALSE
