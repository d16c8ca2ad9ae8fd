# A TLA+ verification project for the CAD-Fixer workspace

CAD-Fixer is a browser tool that imports mesh files (STL, OBJ, 3MF), analyses
them, proposes repairs, fills holes, textures and splits parts, and exports the
result. The geometry lives in one worker, the page asks that worker for changes,
and the heavy engines run in workers that are thrown away. What can go wrong is
less in the numerics, which the repository tests well, than in *when* things
happen: an answer that arrives after the model changed, an undo after another
tool ran, a candidate nobody can reach any more. Most of these modules are about
that; four are about the pure algorithms of topology analysis, boundary loops,
conservative repair and boundary filling, over every small mesh.

Contents: [inventory](#inventory), [what is modelled](#what-is-modelled),
[runs](#runs), [proofs](#proofs), [findings](#findings),
[what is not modelled](#what-is-not-modelled), [plan](#plan).

## Inventory

Paths are relative to `src/`. `packages/geometry-runtime/src` is abbreviated
`GR`, `apps/web/src` is `WEB`.

| Component | State it keeps | Operations | Hard because |
|---|---|---|---|
| Resident documents (`GR/resident-documents.ts`) | document → (revision, parts); next id | commit, resolve, resolvePart, replace, release | every other store names documents by id and revision, and only `replace` moves the revision |
| Repair candidates (`GR/repair-candidates.ts`) | entries (never deleted), one active per document, next id | create, prepareCommit, markCommitted, discard, releaseDocument | registered after awaits, committed later, from an old revision perhaps |
| Hole-fill candidates (`GR/hole-fill-candidates.ts`) | the same | the same | computed in another worker while this one serves commits |
| Geometry edits and splits (`GR/geometry-edit.ts`, `GR/split-candidates.ts`) | candidates, one active per document and store, a shared request generation | begin, resolve, commit, discard, invalidate, fail, releaseDocument | two stores, one generation counter, concurrent requests |
| Repair history (`GR/repair-history.ts`) | records, one undoable per document, eviction order | record, prepareUndo, markUndone, releaseDocument, trim | three causes for an inverse to go; bounded list |
| Topology reports (`GR/topology-cache.ts`) | document → reports | get, set, release | written by a handler that awaits |
| Worker handlers (`WEB/workers/*-handlers.ts`) | what a handler holds across its awaits | one per message kind | interleave at every await |
| Boundary fill (`WEB/workers/boundary-fill.ts`) | four cached plans | plan, fill | cache at its limit |
| Boolean operations (`WEB/workers/boolean-operation-controller.ts`) | the running nested worker | run, cancel, cancelDocument | late answers of a terminated worker |
| Worker protocol (`GR/coordinator.ts`, `GR/worker-host.ts`, `packages/shared/src/cancellation.ts`) | pending requests, cancellation words | request, cancel, reply, progress, terminate | cancel crosses reply |
| Import (`WEB/state/use-model-import.ts`, `WEB/runtime/import-service.ts`, `WEB/workers/stl-handlers.ts`) | the page's import token and session, the resident document | begin, read, send, commit, cancel, release | superseded imports, a document nobody shows |
| Page state (`WEB/state/workspace-store.ts`) | what is on screen, busy flags, tokens | one method per result | results of an earlier document, part or tool |
| Page services (`WEB/runtime/*-service.ts`) | the attempt in progress, its token and cancellation | start, cancel, dispose | an attempt superseded while its answer is on the way (no service has a timeout) |
| Export (`WEB/runtime/document-export-service.ts`, `export-file-sink.ts`, `WEB/workers/export*.ts`) | the chunk in flight, an open file, the question to the user | start, select, chunk, close, cancel | one step of several fails, other programs write too |
| Topology analysis (`packages/mesh-topology`) | none | edges, loops, manifold classes, components | the order in which faces and edges come |
| Conservative repair (`packages/mesh-repair`) | none | plan, duplicate and degenerate removal, winding, validation | stages chosen apart and executed together |
| Hole filling (`packages/mesh-hole-fill`) | none | admission, ear clipping, verdict | a diagonal may be an edge already; openings are admitted apart and filled together |
| File formats (`packages/file-formats`) | reader state | identify, screen, read, write | declared sizes, archive paths, budgets |
| Memory budget (`GR/memory-budget.ts`) | none | admit or refuse | sums near a limit |
| Kernel, evaluation harness, viewport, components, deployment | – | – | not state machines of this program |

Interaction. The page holds *handles* (document id and revision) and candidate
handles, and sends messages. The worker answers each message once. It is one
thread, so a handler that never awaits is atomic; a handler that awaits (an
engine, a nested worker, or `yieldToEventLoop`) lets every other handler run in
between. All stores are plain objects that the handlers call directly: there is
no lock and no notification, so each commit handler has to clear, by hand, the
other stores' candidates, and each of them clears a different subset.

What makes each component correct:

* documents: a revision is immutable; a change makes the next one; nothing
  computed from an older revision is ever applied;
* candidate stores: one live candidate per document, its geometry held exactly
  while it is live, nothing held for a document that is gone;
* edits and splits: of all requests of both tools only the latest can become
  applicable, and at most one candidate is applicable;
* history: Undo gives back exactly the previous revision; eviction never takes
  an undo;
* reports: what the revision guard lets through describes the mesh it is asked
  for;
* protocol: a promise settles once, when the worker is lost too, and a cancelled
  request is silent;
* import: the newest import is shown, and every other document is released;
* page: what is on screen belongs to the revision and part beside it, nothing
  spins for ever, and what is offered can be applied;
* export: what the panel says is what happened to the file;
* Boolean operations: a request waits exactly while its call is the active one;
* topology and repair: the counts are right whatever the order of the faces, and
  an accepted repair removes what it promised and harms nothing else.

The worker is never restarted: `main.tsx` builds one client, and when the worker
is lost the page drops its session and tells the user.

## What is modelled

| Module | Models |
|---|---|
| `Maps` | the JavaScript `Map` as a partial function |
| `Geometry` | documents as functions from part ids to meshes; handles |
| `CandidateStore` | `RepairCandidateStore` and `HoleFillCandidateStore` as operators on a store value |
| `GeometryEdits` | `GeometryEditStore` and `SplitCandidateStore` and their generation |
| `RepairHistory` | `RepairHistoryStore`, with the eviction loop in closed form |
| `TopologyReports` | `TopologyReportCache` |
| `GeometryWorker` | the worker: documents, all stores, every handler that changes one of them |
| `AuthoritativeModel` | what the worker promises: versioned documents and one exact undo |
| `HistoryEviction` | the history alone, with the eviction loop step by step |
| `WorkerProtocol` | the coordinator, the host, the two channels, the shared words, the loss of the worker |
| `ImportLifecycle` | the import hook and sessions, the import and release handlers, over `WorkerProtocol` |
| `WorkspaceStore` | the page's store as operators: analysis, repair, hole-fill and edit slices |
| `WorkspacePage` | the hooks over that store, their requests and answers, and the worker as they see it |
| `DocumentExport` | saving a document: hook, service, file sink, export worker, disk |
| `BooleanOperations` | the controller of the nested Boolean worker and the requests that use it |
| `Places` | some places of a sequence, and the entries at them in order |
| `MeshTopology` | the topology analysis as operators on sequences of faces |
| `BoundaryLoops` | the openings of a mesh, found by the extraction, by the scan and by the report |
| `BoundaryFill` | ear clipping, what is admitted, the filled candidate and the verdict on it, the engine's checks |
| `ConservativeRepair` | a part that is analysed, planned, repaired, validated, filled, committed |
| `MCGeometryWorker`, `MCWorkerSetups`, `MCPage`, `MCServices`, `MCRepair` | instances for TLC |
| `GeometryWorkerProofs`, `WorkerEditProofs` | the theorems about the worker, after the lemmas about each store operation |
| `ImportLifecycleProofs` | the theorems about the protocol and the imports |
| `PageProofs`, `PageWorkProofs` | the theorems about the page: what it shows, and what it waits for and owes |
| `ServiceProofs` | the theorems about exports, Boolean operations and the eviction of undo records |
| `PlaceLemmas` | lemmas about least numbers, finite images and `Places`, for the two proofs that count |
| `ConservativeRepairProofs` | the theorems about the repair and the fill of a mesh |

### The geometry worker

The stores are *values* and their methods operators that return the store they
leave, so a handler that calls several stores is one action, in the order of the
code. A mesh is an identity (the code never changes one in place); the candidate
stores and requests also carry `base`, the mesh the work was computed from, and
`lineage` records every revision of a document. Neither influences a step; the
properties use them. A request the guards refuse throws before it changes
anything and is no step.

Handlers and actions:

| Handler | Action(s) | Awaits |
|---|---|---|
| `model/import` (its last step) | `Import` | – |
| `model/release` | `Release` | – |
| `model/analyze` | `AnalyzeBegin`, `AnalyzeFinish`, `Fails` | event loop |
| `repair/plan` | `RepairPlan` | (keeps nothing after its await) |
| `repair/create-candidate` | `RepairBegin`, `RepairFinish`, `Fails` | event loop, fill verifier |
| `repair/commit`, `repair/discard-candidate` | `RepairCommit`, `RepairDiscard` | – |
| `holefill/send-for-fill` | `FillBegin`, `FillFinish`, `Fails` | fill worker |
| `holefill/commit`, `holefill/discard` | `FillCommit`, `FillDiscard` | – |
| `texture/create` | `TextureBegin`, `TextureFinish`, `TextureFails` | nested worker |
| `edit/commit`, `edit/discard` | `EditCommit`, `EditDiscard` | – |
| `split/create` | `SplitBegin`, `SplitFinish`, `SplitFails` | nested worker |
| `split/commit`, `split/discard` | `SplitCommit`, `SplitDiscard` | – |
| `repair/undo` | `Undo` | – |

What an engine computes is any mesh or a failure. `RepairFinish` carries
`delivered`: a snapshot that fails to build after the candidate was registered,
or a cancellation word the host sees after the handler returned, leaves a live
candidate whose handle the page never got; `offered` says which ones it did get.
The page is the environment and may ask for anything its handles let it name.
A worker that dies takes every store with it; what the page then believes is in
`ImportLifecycle`.

### The protocol and the imports

`WorkerProtocol` has the coordinator's entries (`pending`) and, beside them, the
promises callers hold (`open`); the two FIFO channels; the shared word of each
interruptible request; and the handlers that run, which await, report, return,
fail or stop when they look at the combined token (`IsCancelled`: the word, or
the cancel message). The worker may die at any moment (`alive`); the failure
event is a later step, and `lost` is what the coordinator's client remembers. A
message that cannot be read has the same consequence. `Dispose` is kept although
`main.tsx` never calls it: the client offers it.

`ImportLifecycle` extends it. An import is a number: the page's token, its
session, and the document the worker makes of it. `ImportFile` supersedes the
session before it, `FileRead` dispatches, `ReceiveImported` installs the
document, releases the one it replaces, or releases itself when it is stale.
What the reader makes of the bytes is a success or a failure. The commit of the
document and the host's last look at the word are separate steps, because the
page writes the word from another thread.

### The page

One document on the page. `WorkspaceStore` has each method of the store that the
hooks call as an operator from a store to a store, guards included;
`WorkspacePage` has each click (`RunsAnalysis` ... `UndoesTexture`), each answer
(`Receives...`) and the worker's side of each request as an action. A hook runs
to its first await without interruption; its effects (`SubjectEffects`,
`PlanEffect`) run before the next message, as React flushes them after the state
change. The worker is `TakesRequest` for handlers without awaits and
`BeginsServing` ... `ListsOpenings` for the others, with its revision, its undo
record and one candidate per tool: the parts of `GeometryWorker` a page sees.
Subjects (revision and part) stand for handles. The store counts its tokens up;
here a token takes a number that nothing refers to any more, and a
reference to a finished attempt that is only compared is kept as 0, so the
numbers stay small and no dead number equals a live one. A second plan request that the plan effect would make for
the same verification is folded into one.

### The services

`DocumentExport` is the conversion hook, the export service's `run`, `settle`
and `teardown`, the file sink (picker, comparison, prompt, placeholder, lock,
writes, close), the geometry worker's `send-for-export` and the export worker's
chunks. `disk` is what is under the chosen name: nothing, another program's
file, the placeholder, or a saved file and how many chunks it has. Every step of
the file system may fail, other programs may write in between, the user may
cancel, commit, undo or import, and both workers may be lost. Formats that are
downloaded and formats that stream to a file are both there.

Each await of the sink at which the disk can differ from what the code knows is
a step. `LooksAgain` looks the name up a second time, `MakesFile` is the
`getFileHandle(create)` that makes the file (or takes one that appeared), and
`OwnsPlaceholder` the `getFile` after which alone the sink knows it as its own;
an await of these that rejects goes to `AcquisitionThrows`. The abort that follows
is the clean-up's look (`FindsPlaceholder`) and then `EndsAbort`, which removes
whatever is under the name by then; the look and the removal may be refused, and
the stream's own abort may fail. An acquisition that is rejected aborts first
(phase `rejecting`), one whose file changed under the lock aborts and selects
again (`retrying`), and a settled operation aborts the destination it got. The
fields `refused` and `late` of the sink are history that no step reads: the
file system refused to say what was made, to look or to remove; another program
wrote between a clean-up's look and its removal. Assumed: a file that another
program writes is not empty. An empty one made in the same instant is taken for
the placeholder, as `docs/design/EXPORT_CORE_02.md` (“New-file ownership and
cleanup”) says of the code. Notes: the
service's refusal of a second run is not reached, as the hook checks first;
`sessionRef` repeats what `op` says; the geometry worker lost during the close
rejects the export though the file is then published, but the conversion panel
is closed in the same step and says nothing false. A hole-fill commit is not held back by a conversion, while a
repair commit, an undo and an edit's undo are; the effect on the revision then
stops the export.

`BooleanOperations` is the controller: `Run` cancels the active call, starts the
nested worker and waits; `HearsReply` accepts what comes from the active worker;
`CancelArrives` and `Releases` end it. A call that was superseded fails its
request, and a handler may call again.

`MCServices` explores these two and `HistoryEviction`, which share nothing, one
at a time.

### The meshes

A mesh is a sequence of faces, a face a triple of vertices: what the analysis
works on after it has identified vertices. Coordinates are abstracted to the
triples of vertices that lie on a line. `MeshTopology` follows the code's
passes: directed edges in face order, sorted and grouped, classified; vertex
fans; the union-find with its path compression and its order of joins;
degenerate and duplicate faces. Two differences of form: a vertex's fan is one
when its faces cannot be divided (the code walks the incidence), and the sort is
the order it produces, not its radix passes.

`ConservativeRepair` is one part: `AddFace` is the file, `Analyse`, `Plan`,
`Execute` and `Commit` the requests. A plan keeps its selections and the solved
winding; execution removes, flips, rebuilds, analyses the result and validates
it against the report. "refused" here is the code's `RejectedRegression` that
names the operation refused. The mesh lists every vertex once, in the order its
faces first use them, as an indexed file does; after a removal a vertex keeps
its name. An unindexed (STL) mesh would be renumbered by the next analysis: the
properties do not depend on names, except that the union-find of the *next*
repair could meet its edges in another order. `collinear` holds all triples of
one line. Not in the model: the comparison
of areas, bounds and volume, the memory estimate, the mesh hash, finite
coordinates, and `blocked` as an outcome of an execution, which is unreachable
after a plan that says the operation is blocked.

The code looks for openings three times. `ExtractBoundaryLoops` reads the edges
of the analysis, `ScanBoundaries` a compact table of undirected edges (a count
that stops at three, the first directed edge, a conflict bit), and
`BoundaryKinds` is the classification in the report. Extraction and scan share
`LoopsOf`: components of the rim, the order of refusals, the walk. `Fill` is the
fill stage of a repair request: it starts from what the repair made (`FillBases`)
and appends a patch for each admitted opening. Which ear is cut first, whether a
rim is planar, whether openings' boxes overlap and what intersects what are
geometry; so any clipping is possible (`Clippings`) and any subset of the openings
that have a patch may be admitted (`Admissions`). What does not depend on
coordinates is kept: a diagonal may not be an edge the part has, a rim of three
edges may not be one triangle's, the patch's orientation, its Euler
characteristic, and every number the verdict compares. `EngineAccepts` is the
other engine, which fills one opening the user chose and analyses the whole
candidate. Some definitions bind a value by a set of one element where a `LET`
would do: TLC computes it once.

### Properties

* `TypeOK`: every store holds values of its kind.
* `OneLiveCandidate`: a document's live candidate is the one its slot names, and
  geometry is held exactly by live candidates.
* `AppliesToItsSource` (action): a commit replaces the very mesh its candidate
  was computed from, whatever happened between.
* `OneReadyEdit`, `ReadyEditsDescribeTheModel`: texture and split requests that
  overlap leave at most one applicable candidate, computed from the resident
  document; a split's document differs from it in one part only.
* `UndoRestoresParent`: the change Undo offers made the current revision, and
  reversing it gives the revision before it, part for part.
* `ReportsDescribeTheirMesh`: a report the cache would return describes the mesh
  the part holds, late analyses included.
* `NoGeometryOfReleasedDocuments`: the fill, edit and split stores and the
  history hold nothing of a released document.
* `RefinesAuthoritativeModel`: the whole worker is a refinement of
  `AuthoritativeModel` – documents change one revision at a time, and undo
  brings the exact previous version back.
* `EvictionKeepsUndo`, `CommitsRestoreTheCap`: eviction never takes an undo; a
  commit ends within the cap, or with undoable records alone in the list.

Protocol and imports:

* `OpenPromises`: the promises that are open are those with an entry, so what
  rejects every entry leaves no caller waiting.
* `OnePlace`: a request is never in two places, so it is answered once; and while
  the page awaits it from a connected worker it is in one – on its way, in a
  handler, or answered – so the answer will come.
* `CancelledWorkIsSilent` (action): once the word is written, no progress and no
  result is posted.
* `BarHasAnImport`, `ShownIsResident`: the bar and the model on screen.
* `OnlyCancelledAreLeft`: every resident document is shown, about to be answered
  for, or about to be released, but those of cancelled imports (finding 3).
* `ShowsTheNewest` (action): the screen only changes to the newest import.
* `ImportEnds` (liveness): a running import ends.

Page:

* `ShowsTheResidentRevision`: with no change under way, the page's revision is
  the worker's: no answer that moved the document was dropped.
* `EverySpinnerEnds`: whatever the panels show as going on has a request under
  way that will end it (a safety property: the spinner's token is that of a
  request, so no fairness is needed to state it).
* `DescribesTheModel`: report, plan, rows and candidates on screen are of the
  revision and part beside them.
* `OfferedUndoIsTheLastChange`, `OfferedFillApplies`: what is offered works.
* `OnlyCancelledAreForgotten`: every candidate the worker holds is one the page
  will release, commit or be told of, but those cancelled when registered.

Services:

* `PublishedIsTold`: failed or cancelled means that no byte of this export was
  published under the name and none downloaded – at most its own empty placeholder
  is there; saved means published whole, or downloaded.
* `LeavesNoPlaceholder` (action): an export that ends, however and whenever it was
  stopped, leaves its placeholder only if the file system refused to tell it what
  it had made, or to look at it or remove it.
* `TouchesOnlyItsOwn` (action): another program's file, or an earlier export's, is
  replaced by a whole one or by another program, and never removed – except one
  that was written between a clean-up's look and its removal.
* `PublishesWhatIsShown` (action): only the revision on screen is published.
* `EveryExportEnds` (liveness): an export ends or waits for the user's answer.
* `WaitsForTheActive`: a handler waits exactly while its call is the active one.

Meshes:

* `ComponentsAreConnected`: a component is never more than what shared edges
  join, and all of it where no edge has more than two faces.
* `SolverFindsTheOrientation`: the flips orient every piece and keep its lowest
  face; a mesh called non-orientable has no orientation at all, by trying every
  set of flips.
* `AcceptedIsRepaired`: an accepted candidate has none of the defects its plan
  said it would remove, though validation only asks that none grew.
* `RepairsTearNothing`: where no edge has more than two faces, an accepted repair
  tears no piece of the surface and loses none it did not remove whole. The plan's
  own gate asks about edges only: a face without area may hold two others together
  and its removal open no boundary on balance. (That the removals of degenerate
  faces are inert *together* is finding 6, that a component is counted right at
  other edges finding 5.)
* `OneAnswerAboutOpenings`: the scan finds the loops the extraction finds, with
  orders, faces and refusals, the report counts the same components, and a
  fillable loop is a simple one to it.
* `AdmissionAgreesWithTheEngine`: however a loop is clipped, what the automatic
  fill builds is exactly what the engine of the chosen opening accepts.
* `FillsCloseExactlyTheirOpenings`: openings admitted one by one are closed
  together, their rims and nothing else leave the boundary, no non-manifold edge
  or vertex and no winding conflict is added, and the verdict never rejects, but
  for the count of components on a mesh with a non-manifold edge (finding 5).

## Runs

| Run | Instance | States | Asks |
|---|---|---|---|
| `two_requests` | two requests: analyze and repair on two parts with revisions up to 3, texture and split on one part with revisions and generations up to 4, or, one at a time, fill and texture on two documents with revisions up to 2; two candidates per store | 406,996 | analyses and repairs that overlap commits, undo and release; overlapping requests of the two edit stores; candidates of both documents held at once, releases in either order |
| `every_tool` | one document, one request, revisions up to 3, repair, fill, texture and split | 717,024 | what each commit leaves of the other tools' candidates |
| `imports` | two imports, their releases, one report and one await each | 206,862 | imports that supersede, cancel and replace each other, with crashes |
| `page` | five setups, see below | 1,201,266 | answers overtaken by anything the user does |
| `services` | three exports over four revisions, two chunks; two requests, two documents, three calls; four documents, two descriptors | 298,137 | saving, nested workers, eviction |
| `mesh_repair` | all meshes of up to 4 faces over 5 vertices, all strips of 5 and 6 faces, a tent with a book of three pages, four loose faces, a hexagon; one committed repair and another after it | 279,348 | analysis, repair and filling |
| `released_repair` | one document | – | finding 1 |
| `stale_invalidation` | one document, two requests | – | finding 2 |
| `late_cancel` | as `imports` | – | finding 3 |
| `after_loss` | two requests of the bare protocol | – | finding 4 |
| `components` | pages bound at one vertex, 5 faces over 7 vertices | – | finding 5 |
| `degenerate_removals` | one mesh of 5 faces, two slivers and one without area | – | finding 6 |

Bounds of the worker's runs. `MaxDocuments`, `MaxRevision`, `MaxCandidates` (ids
per store) and `MaxGeneration` bound what the code counts without limit. Every
hazard of the worker needs at most: two requests in flight (one late, one new),
two candidates of one store (the one replaced and the one that replaces it),
revisions 1 to 3 (the source, a change, an undo of it or a second change), two
meshes (to tell the computed one from the replaced one), two parts (to tell an
edit of one from the other) and two new identities for a split. `MaxDescriptors`
stands for 64; two make the history evict in three commits. A run names the
tools it uses (`Workflows`) because all five at once with two requests are out
of reach; `every_tool` has all four that change geometry. Requests are
symmetric.

Bounds of the other runs. Two imports are one that supersedes and one that is
superseded. The page has five setups: all tools on one part, two revisions, two
handlers awaiting, with failures and cancellations; the same with three
revisions while nothing is upset (no failure, no cancellation, no change of the
selection); repair and texture on two parts; filling and texture on two parts
with two openings; repair and filling on two parts with three revisions, nothing
upset, one handler awaiting. `MaxWaiting` = 1: the user acts while at most one
message or handler is under way, and what one action starts may be several,
which already lets an answer be overtaken by a click whose requests it meets. Three exports are one that is cancelled, one that runs and one
after; two chunks are a first and a last one. Four faces have every edge class,
fan and duplicate combination of two defects; the strips close a loop with
either parity, and a ring has two openings that may be filled together; the
tent with a book has one opening to fill and one that is refused, and the
hexagon has more vertices than `MaxLoopVertices` = 5 lets be filled.
`MaxBoundaryEdges` = 9 stands for the limit above which the scan assembles no
loops; the four loose faces are over it.
Mesh groups are looked at in meshes of fewer than `MaxFaces` faces without collinear
vertices (`GroupsInSmallMeshes`), and collinear vertices are one line.
`MaxRepairs` = 1: a committed candidate is analysed, planned and repaired again,
and what comes out is not committed.

A property of the worker is checked in the run that can break it: those about
overlapping requests in `two_requests`, those about what one tool leaves to the
next (`AppliesToItsSource`, the refinement) in `every_tool`. The file that is
imported says which of the three pages of `two_requests` is played
(`MCWorkerSetups`); a second document is imported while the first is resident.

Deadlock is not checked: the bounds stop every behaviour, and the page may
simply stop.

Fairness. `imports`: messages are delivered both ways (a `MessagePort` does),
a handler that runs goes on (each await ends), the reading of a file ends, and
a dead worker is reported by its error event. `services`: file-system calls and
the selection end, also when the user closes the picker; the geometry worker
answers `send-for-export`; the export worker goes on and its messages are
delivered; the clean-up runs, its look and its removal end, refused or not. The user need not answer the overwrite prompt nor
ever click. `after_loss` assumes the fairness of the protocol alone (`FairProtocol`).
The other runs assume none.

## Proofs

TLAPS checks these for every set of parts, meshes, files of faces, requests, tags,
operations and page setups, any number of imports, exports and calls, and every value of
the bounds; as the bounds are arbitrary naturals, every finite behaviour of the
unbounded system is one of some instance.

| Theorem | States | Module |
|---|---|---|
| `TypeCorrect` | `Spec => []TypeOK` | `GeometryWorkerProofs` |
| `OneLiveCandidateAlways` | `Spec => []OneLiveCandidate` | `GeometryWorkerProofs` |
| `CommitsAreCurrent` | `Spec => AppliesToItsSource` | `GeometryWorkerProofs` |
| `UndoIsExact` | `Spec => []UndoRestoresParent` | `GeometryWorkerProofs` |
| `ReportsAreAccurate` | `Spec => []ReportsDescribeTheirMesh` | `GeometryWorkerProofs` |
| `NothingOutlivesItsDocument` | `Spec => []NoGeometryOfReleasedDocuments` | `WorkerEditProofs` |
| `OneEditCanApply` | `Spec => []OneReadyEdit` | `WorkerEditProofs` |
| `ReadyEditsAreCurrent` | `Spec => []ReadyEditsDescribeTheModel` | `WorkerEditProofs` |
| `WorkerImplementsModel` | `Spec => RefinesAuthoritativeModel` | `WorkerEditProofs` |
| `NoUndoIsEvicted` | `EvictionSpec => []EvictionKeepsUndo` | `ServiceProofs` |
| `CommitsEvictEnough` | `EvictionSpec => CommitsRestoreTheCap` | `ServiceProofs` |
| `TheLoopIsTheClosedForm` | `EvictionSpec => TrimIsTheLoop` | `ServiceProofs` |
| `ProtocolTypes` | every variable of the protocol keeps its kind | `ImportLifecycleProofs` |
| `PromisesAreTracked` | `OpenPromises`, for the protocol with any client | `ImportLifecycleProofs` |
| `WordSilencesTheWorker` | `CancelledWorkIsSilent`, likewise | `ImportLifecycleProofs` |
| `RequestsHaveOnePlace` | `OnePlace`, likewise | `ImportLifecycleProofs` |
| `ImportsFollowTheProtocol` | the imports implement the protocol | `ImportLifecycleProofs` |
| `ImportPromisesAreTracked` | `Spec => []OpenPromises` | `ImportLifecycleProofs` |
| `CancelledImportsAreSilent` | `Spec => CancelledWorkIsSilent` | `ImportLifecycleProofs` |
| `ImportsHaveOnePlace` | `Spec => []OnePlace` | `ImportLifecycleProofs` |
| `ImportTypes` | `Spec => []TypeOK` | `ImportLifecycleProofs` |
| `BarsHaveImports` | `Spec => []BarHasAnImport` | `ImportLifecycleProofs` |
| `NewestIsShown` | `Spec => ShowsTheNewest` | `ImportLifecycleProofs` |
| `TheShownModelIsResident` | `Spec => []ShownIsResident` | `ImportLifecycleProofs` |
| `OnlyCancelledDocumentsLeak` | `Spec => []OnlyCancelledAreLeft` | `ImportLifecycleProofs` |
| `PageTypes` | `Spec => []TypeOK` | `PageProofs` |
| `ThePageDescribesItsModel` | `Spec => []DescribesTheModel` | `PageProofs` |
| `ThePageFollowsTheWorker` | `Spec => []ShowsTheResidentRevision` | `PageProofs` |
| `UndoIsOfTheLastChange` | `Spec => []OfferedUndoIsTheLastChange` | `PageProofs` |
| `TheOfferedFillIsHeld` | `Spec => []OfferedFillApplies` | `PageProofs` |
| `WhatIsShownAsGoingOnEnds` | `Spec => []EverySpinnerEnds` | `PageWorkProofs` |
| `NoCandidateIsLost` | `Spec => []OnlyCancelledAreForgotten` | `PageWorkProofs` |
| `WaitingHandlersAreServed` | `BooleanSpec => []WaitsForTheActive` | `ServiceProofs` |
| `ExportsAreToldTruly` | `ExportSpec => []PublishedIsTold` | `ServiceProofs` |
| `ExportsLeaveNoPlaceholder` | `ExportSpec => LeavesNoPlaceholder` | `ServiceProofs` |
| `ExportsTouchOnlyTheirOwn` | `ExportSpec => TouchesOnlyItsOwn` | `ServiceProofs` |
| `ExportsPublishWhatIsShown` | `ExportSpec => PublishesWhatIsShown` | `ServiceProofs` |
| `AcceptedRepairsAreClean` | `Spec => []AcceptedIsRepaired` | `ConservativeRepairProofs` |

Assumptions, all named where the constants are declared: `NoMesh` is no mesh;
the descriptor cap is positive; what can be imported is a document; the tools
are the five known ones; interruptible operations are operations, and `NoOp` is
none (`IdsAssumption`); a page's setup has parts, none of which is the number 0,
and at least one revision (`PageAssumption`); exports have a revision and a
chunk, Boolean requests a document and a call; a face is a triple of vertices,
and a file a list of faces (`FacesAssumption`); the bounds are naturals (`BoundsAssumption`,
`HistoryAssumption`).

### The worker

The argument has three layers, and the invariant of each is inductive on top of
the ones below.

* `StoresInv`: `TypeOK`, plus what makes the stores' types survive a step. A
  slot names a live candidate of its own document (otherwise releasing it would
  settle another document's), the next id is unused (otherwise a new candidate
  would overwrite one), an undoable key has a record whose inverse is held
  (otherwise Undo would have nothing to restore), the reports of a document are
  of one revision, and `lineage` ends in the resident revision
  (`LineageIsResident`). The first lemmas of `GeometryWorkerProofs`
  prove, store by store, that each operation keeps its part and says what it leaves alone; `StoresNext` then has
  one step per handler.
* `SourcesInv`: every request in flight, live candidate and report `Describes` a
  mesh – its part held it at its revision, or the document is gone – and the
  record Undo would use restores the revision before (`Restores`). It survives
  because revisions only accumulate (`Grows`) and document ids are not reused;
  the second is why the invariant also bounds ids by `nextDocument`: without it,
  an answer for a released document could meet an imported one. Nothing is
  claimed of the *resident* revision there: a late answer is about an old one.
  The guards that compare revisions (`prepareCommit`, the report cache's `get`,
  `prepareUndo`) turn `Describes` into the three theorems.
* `TicketsInv` and `CandidatesInv`, for the two edit stores. A texture and a
  split request of one document share a generation counter, and finding 2 shows
  that the counter is reset; so uniqueness cannot be read off the generation.
  `WasIssued` is what survives: a ticket's revision is at most the document's,
  and at the document's own revision its generation is at most the counter.
  Hence a ticket that has been overtaken stays overtaken, a reset comes with a
  new revision, and `OneTicketUpToDate` is inductive: of all requests in flight
  and candidates held, one at most holds the latest ticket of the resident
  revision. `SplitsDivide` keeps that a split's document is one revision's with
  two new parts for one; `ActiveAreResident`, that no slot is of a released
  document, which is all that `NoGeometryOfReleasedDocuments` needs beside the
  slots' own shape.

`WorkerImplementsModel` maps a document to its resident parts and the version
before it, if Undo is offered (`PreviousVersions`). An import maps to
`Open`, a release to `Close`, the commit of a repair, fill or texture to
`Remesh`, that of a split to `Divide`, an undo to `Undo`, and every other
handler to a stutter: these are the lemmas to read, one per handler. The step
that needs the invariants is the undo's: that the bytes it restores are the
previous version is `Restores`.

### The eviction

`EvictionInv` says that the order lists every record once (`EachListed`), that the
undoable record of a document is its own, held, with its inverse (`UndoKept`), and
that a document has no record of a later revision (`Reached`), so that a commit adds
a record and never replaces one. `Trim` is then taken apart: the places up to
`ScanEnd` are divided into those spent and those kept (`SpentAndKept`), and
`TrimmedList` shows that the list, turned round, still names what is left, once.

`TheLoopIsTheClosedForm` is an induction over the turns. `LoopAt(g, m)` is what the
loop has before it once it has scanned `m` entries: the rest of the list, and behind
it the entries kept. One turn leads from `m` to `m + 1` (`TurnScansOneMore`), the
condition holds below `ScanEnd` and fails there (`LoopStops`), and the recursive
function of the loop is therefore this one (`LoopRuns`). The induction is by the
least element of the set of turns at which the two would differ (`LeastNatural`
of `PlaceLemmas`, from the well-foundedness of finite subsets), since the library's induction
theorems cannot be instantiated. The other theorems about the worker use `Trim`, so
this also ties them to the code's loop.

### The protocol and the imports

The first part of `ImportLifecycleProofs` is about `WorkerProtocol` alone and cites
nothing of the imports, so its theorems hold with any client. It starts from the
protocol's types, which make `pending` and the words sets of operations;
`OpenPromises` is then inductive by itself, because every action that closes a
promise removes its entry in the same step.
`WordSilencesTheWorker` follows from the guards alone: a handler posts progress
and results only after it looked at the word, and no step clears a word.
`OnePlace` counts positions of two sequences, which is no way to prove it:
`PlaceInv` says of each operation where it waits, runs or is answered, as
predicates that exclude each other, with *at most one* message of it in each
channel; a Cardinality only appears in the last step.
`ImportsFollowTheProtocol` shows that each action of the hook and the handlers
is a step of the protocol or leaves it alone, so all of this holds of the
imports without a second proof.

`BarsHaveImports` needs `HookInv`: only the import begun last can hold the token
(so a new import takes it from one older import, and what an older import's
answer does leaves it alone), and what is shown was imported. `NewestIsShown`
follows from the same invariant, because only the token's import is installed.
Residency is proved on top of four more. `BegunInv`: nothing exists of an import
that has not begun. `ResidentInv`: a result in the channel is of a resident
document, an answer to a release is of one that is gone, and only what is not
shown is released. `StoppedInv`: the worker is told to stop only what the page
stopped. `LeftInv` is `OnlyCancelledAreLeft` itself, which needs `PlaceInv`
to know that the result of a resident document nobody shows is still to be
received, and `StoppedInv` to blame a leak on a cancelled session.

### The page

What is on screen is right because of what may still arrive, so the invariant
`PageIInv` speaks of the requests under way, wherever they are (in the queue, in
a handler, or in an answer).

* `PageInv`: each slice of the store shows the model beside it (`StoreInv`), and
  a plan or build request whose token is the slice's own is about the model on
  screen (`RequestOf`). The answer's guard compares the token alone, so this is
  what makes it safe. A request whose token is not current is free to be about
  anything: it is only ever compared.
* `ListsOf`: the same for a list of openings, plus that none is on screen yet.
  It needs a part of its own: a change of the document does not clear the hole
  fill slice's token, so between the change and the effects that follow it a
  stale list request *is* current, and the clause holds only when `Settled` – the
  effects have run for the model on screen. The effects run in the same step,
  before the next answer (`EffectsRun`), and they always start a listing then.
* `VersionInv`: the page's revision is the worker's, or one less while the answer
  of exactly one accepted change is on its way to it, which was made of the
  revision on screen (`MoveOf`). A worker that accepts a change compares the
  request's revision with its own; as no request is about a later revision than
  the page's (`RequestOf`), no other change can be on its way then. The same
  clause carries the undo record, which gives `UndoIsOfTheLastChange`.
* `ChannelInv`: before the first effects nothing is under way, and the sets of
  requests and words are finite, so that a fresh token exists (`FreshToken`).

The proof has the shape of the code: one lemma per operation of the store
(`RepairOperations`, `HoleFillOperations`, ...), one per piece a hook is made of
(posting, stopping, releasing a candidate, starting an analysis), one per click
and answer, and `HandlerEnds`, which adds the effects and the channels to any
of them. `Offers` records on the way that a handler which does not install a
change offers nothing more to undo.

`TheOfferedFillIsHeld` needs a second invariant, `FillInv`, because the slot the
worker keeps a fill in is shared by every fill of the document and a fill, unlike
a repair, is cancelled by a message and not by a shared word:

* `Queue`: the page runs at most one fill; every other one that waits or is being
  served has its stop behind it in the channel, and the next fill waits behind
  that stop. So the worker never serves two fills, and when the one the page runs
  has answered, none is left that could still take the slot (`NoFill`).
* `Previewed`: what is shown as ready is what the worker holds, unless the answer
  of a change is on its way (`Held`); and nothing is left to replace it.
* `Returned`: the same of the answer that is about to be shown. It says so only
  of an answer about the revision on screen: `ReceivesFill` compares the two.
* `Discarded`: no discard in the channel is of the shown candidate or of the one
  that is being built.
* `AskedBefore`: fills have a token, and none is of a later revision than the
  page's – a fill answered after a change is not mistaken for a current one.

`WhatIsShownAsGoingOnEnds` and `NoCandidateIsLost` go the other way: not that a
request is of what is shown, but that what is shown, or held, has its request.
`WorksInv` is one conjunct per thing that waits:

* `AnalysisEnds`, `PlanEnds`, `RepairEnds`, `FillEnds`, `TextureEnds`: a slice that
  shows work, or has claimed a change, has the request whose answer ends it under
  way. A token alone is not enough, as a slice may give up a token and keep the
  work on screen: so `RepairEnds` also says that no plan carries the token of a
  build (the answer of the plan would end the build's attempt), and `FillEnds`
  that the fill a panel waits for is the one the page runs, of the subject and
  opening on screen (the answer is dropped otherwise), and that once the effects
  have listed the openings again no earlier fill has the token of the listing.
* `RepairFate`, `FillFate`: a candidate that the worker holds is the one the page
  has noted as live, or its build or fill is under way, or its discard is, or it
  was cancelled. The page writes the note when it hears of the candidate, and the
  worker forgets it when it is discarded, replaced or committed, so the four can
  only be kept together: `RepairEnds` adds that a new build starts after the note
  is given up (the discard is posted first), `FillFate` that a fill the page no
  longer runs was stopped.

Two facts about the worker's side make the steps of the worker and the order of
the answers safe (`JobInv`):

* `Once`: a build or fill is in one place – the queue, the handlers or the answers
  – and there once, so that answering it takes away nothing else's request; and
  `Unbuilt`: what still waits, or has failed, has made no candidate.
* `Behind`: the answer of an applied change that is on its way is ahead of the
  answer of any candidate registered since. The page gives up its note when it
  hears of the change, so a candidate of the new revision must not be noted
  before; the channel is first in, first out, and so it is not.
* `HaveWords`: the worker calls a build cancelled only if the page said so.

A handler of the page does several things in a row, so the lemmas carry the
conjuncts through its pieces with the requests it has yet to post counted as
under way (`Works` takes them as a parameter), and through the effects that
follow it, between which a plan may be due and not asked for yet. What a handler
posts is new, and so are its numbers (`FreshNumber`); this, with `Once`, is why no
earlier answer is taken for a later attempt.

### The services

`CallsInv` identifies the active call with the last call of the one handler that
waits; the nested worker runs that call and no other.

`ExportInv` is one conjunction, because the parts only hold together: `SinkInv`
ties the destination to the operation (it closes exactly while the operation
commits), `WorkInv` the export worker to what has been written (what it has
posted is what the file holds and at most one chunk under way), `TokenInv` the
panel to the operation (a token names the busy operation, whose revision is the
one on screen until it commits), `DiskInv` who put what under the file's name.
A placeholder of the running operation is known to the sink as its own, or about
to be, unless the file system refused (`Owned`): that is why the abort finds it,
and `ExportsLeaveNoPlaceholder` follows. What the clean-up is removing is that
placeholder or, with `late`, what was written over it; with it a removal touches
nothing else.
A saved file is whole because it is closed only after the last chunk; a failure
publishes nothing because a destination is never closed for an operation that
has been settled, except one that committed first – and then the panel has been
closed, which `PublishedIsTold` has to know.

### The repair

The stages of a repair are selected on the source, the flips are solved on what
the safe removals leave, and the verdict compares the numbers of two reports. So
that nothing is left of what the plan announced is not what any one step checks.
`AcceptedRepairsAreClean` is proved for every file, of any number of faces.

`RepairInv` is inductive: the report's count of reversed copies is this mesh's;
the plan selects all that its announced removals select (`IsSelected`); an
accepted result is clean (`IsResult`). What the steps need:

* *What a rebuild leaves.* `SurvivorsInOrder` and `Rebuilt`: the faces that stay,
  in their order, flipped or not. Faces without three corners or without area are
  known by their corners, and a flip changes none; so the removals of these two
  stages are complete whatever else runs.
* *Copies.* Without flips no copy is left, because the selection takes every face
  that an earlier one has the way round of (`NothingFlipped`). But a flip may turn
  one of two opposite faces into a copy of the other, and no stage selects it. The
  verdict's count of reversed copies excludes that. Of every triangle the
  removals leave one face or two opposite ones (`TwoWaysRound`, `OneExtraCopy`),
  and each pair that is left tells of a reversed copy of the source's own
  (`ReversedInSource`): so there are no more such pairs than reversed copies
  counted before (`AsManyReversed`). If the count after the flips is the same,
  every pair is still a reversed one, and none is a copy (`NoCopyIsLeft`). The
  numbers are compared as cardinalities of finite sets; no face is matched with
  another in the code or in the proof.
* *Winding.* The count of conflicts that the verdict wants to be 0 is that of the
  rebuilt mesh (`OrientedByCount`).
* *The fill.* It adds patches behind the faces of the source (`Appended`). Every
  copy of the source is one of the result; equal numbers of both kinds therefore
  mean the same copies (`NoExtraCopyAdded`, `FilledIsClean`), but only because both sets
  are finite: `ScansAreFinite` and `AdmissionsAreFinite`, down to the rim of an
  opening, are there for that.

The proof says nothing of how the flips are found or the openings are clipped; it holds
whatever the solver and the clipping answer. That they answer well is what
`SolverFindsTheOrientation` and `AdmissionAgreesWithTheEngine` check.

### Only proved

`TrimIsTheLoop` – the closed form of the eviction is what the loop of `trim`
leaves, and the loop ends – holds of lists of every length
(`TheLoopIsTheClosedForm`), so no run repeats it on short ones.

### Only model-checked

* the other mesh properties of `mesh_repair`: they say what folds over sets of
  faces compute (the trees of the components, the flips, the loops, the
  clippings), library operators that the provers cannot expand. A least-element
  argument replaces induction over numbers (as for the eviction) but not over
  what such an operator returns;
* liveness under fairness (`ImportEnds`, `EveryExportEnds`), also out of reach.

## Findings

1. `released_repair`. `modelReleaseHandler`
   (`WEB/workers/stl-handlers.ts:726-744`) releases the hole-fill, edit and split
   candidates and the history of a document but not its repair candidate. Its
   comment says “A candidate for a released document can never be committed …
   so retaining a whole part's geometry for it would be a leak with no upside.”
   The repair candidate, a whole part's geometry, stays live until the worker
   ends: ids are not reused, so nothing replaces it in its slot.
2. `stale_invalidation`. `GeometryEditStore.releaseDocument` deletes the
   document's generation, and a repair commit, a fill commit and an undo call it.
   The next request gets generation 1 again. A texture request begun *before* the
   commit and failing after it compares its generation alone
   (`GR/geometry-edit.ts:286`), finds it equal, and ends the new request: its
   result is then refused as superseded. The comment at line 284 says “Invalidate
   this operation only when it is still the latest request.” Nothing wrong is
   applied (`OneReadyEdit` and `ReadyEditsDescribeTheModel` hold, because
   readiness compares revisions too); a valid request is lost.

3. `late_cancel`. The import handler commits its document, then the host looks at
   the cancellation once more (`GR/worker-host.ts:195`) and answers `cancelled`
   if the page wrote the word meanwhile. The page never learns the id, so nobody
   releases the document, against the hook's comment: “a discarded import does
   not leave a model resident in the worker forever”. The same last look follows
   a repair build whose candidate is registered.
4. `after_loss`. `handleWorkerLoss` (`WEB/runtime/geometry-client.ts:170`) rejects
   what is pending once; a request dispatched afterwards hangs, though the status
   message asks the user to import again.
5. `components`. `analyseComponents` reads the root of an edge's first face once
   per edge (`packages/mesh-topology/src/components.ts:63`). At an edge of three
   or more faces, joining a tree with a smaller root makes that root stale, and
   the next face re-parents it, cutting off the tree joined before. Five faces
   round one vertex, all joined by shared edges, are reported as two components;
   the comment says they “genuinely are edge-connected”. Meshes whose edges have
   at most two faces are counted right (`ComponentsAreConnected`), and no
   component is ever too large. The two verdicts compare this count before and
   after: on a mesh with such an edge a repair that tears a piece may be accepted
   (five faces are enough, slivers among them), and a good fill be rejected with
   `Components` (of the meshes sampled at random, one of twelve faces). Both take
   more faces than `mesh_repair` has, so `RepairsTearNothing` and
   `FillsCloseExactlyTheirOpenings` leave such meshes out by name rather than
   hold because of the bound.
6. `degenerate_removals`. `isDegenerateRemovalSafe` is asked of each of the two
   removals of degenerate faces alone (`packages/mesh-repair/src/prepare.ts:101`),
   and all safe ones run together. Where a sliver, a face without area and an
   ordinary face share an edge, either may go, but not both: the edge is opened.
   The validation compares the candidate with a prediction that has the open edge
   as well, and accepts, against `docs/repair/REPAIR_ARCHITECTURE.md:288`
   (“refused outright if it would open a boundary … It must be topologically
   inert”) and the comment at `predict.ts:116-119`. It takes five faces (with four
   the sliver's own self-edge, which the report counts as boundary, leaves with
   it and balances the count).

Noticed, and not given a run:

* `releaseFillPlans` is called by a repair's commit alone
  (`WEB/workers/repair-handlers.ts:761`), so up to four cached plans keep the
  meshes of documents that were released or changed otherwise;
* a repair candidate whose reply is never delivered stays live until another one
  of its document replaces it or a texture is committed; a repair that ends late
  replaces the newer candidate in the slot; an analysis that ends after its
  document's release stores its report again;
* `RepairIsIdempotent` (defined in `ConservativeRepair`; `MCMeshRepair.cfg` is
  the instance): of the faces <<1,1,2>>, <<1,2,3>>, <<1,2,4>> a repair removes the
  sliver, which leaves an ordinary edge whose faces disagree where there was a
  non-manifold one; the report had no winding conflict, so the plan did not flip,
  and a second repair does. `prepare.ts:24-28` solves the winding after the
  removals for this very reason, but the decision reads the report's count;
* `RefusalsAreSkipped` (likewise): when the plan refuses one stage and another
  runs, the execution ends at the refused one with nothing repaired
  (`pipeline.ts:100-106`, “The plan should already have refused this”);
* the plan counts duplicates as the report does and removes as the selection
  does; for a triangle twice in each orientation the two differ
  (`operations.ts:65-66`). Removing a zero-area face that is a reversed duplicate
  is rejected as `ReversedDuplicatesChanged`;
* an attempt that was superseded clears the refs of the attempt that runs when it
  ends (`WEB/state/use-conservative-repair.ts:320-321`, `384-386`): the Cancel
  button of the newer one does nothing. The clean-up effects at lines 240-255
  compare a captured document id. A fill cancelled while its answer is in transit
  leaves its candidate in the worker's slot until the next one. `selectPart`
  drops the offered undo although the worker could still reverse the change;
* the export's sink makes its file (`WEB/runtime/export-file-sink.ts:130`) before it
  knows it as its own (lines 131-136): if `getFile` rejects between, the clean-up
  (line 99) removes nothing and an empty file stays. It also stays when the
  clean-up's look or removal rejects, and a file that another program writes
  between the two (lines 100-103) is removed. `docs/design/EXPORT_CORE_02.md`
  admits the last two; the properties name all three.

None of these puts geometry in the place of another or of another revision.
Findings 5 and 6 let a repair be offered, and applied, that opens an edge or tears
a piece of a mesh that was degenerate or non-manifold to begin with.

## What is not modelled

* the engines' numbers: texturing, splitting, filling and the intersection
  kernel are floating-point code; here they answer any mesh or fail;
* vertex identity, areas, volumes and bounds of the analysis; planarity, the
  choice of ears and the intersection predicates of a fill; the local region a
  chosen opening is checked in;
* handlers that only read: lists of loops, previews, diagnostics;
* the parsers and writers of the file formats (sequential, no state between
  files) and the memory budget (sums against limits): a success or a failure;
* on the page: the split and self-intersection hooks (they read, or follow the
  texture hook), rim and patch previews, overlays, status messages, the legacy
  export of one part, rendering and components;
* the plan cache of `WEB/workers/boundary-fill.ts`: an entry answers only for the
  very mesh object it was planned from, so no order of use can make it wrong;
* the evaluation harness: not part of the running program.

The share of the repository that is parsing, numeric kernels, rendering, user
interface, the offline evaluation harness and their data tables is most of its
lines; the state machines of the program are what these modules cover.

## Plan

1. Lemmas about single passes of the mesh analysis that need no induction, as
   `Rebuilt` is for removals and flips: what one ear clipped leaves of a rim, what
   one join leaves of the trees.
