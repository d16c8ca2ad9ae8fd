--------------------------- MODULE GeometryWorker ---------------------------
(***************************************************************************)
(* The geometry worker: the authoritative documents, the four stores of     *)
(* proposed geometry, the undo history and the report cache, and every      *)
(* handler that changes them.                                               *)
(*                                                                         *)
(* The worker is one thread.  A handler that never awaits is one action.    *)
(* A handler that awaits (an engine, a nested worker, the event loop) is a  *)
(* Begin action, up to its first await, and a Finish or Fails action, after *)
(* its last one; between them any other handler may run.  `running` holds   *)
(* what such a handler captured before it awaited.                          *)
(*                                                                         *)
(* The page is the environment: it may ask for anything its handles let it  *)
(* name, in any order.  A request the guards refuse throws before it        *)
(* changes anything, so it is no step.                                      *)
(***************************************************************************)
EXTENDS CandidateStore, GeometryEdits, RepairHistory, TopologyReports

CONSTANTS Requests,        \* names for requests in flight
          Tags,            \* plan hashes and opening ids
          Imports,         \* documents the page's files contain
          Workflows,       \* tools the page uses in this instance
          MaxDocuments, MaxRevision, MaxCandidates, MaxGeneration  \* bounds

ASSUME ImportsAssumption == Imports \subseteq DocumentParts
ASSUME WorkflowsAssumption ==
    Workflows \subseteq {"analyze", "repair", "fill", "texture", "split"}

ASSUME BoundsAssumption ==
    {MaxDocuments, MaxRevision, MaxCandidates, MaxGeneration} \subseteq Nat

VARIABLES
    resident,          \* document -> [revision, parts]
    nextDocument,      \* the next document id; ids are never reused
    running,           \* request -> what its handler holds across its awaits
    topologyReports, repairCandidates, holeFillCandidates,
    geometryEdits, splitCandidates, repairHistory,
    offered,           \* repair candidates whose reply reached the page
    lineage            \* document -> its parts at every revision (no code)

stores == <<repairCandidates, holeFillCandidates, geometryEdits, splitCandidates>>
vars == <<resident, nextDocument, running, topologyReports, repairCandidates,
          holeFillCandidates, geometryEdits, splitCandidates, repairHistory,
          offered, lineage>>

Parts(documentId) == resident[documentId].parts
Revision(documentId) == resident[documentId].revision
Current(documentId) == Handle(documentId, Revision(documentId))

(* ResidentDocumentStore.has: the handle still resolves. *)
Has(source) ==
    /\ source.documentId \in DOMAIN resident
    /\ Revision(source.documentId) = source.revision

SourceOf(ticket) == Handle(ticket.documentId, ticket.revision)

(* resolvePart, for a caller that names the current revision. *)
HasPart(documentId, partId) ==
    documentId \in DOMAIN resident /\ partId \in DOMAIN Parts(documentId)

(* ResidentDocumentStore.replace, whose caller has checked the handle. *)
Replace(documentId, parts) ==
    /\ Revision(documentId) < MaxRevision
    /\ resident' = [resident EXCEPT ![documentId] =
                      [revision |-> @.revision + 1, parts |-> parts]]
    /\ lineage' = [lineage EXCEPT ![documentId] = Append(@, parts)]

(* What a commit's undo record is filed under. *)
NextKey(documentId) == Handle(documentId, Revision(documentId) + 1)

Start(r, ticket) ==
    /\ r \notin DOMAIN running
    /\ running' = Put(running, r, ticket)

IsRunning(r, op) == r \in DOMAIN running /\ running[r].op = op

Ends(r) == running' = Remove(running, r)
-----------------------------------------------------------------------------
Init ==
    /\ resident = NoEntries
    /\ nextDocument = 1
    /\ running = NoEntries
    /\ topologyReports = NoEntries
    /\ repairCandidates = EmptyStore
    /\ holeFillCandidates = EmptyStore
    /\ geometryEdits = NoEdits
    /\ splitCandidates = NoSplits
    /\ repairHistory = NoHistory
    /\ offered = {}
    /\ lineage = NoEntries

(* The last step of model/import: a validated document becomes resident. *)
Import(parts) ==
    /\ nextDocument <= MaxDocuments
    /\ resident' = Put(resident, nextDocument, [revision |-> 1, parts |-> parts])
    /\ lineage' = Put(lineage, nextDocument, <<parts>>)
    /\ nextDocument' = nextDocument + 1
    /\ UNCHANGED <<running, topologyReports, stores, repairHistory, offered>>

(* model/release. *)
Release(d) ==
    /\ d \in DOMAIN resident
    /\ resident' = Remove(resident, d)
    /\ lineage' = Remove(lineage, d)
    /\ repairHistory' = ReleaseHistory(repairHistory, d)
    /\ holeFillCandidates' = ReleaseCandidate(holeFillCandidates, d)
    /\ splitCandidates' = DropActive(splitCandidates, d)
    /\ geometryEdits' = ReleaseEdits(geometryEdits, d)
    /\ topologyReports' = DropReports(topologyReports, d)
    /\ UNCHANGED <<nextDocument, running, repairCandidates, offered>>

(* A handler that awaits throws: cancelled, refused or its engine failed.   *)
(* Those of analyze, repair and fill leave nothing behind.                  *)
Fails(r) ==
    /\ r \in DOMAIN running
    /\ running[r].op \in {"analyze", "repair", "fill"}
    /\ Ends(r)
    /\ UNCHANGED <<resident, nextDocument, topologyReports, stores,
                   repairHistory, offered, lineage>>
-----------------------------------------------------------------------------
(* Topology reports *)

Ticket(op, d, p) ==
    [op |-> op, documentId |-> d, revision |-> Revision(d), partId |-> p,
     generation |-> 0, base |-> Parts(d)[p], report |-> NoMesh]

AnalyzeBegin(r, d, p) ==
    /\ "analyze" \in Workflows /\ HasPart(d, p)
    /\ Start(r, Ticket("analyze", d, p))
    /\ UNCHANGED <<resident, nextDocument, topologyReports, stores,
                   repairHistory, offered, lineage>>

(* The report is stored without resolving the handle again. *)
AnalyzeFinish(r) ==
    /\ IsRunning(r, "analyze")
    /\ topologyReports' = StoreReport(topologyReports, SourceOf(running[r]),
                                      running[r].partId, running[r].base)
    /\ Ends(r)
    /\ UNCHANGED <<resident, nextDocument, stores, repairHistory, offered, lineage>>

(* reportFor: the cached report, or one computed now and cached. *)
ReportFor(d, p) ==
    IF CachedReport(topologyReports, Current(d), p) # NoMesh
    THEN [mesh |-> CachedReport(topologyReports, Current(d), p),
          cache |-> topologyReports]
    ELSE [mesh |-> Parts(d)[p],
          cache |-> StoreReport(topologyReports, Current(d), p, Parts(d)[p])]
-----------------------------------------------------------------------------
(* Conservative repair *)

(* repair/plan keeps nothing but the report. *)
RepairPlan(d, p) ==
    /\ "repair" \in Workflows /\ HasPart(d, p)
    /\ CachedReport(topologyReports, Current(d), p) = NoMesh
    /\ topologyReports' = ReportFor(d, p).cache
    /\ UNCHANGED <<resident, nextDocument, running, stores, repairHistory,
                   offered, lineage>>

RepairBegin(r, d, p) ==
    /\ "repair" \in Workflows /\ HasPart(d, p)
    /\ topologyReports' = ReportFor(d, p).cache
    /\ Start(r, [Ticket("repair", d, p) EXCEPT !.report = ReportFor(d, p).mesh])
    /\ UNCHANGED <<resident, nextDocument, stores, repairHistory, offered, lineage>>

(* The pipeline's result was accepted.  The handle is not resolved again.   *)
(* After the candidate is registered its snapshot may still fail to build,  *)
(* or the page may set the shared cancellation word before the host looks   *)
(* at it; then the page gets no handle to the candidate.                    *)
RepairFinish(r, mesh, tag, delivered) ==
    /\ IsRunning(r, "repair")
    /\ repairCandidates.nextId <= MaxCandidates
    /\ repairCandidates' =
         CreateCandidate(repairCandidates, SourceOf(running[r]),
                         running[r].partId, tag, running[r].base, mesh)
    /\ offered' = offered \cup (IF delivered THEN {repairCandidates.nextId} ELSE {})
    /\ Ends(r)
    /\ UNCHANGED <<resident, nextDocument, topologyReports, holeFillCandidates,
                   geometryEdits, splitCandidates, repairHistory, lineage>>

RepairDiscard(id) ==
    /\ id \in offered /\ IsLive(repairCandidates, id)
    /\ repairCandidates' = Discard(repairCandidates, id)
    /\ UNCHANGED <<resident, nextDocument, running, topologyReports,
                   holeFillCandidates, geometryEdits, splitCandidates,
                   repairHistory, offered, lineage>>

(* `expected` is the part the caller names; the candidate says which part.  *)
RepairCommit(id, source, expected, tag) ==
    LET d == source.documentId
        p == repairCandidates.entries[id].partId
    IN
    /\ id \in offered
    /\ Has(source)
    /\ MayCommit(repairCandidates, id, source, expected, tag, Revision(d))
    /\ p \in DOMAIN Parts(d)
    /\ Replace(d, WithPartMesh(Parts(d), p, repairCandidates.entries[id].mesh))
    /\ repairCandidates' = MarkCommitted(repairCandidates, id)
    /\ repairHistory' = Record(repairHistory, NextKey(d), p, source.revision,
                               Parts(d)[p], NoParts)
    /\ holeFillCandidates' = ReleaseCandidate(holeFillCandidates, d)
    /\ geometryEdits' = ReleaseEdits(geometryEdits, d)
    /\ UNCHANGED <<nextDocument, running, topologyReports, splitCandidates, offered>>
-----------------------------------------------------------------------------
(* Hole filling *)

FillBegin(r, d, p) ==
    /\ "fill" \in Workflows /\ HasPart(d, p)
    /\ Start(r, Ticket("fill", d, p))
    /\ UNCHANGED <<resident, nextDocument, topologyReports, stores,
                   repairHistory, offered, lineage>>

(* The fill worker answered with geometry.  The answer is dropped when the  *)
(* revision moved, or when its source bytes are not the resident ones.      *)
FillFinish(r, mesh, tag) ==
    LET source == SourceOf(running[r])
        p      == running[r].partId
    IN
    /\ IsRunning(r, "fill")
    /\ holeFillCandidates.nextId <= MaxCandidates
    /\ holeFillCandidates' =
         IF /\ Has(source)
            /\ p \in DOMAIN Parts(source.documentId)
            /\ Parts(source.documentId)[p] = running[r].base
         THEN CreateCandidate(holeFillCandidates, source, p, tag, running[r].base, mesh)
         ELSE holeFillCandidates
    /\ Ends(r)
    /\ UNCHANGED <<resident, nextDocument, topologyReports, repairCandidates,
                   geometryEdits, splitCandidates, repairHistory, offered, lineage>>

FillDiscard(id) ==
    /\ IsLive(holeFillCandidates, id)
    /\ holeFillCandidates' = Discard(holeFillCandidates, id)
    /\ UNCHANGED <<resident, nextDocument, running, topologyReports,
                   repairCandidates, geometryEdits, splitCandidates,
                   repairHistory, offered, lineage>>

FillCommit(id, source, expected, tag) ==
    LET d == source.documentId
        p == holeFillCandidates.entries[id].partId
    IN
    /\ Has(source)
    /\ MayCommit(holeFillCandidates, id, source, expected, tag, Revision(d))
    /\ p \in DOMAIN Parts(d)
    /\ Replace(d, WithPartMesh(Parts(d), p, holeFillCandidates.entries[id].mesh))
    /\ holeFillCandidates' = MarkCommitted(holeFillCandidates, id)
    /\ geometryEdits' = ReleaseEdits(geometryEdits, d)
    /\ repairHistory' = Record(repairHistory, NextKey(d), p, source.revision,
                               Parts(d)[p], NoParts)
    /\ UNCHANGED <<nextDocument, running, topologyReports, repairCandidates,
                   splitCandidates, offered>>
-----------------------------------------------------------------------------
(* Texture and split *)

EditTicket(d, p) ==
    [documentId |-> d, revision |-> Revision(d), partId |-> p,
     generation |-> Generation(geometryEdits, d) + 1]

TicketOf(running_r) ==
    [documentId |-> running_r.documentId, revision |-> running_r.revision,
     partId |-> running_r.partId, generation |-> running_r.generation]

(* requireReady and require: the ticket is the latest and still resolves. *)
IsReady(store, id) ==
    /\ id \in DOMAIN store.candidates
    /\ IsLatest(geometryEdits, store.candidates[id].ticket)
    /\ Has(SourceOf(store.candidates[id].ticket))

StartEdit(r, op, d, p) ==
    /\ op \in Workflows /\ HasPart(d, p)
    /\ Generation(geometryEdits, d) < MaxGeneration
    /\ Start(r, [Ticket(op, d, p) EXCEPT
                   !.generation = EditTicket(d, p).generation])
    /\ geometryEdits' = BeginEdit(geometryEdits, d)

TextureBegin(r, d, p) ==
    /\ StartEdit(r, "texture", d, p)
    /\ UNCHANGED <<resident, nextDocument, topologyReports, repairCandidates,
                   holeFillCandidates, splitCandidates, repairHistory, offered, lineage>>

(* The engine answered and resolve accepted the mesh; a preview snapshot    *)
(* that then fails to build invalidates the request as any failure does.    *)
TextureFinish(r, mesh, rendered) ==
    LET ticket   == TicketOf(running[r])
        resolved == AddCandidate(geometryEdits, ticket, running[r].base, mesh)
    IN
    /\ IsRunning(r, "texture")
    /\ geometryEdits.nextId <= MaxCandidates
    /\ IsLatest(geometryEdits, ticket) /\ Has(SourceOf(ticket))
    /\ geometryEdits' = IF rendered THEN resolved ELSE Invalidate(resolved, ticket)
    /\ Ends(r)
    /\ UNCHANGED <<resident, nextDocument, topologyReports, repairCandidates,
                   holeFillCandidates, splitCandidates, repairHistory, offered, lineage>>

(* The engine refused, was cancelled or lost its nested worker, or resolve  *)
(* refused a result that is no longer the latest.                           *)
TextureFails(r) ==
    /\ IsRunning(r, "texture")
    /\ geometryEdits' = Invalidate(geometryEdits, TicketOf(running[r]))
    /\ Ends(r)
    /\ UNCHANGED <<resident, nextDocument, topologyReports, repairCandidates,
                   holeFillCandidates, splitCandidates, repairHistory, offered, lineage>>

EditDiscard(id) ==
    /\ id \in DOMAIN geometryEdits.candidates
    /\ geometryEdits' = DropCandidate(geometryEdits, id)
    /\ UNCHANGED <<resident, nextDocument, running, topologyReports,
                   repairCandidates, holeFillCandidates, splitCandidates,
                   repairHistory, offered, lineage>>

EditCommit(id, source, p) ==
    LET d == source.documentId
        candidate == geometryEdits.candidates[id]
    IN
    /\ IsReady(geometryEdits, id)
    /\ source = SourceOf(candidate.ticket) /\ p = candidate.ticket.partId
    /\ Has(source) /\ HasPart(d, p)
    /\ Replace(d, WithPartMesh(Parts(d), p, candidate.result))
    /\ geometryEdits' = ConsumeCandidate(geometryEdits, id)
    /\ repairHistory' = Record(repairHistory, NextKey(d), p, source.revision,
                               Parts(d)[p], NoParts)
    /\ holeFillCandidates' = ReleaseCandidate(holeFillCandidates, d)
    /\ repairCandidates' = ReleaseCandidate(repairCandidates, d)
    /\ UNCHANGED <<nextDocument, running, topologyReports, splitCandidates, offered>>

SplitBegin(r, d, p) ==
    /\ StartEdit(r, "split", d, p)
    /\ splitCandidates' = DropActive(splitCandidates, d)
    /\ UNCHANGED <<resident, nextDocument, topologyReports, repairCandidates,
                   holeFillCandidates, repairHistory, offered, lineage>>

(* The pieces get identities no part of the document has (uniquePartId). *)
FreshPieces(d) ==
    {ids \in (PartIds \ DOMAIN Parts(d)) \X (PartIds \ DOMAIN Parts(d)) :
        ids[1] # ids[2]}

SplitFails(r) ==
    /\ IsRunning(r, "split")
    /\ splitCandidates' = DropFailedSplit(splitCandidates, TicketOf(running[r]))
    /\ geometryEdits' = Invalidate(geometryEdits, TicketOf(running[r]))
    /\ Ends(r)
    /\ UNCHANGED <<resident, nextDocument, topologyReports, repairCandidates,
                   holeFillCandidates, repairHistory, offered, lineage>>

(* The engine answered and resolve accepted the pieces; a preview that then *)
(* fails to build drops the candidate as a failure does.                    *)
SplitFinish(r, ids, meshA, meshB, rendered) ==
    LET ticket == TicketOf(running[r])
        d      == ticket.documentId
        pieces == WithPieces(Parts(d), ticket.partId, ids[1], meshA, ids[2], meshB)
        added  == AddCandidate(splitCandidates, ticket, running[r].base, pieces)
    IN
    /\ IsRunning(r, "split")
    /\ splitCandidates.nextId <= MaxCandidates
    /\ IsLatest(geometryEdits, ticket) /\ Has(SourceOf(ticket))
    /\ ticket.partId \in DOMAIN Parts(d)
    /\ ids \in FreshPieces(d)
    /\ splitCandidates' = IF rendered THEN added ELSE DropFailedSplit(added, ticket)
    /\ geometryEdits' = IF rendered THEN geometryEdits
                        ELSE Invalidate(geometryEdits, ticket)
    /\ Ends(r)
    /\ UNCHANGED <<resident, nextDocument, topologyReports, repairCandidates,
                   holeFillCandidates, repairHistory, offered, lineage>>

SplitDiscard(id) ==
    /\ id \in DOMAIN splitCandidates.candidates
    /\ splitCandidates' = DropCandidate(splitCandidates, id)
    /\ geometryEdits' = Invalidate(geometryEdits, splitCandidates.candidates[id].ticket)
    /\ UNCHANGED <<resident, nextDocument, running, topologyReports,
                   repairCandidates, holeFillCandidates, repairHistory,
                   offered, lineage>>

(* No other store is told that the document changed. *)
SplitCommit(id, source, p) ==
    LET d == source.documentId
        candidate == splitCandidates.candidates[id]
    IN
    /\ IsReady(splitCandidates, id)
    /\ source = SourceOf(candidate.ticket) /\ p = candidate.ticket.partId
    /\ Has(source) /\ HasPart(d, p)
    /\ Replace(d, candidate.result)
    /\ splitCandidates' = ConsumeCandidate(splitCandidates, id)
    /\ repairHistory' = Record(repairHistory, NextKey(d), p, source.revision,
                               Parts(d)[p], Parts(d))
    /\ UNCHANGED <<nextDocument, running, topologyReports, repairCandidates,
                   holeFillCandidates, geometryEdits, offered>>
-----------------------------------------------------------------------------
(* Undo *)

(* Mutant of Restored: a split is undone as if it had changed one mesh. *)
RestoredPart(record, parts) ==
    WithPartMesh(parts, record.partId, record.previousMesh)

(* The document a record restores, given the one it is undone in. *)
Restored(record, parts) ==
    IF record.previousParts # NoParts THEN record.previousParts
    ELSE WithPartMesh(parts, record.partId, record.previousMesh)

Undo(key, source) ==
    LET d == source.documentId
        record == repairHistory.records[key]
    IN
    /\ Has(source)
    /\ MayUndo(repairHistory, key, source, Revision(d))
    /\ record.previousParts # NoParts \/ record.partId \in DOMAIN Parts(d)
    /\ Replace(d, Restored(record, Parts(d)))
    /\ repairHistory' = ReleaseRecord(repairHistory, key, "undone")
    /\ holeFillCandidates' = ReleaseCandidate(holeFillCandidates, d)
    /\ splitCandidates' = DropActive(splitCandidates, d)
    /\ geometryEdits' = ReleaseEdits(geometryEdits, d)
    /\ UNCHANGED <<nextDocument, running, topologyReports, repairCandidates, offered>>
-----------------------------------------------------------------------------
Documents == 1..MaxDocuments
CandidateIds == 1..MaxCandidates
Handles == [documentId : Documents, revision : 1..MaxRevision]

BeginStep ==
    \E r \in Requests, d \in Documents, p \in PartIds :
        \/ AnalyzeBegin(r, d, p)
        \/ RepairBegin(r, d, p)
        \/ FillBegin(r, d, p)
        \/ TextureBegin(r, d, p)
        \/ SplitBegin(r, d, p)

FinishStep ==
    \E r \in Requests :
        \/ AnalyzeFinish(r)
        \/ \E mesh \in Meshes, tag \in Tags, delivered \in BOOLEAN :
              RepairFinish(r, mesh, tag, delivered)
        \/ \E mesh \in Meshes, tag \in Tags : FillFinish(r, mesh, tag)
        \/ \E mesh \in Meshes, rendered \in BOOLEAN : TextureFinish(r, mesh, rendered)
        \/ \E ids \in PartIds \X PartIds, meshA, meshB \in Meshes, rendered \in BOOLEAN :
              SplitFinish(r, ids, meshA, meshB, rendered)

FailStep == \E r \in Requests : Fails(r) \/ TextureFails(r) \/ SplitFails(r)

DiscardStep ==
    \E id \in CandidateIds :
        RepairDiscard(id) \/ FillDiscard(id) \/ EditDiscard(id) \/ SplitDiscard(id)

CommitStep ==
    \E id \in CandidateIds, source \in Handles, p \in PartIds :
        \/ \E tag \in Tags : RepairCommit(id, source, p, tag)
        \/ \E tag \in Tags : FillCommit(id, source, p, tag)
        \/ EditCommit(id, source, p)
        \/ SplitCommit(id, source, p)

Next ==
    \/ \E parts \in Imports : Import(parts)
    \/ \E d \in Documents : Release(d)
    \/ \E d \in Documents, p \in PartIds : RepairPlan(d, p)
    \/ BeginStep \/ FinishStep \/ FailStep \/ DiscardStep \/ CommitStep
    \/ \E key, source \in Handles : Undo(key, source)

Spec == Init /\ [][Next]_vars
-----------------------------------------------------------------------------
(* Types *)

RunningTickets ==
    [op : {"analyze", "repair", "fill", "texture", "split"},
     documentId : DocumentIds, revision : Revisions, partId : PartIds,
     generation : Nat, base : Meshes, report : Meshes \cup {NoMesh}]

(* Every store holds values of its kind. *)
TypeOK ==
    /\ IsMap(resident, DocumentIds, [revision : Revisions, parts : DocumentParts])
    /\ nextDocument \in DocumentIds
    /\ IsMap(running, Requests, RunningTickets)
    /\ IsReportCache(topologyReports)
    /\ IsCandidateStore(repairCandidates, Tags)
    /\ IsCandidateStore(holeFillCandidates, Tags)
    /\ IsEditStore(geometryEdits)
    /\ IsSplitStore(splitCandidates)
    /\ IsHistory(repairHistory)
    /\ offered \in SUBSET Nat
    /\ IsMap(lineage, DocumentIds, Seq(DocumentParts))
-----------------------------------------------------------------------------
(* What a reader of the stores may rely on *)

(* A revision is immutable: the resident one is the last of its lineage. *)
LineageIsResident ==
    /\ DOMAIN lineage = DOMAIN resident
    /\ \A d \in DOMAIN resident :
         /\ Len(lineage[d]) = Revision(d)
         /\ lineage[d][Revision(d)] = Parts(d)

(* In both stores a document has at most one live candidate, which is the   *)
(* one `active` names, and only a live candidate holds geometry.            *)
OneLiveCandidate == LiveIsActive(repairCandidates) /\ LiveIsActive(holeFillCandidates)

(* The change Undo would reverse is the one that made the resident revision *)
(* and reversing it gives back, part for part, the revision before it.      *)
UndoRestoresParent ==
    \A d \in DOMAIN repairHistory.undoable :
        LET key    == repairHistory.undoable[d]
            record == repairHistory.records[key]
        IN  /\ d \in DOMAIN resident /\ key = Current(d)
            /\ key \in DOMAIN repairHistory.records
            /\ MayUndo(repairHistory, key, key, Revision(d))
            /\ record.parent + 1 = Revision(d)
            /\ Restored(record, Parts(d)) = lineage[d][record.parent]

(* Texture and split share one slot: whatever was begun, finished, failed,  *)
(* discarded or released in between, one candidate of both can be applied.  *)
OneReadyEdit ==
    \A d \in DOMAIN resident :
        Cardinality({<<"texture", id>> : id \in {i \in DOMAIN geometryEdits.candidates :
                        IsReady(geometryEdits, i)
                        /\ geometryEdits.candidates[i].ticket.documentId = d}}
                    \cup {<<"split", id>> : id \in {i \in DOMAIN splitCandidates.candidates :
                        IsReady(splitCandidates, i)
                        /\ splitCandidates.candidates[i].ticket.documentId = d}}) <= 1

(* A candidate that can be applied was computed from the mesh its part      *)
(* holds, and a split's document differs from the resident one in nothing   *)
(* but that part, which two new ones replace.                               *)
ReadyEditsDescribeTheModel ==
    /\ \A id \in DOMAIN geometryEdits.candidates :
         IsReady(geometryEdits, id) =>
            LET ticket == geometryEdits.candidates[id].ticket IN
            /\ ticket.partId \in DOMAIN Parts(ticket.documentId)
            /\ geometryEdits.candidates[id].base = Parts(ticket.documentId)[ticket.partId]
    /\ \A id \in DOMAIN splitCandidates.candidates :
         IsReady(splitCandidates, id) =>
            LET ticket == splitCandidates.candidates[id].ticket
                before == Parts(ticket.documentId)
                after  == splitCandidates.candidates[id].result
            IN  /\ ticket.partId \in DOMAIN before \ DOMAIN after
                /\ splitCandidates.candidates[id].base = before[ticket.partId]
                /\ \E idA, idB \in DOMAIN after \ DOMAIN before :
                     /\ idA # idB
                     /\ DOMAIN after = (DOMAIN before \ {ticket.partId}) \cup {idA, idB}
                /\ \A p \in DOMAIN before \ {ticket.partId} :
                     p \in DOMAIN after /\ after[p] = before[p]

(* A cached report that the revision guard would return describes the mesh  *)
(* the part holds, and one document's reports are all of one revision.      *)
ReportsDescribeTheirMesh ==
    \A d \in DOMAIN topologyReports :
        /\ \A i, j \in DOMAIN topologyReports[d] :
             topologyReports[d][i].revision = topologyReports[d][j].revision
        /\ d \in DOMAIN resident =>
             \A p \in DOMAIN Parts(d) :
                CachedReport(topologyReports, Current(d), p) \in {NoMesh, Parts(d)[p]}

(* The fill, texture and split stores and the history hold no geometry of a *)
(* document that was released, however late the engines answered.           *)
NoGeometryOfReleasedDocuments ==
    /\ \A id \in DOMAIN holeFillCandidates.entries :
         IsLive(holeFillCandidates, id)
           => holeFillCandidates.entries[id].documentId \in DOMAIN resident
    /\ \A id \in DOMAIN geometryEdits.candidates :
         geometryEdits.candidates[id].ticket.documentId \in DOMAIN resident
    /\ \A id \in DOMAIN splitCandidates.candidates :
         splitCandidates.candidates[id].ticket.documentId \in DOMAIN resident
    /\ \A key \in DOMAIN repairHistory.records :
         repairHistory.records[key].previousMesh # NoMesh
           => key.documentId \in DOMAIN resident
-----------------------------------------------------------------------------
(* What no step may do *)

(* Applying a candidate replaces exactly the mesh it was computed from.     *)
CandidateReplacesItsBase(store, after) ==
    \A id \in DOMAIN store.entries :
        IsLive(store, id) /\ after.entries[id].state = "committed" =>
            LET entry == store.entries[id] IN
            /\ entry.documentId \in DOMAIN resident
            /\ entry.partId \in DOMAIN Parts(entry.documentId)
            /\ Parts(entry.documentId)[entry.partId] = entry.base
            /\ resident'[entry.documentId].parts =
                 WithPartMesh(Parts(entry.documentId), entry.partId, entry.mesh)

AppliesToItsSource ==
    [][/\ CandidateReplacesItsBase(repairCandidates, repairCandidates')
       /\ CandidateReplacesItsBase(holeFillCandidates, holeFillCandidates')]_vars
-----------------------------------------------------------------------------
(* What the worker implements *)

(* The version Undo would bring back, read off the undo record.             *)
PreviousVersions ==
    [d \in DOMAIN repairHistory.undoable |->
        Restored(repairHistory.records[repairHistory.undoable[d]], Parts(d))]

Model == INSTANCE AuthoritativeModel
    WITH documents <- resident, previous <- PreviousVersions,
         opened <- nextDocument - 1

(* The stores, candidates and late answers together are one versioned       *)
(* document with one exact step of undo.                                    *)
RefinesAuthoritativeModel == Model!Spec
-----------------------------------------------------------------------------
(* What comments of the code say, and the code does not do                  *)

(* Nobody holds a repair candidate of a released document.                  *)
NoRepairOfReleasedDocuments ==
    \A id \in DOMAIN repairCandidates.entries :
        IsLive(repairCandidates, id)
          => repairCandidates.entries[id].documentId \in DOMAIN resident

(* A failing texture request ends no other request's generation.            *)
InvalidatesOnlyItsOwn ==
    [][\A r \in Requests :
         TextureFails(r) /\ IsLatest(geometryEdits, TicketOf(running[r]))
           => Has(SourceOf(running[r]))]_vars
=============================================================================
