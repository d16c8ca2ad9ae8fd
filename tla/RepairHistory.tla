---------------------------- MODULE RepairHistory ----------------------------
(***************************************************************************)
(* RepairHistoryStore: one undoable change per document, and a bounded list *)
(* of descriptors of what was applied.                                      *)
(*                                                                         *)
(* history = [records, undoable, order]                                     *)
(*   records   key -> record                                                *)
(*   undoable  document -> the key of the change Undo would reverse         *)
(*   order     keys, oldest first, for eviction                             *)
(* A key is [documentId, revision]: the code's record id is built from the  *)
(* document, the part, the parent and result revisions and the plan, and a  *)
(* document reaches a revision once.                                        *)
(* record = [partId, parent, previousMesh, previousParts, undone,           *)
(* superseded]; previousMesh = NoMesh once the inverse was released, and    *)
(* previousParts is the whole previous document when one part became two.   *)
(***************************************************************************)
EXTENDS Geometry, Sequences, FiniteSets, Places

CONSTANT MaxDescriptors      \* MAX_RETAINED_DESCRIPTORS

ASSUME MaxDescriptorsAssumption == MaxDescriptors \in Nat \ {0}

NoHistory == [records |-> NoEntries, undoable |-> NoEntries, order |-> <<>>]

IsUndoable(history, key) ==
    /\ key.documentId \in DOMAIN history.undoable
    /\ history.undoable[key.documentId] = key

(* Mutant of ReleaseRecord: the document still points at the record. *)
ReleaseRecordKeepingUndo(history, key, cause) ==
    IF key \notin DOMAIN history.records THEN history
    ELSE [history EXCEPT
            !.records = Put(@, key,
                [@[key] EXCEPT !.previousMesh = NoMesh,
                               !.previousParts = NoParts,
                               !.undone = @ \/ cause = "undone",
                               !.superseded = @ \/ cause = "superseded"])]

(* `release`: drops the inverse and says why. *)
ReleaseRecord(history, key, cause) ==
    IF key \notin DOMAIN history.records THEN history
    ELSE LET record == history.records[key] IN
         [history EXCEPT
            !.records = Put(@, key,
                [record EXCEPT !.previousMesh = NoMesh,
                               !.previousParts = NoParts,
                               !.undone = @ \/ cause = "undone",
                               !.superseded = @ \/ cause = "superseded"]),
            !.undoable = IF IsUndoable(history, key)
                         THEN Remove(@, key.documentId) ELSE @]

ReleaseHistory(history, documentId) ==
    IF documentId \in DOMAIN history.undoable
    THEN ReleaseRecord(history, history.undoable[documentId], "superseded")
    ELSE history

(***************************************************************************)
(* The eviction loop, in closed form.  It walks the order from the oldest   *)
(* key, deletes a key that is no document's undoable change, rotates the    *)
(* others to the back, and stops at the cap or after one full turn.         *)
(***************************************************************************)

(* Mutant of SpentUpTo: undoable records are evicted like any other. *)
AllUpTo(history, i) == 1..i

SpentUpTo(history, i) == {j \in 1..i : ~IsUndoable(history, history.order[j])}

ScanEnd(history, excess) ==
    LET reached == {i \in 0..Len(history.order) :
                      Cardinality(SpentUpTo(history, i)) = excess}
    IN  IF reached = {} THEN Len(history.order)
        ELSE CHOOSE i \in reached : \A j \in reached : i <= j

(* Mutant of Trim: one descriptor more than the cap is tolerated. *)
TrimLate(history) ==
    IF Len(history.order) <= MaxDescriptors + 1 THEN history
    ELSE LET end == ScanEnd(history, Len(history.order) - MaxDescriptors)
             evicted == {history.order[j] : j \in SpentUpTo(history, end)}
         IN  [history EXCEPT
                !.records = [key \in DOMAIN @ \ evicted |-> @[key]],
                !.order = SelectSeq(@, LAMBDA key : key \notin evicted)]

Trim(history) ==
    IF Len(history.order) <= MaxDescriptors THEN history
    ELSE LET end     == ScanEnd(history, Len(history.order) - MaxDescriptors)
             evicted == {history.order[j] : j \in SpentUpTo(history, end)}
         IN  [history EXCEPT
                !.records = [key \in DOMAIN @ \ evicted |-> @[key]],
                !.order = SubSeq(@, end + 1, Len(@))
                            \o EntriesAt(@, (1..end) \ SpentUpTo(history, end))]

(* The new record alone, before older descriptors are evicted. *)
AddRecord(history, key, record) ==
    LET superseded == ReleaseHistory(history, key.documentId) IN
    [records  |-> Put(superseded.records, key, record),
     undoable |-> Put(superseded.undoable, key.documentId, key),
     order    |-> Append(superseded.order, key)]

Record(history, key, partId, parent, previousMesh, previousParts) ==
    Trim(AddRecord(history, key,
        [partId |-> partId, parent |-> parent, previousMesh |-> previousMesh,
         previousParts |-> previousParts, undone |-> FALSE, superseded |-> FALSE]))

(* The guards of prepareUndo; `currentRevision` is the resident store's. *)
MayUndo(history, key, expected, currentRevision) ==
    /\ key \in DOMAIN history.records
    /\ ~history.records[key].undone
    /\ ~history.records[key].superseded
    /\ key.documentId = expected.documentId
    /\ key.revision = expected.revision
    /\ key.revision = currentRevision
    /\ history.records[key].previousMesh # NoMesh
-----------------------------------------------------------------------------
RecordKeys == [documentId : DocumentIds, revision : Revisions]

HistoryRecords == [partId : PartIds, parent : Revisions,
                   previousMesh : Meshes \cup {NoMesh},
                   previousParts : DocumentParts,
                   undone : BOOLEAN, superseded : BOOLEAN]

IsHistory(history) ==
    /\ DOMAIN history = {"records", "undoable", "order"}
    /\ IsMap(history.records, RecordKeys, HistoryRecords)
    /\ IsMap(history.undoable, DocumentIds, RecordKeys)
=============================================================================
