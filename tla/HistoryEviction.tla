--------------------------- MODULE HistoryEviction ---------------------------
(***************************************************************************)
(* RepairHistoryStore on its own, with more documents than descriptors:     *)
(* the eviction loop of `trim`, written step by step, against the closed    *)
(* form the worker's specification uses.                                    *)
(***************************************************************************)
EXTENDS RepairHistory

CONSTANTS HistoryDocuments,
          HistoryRevisions    \* bound: revisions of each document

ASSUME HistoryAssumption == HistoryRevisions \in Nat

VARIABLES history, revision     \* revision: document -> its last revision

evictionVars == <<history, revision>>

(* The condition of the while loop of trim.                                 *)
Continues(loop) == Len(loop.order) > MaxDescriptors /\ loop.scanned < Len(loop.order)

(* One turn of it.                                                          *)
TrimTurn(loop) ==
    LET oldest == Head(loop.order) IN
    IF IsUndoable(history', oldest)
    THEN [loop EXCEPT !.order = Append(Tail(@), oldest), !.scanned = @ + 1]
    ELSE [loop EXCEPT !.order = Tail(@), !.kept = @ \ {oldest}]

TrimLoop(order, kept) ==
    LET turns[n \in 0..2 * Len(order)] ==
          IF n = 0 THEN [order |-> order, kept |-> kept, scanned |-> 0]
          ELSE LET loop == turns[n - 1] IN
               IF Continues(loop) THEN TrimTurn(loop) ELSE loop
    IN  turns[2 * Len(order)]

EvictionInit ==
    /\ history = NoHistory
    /\ revision = [d \in HistoryDocuments |-> 1]

(* Any committed change: it moves the revision and leaves a record.         *)
Commit(d) ==
    /\ revision[d] < HistoryRevisions
    /\ revision' = [revision EXCEPT ![d] = @ + 1]
    /\ \E p \in PartIds, mesh \in Meshes :
         history' = Record(history, Handle(d, revision[d] + 1), p, revision[d],
                           mesh, NoParts)

UndoLast(d) ==
    /\ d \in DOMAIN history.undoable
    /\ revision[d] < HistoryRevisions
    /\ revision' = [revision EXCEPT ![d] = @ + 1]
    /\ history' = ReleaseRecord(history, history.undoable[d], "undone")

(* The document is released; its identity is not used again.                *)
ReleaseDocument(d) ==
    /\ d \in DOMAIN history.undoable
    /\ history' = ReleaseHistory(history, d)
    /\ revision' = [revision EXCEPT ![d] = HistoryRevisions]

EvictionNext == \E d \in HistoryDocuments : Commit(d) \/ UndoLast(d) \/ ReleaseDocument(d)

EvictionSpec == EvictionInit /\ [][EvictionNext]_evictionVars
-----------------------------------------------------------------------------
(* However the list was trimmed, no document's undo was evicted to make     *)
(* room, and the list names every record that is held, once.                *)
EvictionKeepsUndo ==
    /\ \A d \in DOMAIN history.undoable :
         /\ history.undoable[d] \in DOMAIN history.records
         /\ history.records[history.undoable[d]].previousMesh # NoMesh
    /\ DOMAIN history.records = {history.order[i] : i \in DOMAIN history.order}
    /\ Cardinality(DOMAIN history.records) = Len(history.order)

(* A commit leaves the list within its cap, or with nothing but undoable    *)
(* records in it.  (An undo or a release may leave it over the cap.)        *)
CommitsRestoreTheCap ==
    [][(\E d \in HistoryDocuments : Commit(d)) =>
          \/ Len(history'.order) <= MaxDescriptors
          \/ \A i \in DOMAIN history'.order : IsUndoable(history', history'.order[i])]_evictionVars

(* After every commit the order and the records are what the loop of the    *)
(* code leaves, which ends before it has gone round the list twice.         *)
TrimIsTheLoop ==
    [][\A d \in HistoryDocuments :
        Commit(d) =>
          LET key  == Handle(d, revision'[d])
              loop == TrimLoop(Append(history.order, key),
                               DOMAIN history.records \cup {key})
          IN  /\ ~Continues(loop)
              /\ history'.order = loop.order
              /\ DOMAIN history'.records = loop.kept]_evictionVars
=============================================================================
