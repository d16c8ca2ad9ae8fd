--------------------------- MODULE CandidateStore ---------------------------
(***************************************************************************)
(* RepairCandidateStore and HoleFillCandidateStore: proposed geometry the   *)
(* worker keeps until the page applies or discards it.  The two classes     *)
(* have the same lifecycle and differ in the last commit guard only (a plan *)
(* hash, an opening's id), which is the `tag` here.                         *)
(*                                                                         *)
(* A store is a value [entries, active, nextId], and an operation is an     *)
(* operator that returns the store it leaves, so that a handler that calls  *)
(* several stores stays one action of its module.                           *)
(*   entries   id -> entry; an entry is never deleted, its mesh is released *)
(*   active    document -> the id of its live candidate                     *)
(* `base` is the mesh the candidate was computed from.  The code does not   *)
(* keep it; the properties compare it with the mesh a commit replaces.      *)
(***************************************************************************)
EXTENDS Geometry

EmptyStore == [entries |-> NoEntries, active |-> NoEntries, nextId |-> 1]

IsLive(store, id) ==
    id \in DOMAIN store.entries /\ store.entries[id].state = "resolved"

(* Leaves `resolved`, releasing the geometry and the document's slot. *)
Settle(store, id, state) ==
    LET entry == store.entries[id] IN
    [store EXCEPT
        !.entries = Put(@, id, [entry EXCEPT !.state = state,
                                             !.mesh = NoMesh,
                                             !.base = NoMesh]),
        !.active = Remove(@, entry.documentId)]

Discard(store, id) ==
    IF IsLive(store, id) THEN Settle(store, id, "discarded") ELSE store

MarkCommitted(store, id) ==
    IF id \in DOMAIN store.entries THEN Settle(store, id, "committed") ELSE store

ReleaseCandidate(store, documentId) ==
    IF documentId \in DOMAIN store.active
    THEN Discard(store, store.active[documentId])
    ELSE store

(* Mutant of CreateCandidate: the earlier candidate is not superseded. *)
CreateCandidateBeside(store, source, partId, tag, base, mesh) ==
    [entries |-> Put(store.entries, store.nextId,
                     [documentId |-> source.documentId, revision |-> source.revision,
                      partId |-> partId, tag |-> tag, base |-> base, mesh |-> mesh,
                      state |-> "resolved"]),
     active  |-> Put(store.active, source.documentId, store.nextId),
     nextId  |-> store.nextId + 1]

(* Registers a candidate; the document's earlier one is discarded first. *)
CreateCandidate(store, source, partId, tag, base, mesh) ==
    LET cleared == ReleaseCandidate(store, source.documentId)
        id      == cleared.nextId
        entry   == [documentId |-> source.documentId, revision |-> source.revision,
                    partId |-> partId, tag |-> tag, base |-> base, mesh |-> mesh,
                    state |-> "resolved"]
    IN  [entries |-> Put(cleared.entries, id, entry),
         active  |-> Put(cleared.active, source.documentId, id),
         nextId  |-> id + 1]

(* Mutant of MayCommit: the staleness guard is missing. *)
MayCommitStale(store, id, expected, partId, tag, currentRevision) ==
    /\ IsLive(store, id)
    /\ store.entries[id].documentId = expected.documentId
    /\ store.entries[id].partId = partId
    /\ store.entries[id].tag = tag
    /\ store.entries[id].mesh # NoMesh

(* Mutant of MayCommit: a discarded candidate is not told from a live one. *)
MayCommitSettled(store, id, expected, partId, tag, currentRevision) ==
    /\ id \in DOMAIN store.entries
    /\ store.entries[id].documentId = expected.documentId
    /\ store.entries[id].partId = partId
    /\ store.entries[id].revision = expected.revision
    /\ store.entries[id].revision = currentRevision
    /\ store.entries[id].tag = tag

(* The guards of prepareCommit; `currentRevision` is the resident store's. *)
MayCommit(store, id, expected, partId, tag, currentRevision) ==
    /\ IsLive(store, id)
    /\ store.entries[id].documentId = expected.documentId
    /\ store.entries[id].partId = partId
    /\ store.entries[id].revision = expected.revision
    /\ store.entries[id].revision = currentRevision
    /\ store.entries[id].tag = tag
    /\ store.entries[id].mesh # NoMesh
-----------------------------------------------------------------------------
LiveIsActive(store) ==
    /\ \A id \in DOMAIN store.entries :
         LET entry == store.entries[id] IN
         /\ entry.state = "resolved" <=>
              entry.documentId \in DOMAIN store.active /\ store.active[entry.documentId] = id
         /\ entry.state = "resolved" <=> entry.mesh # NoMesh
    /\ \A d \in DOMAIN store.active :
         /\ IsLive(store, store.active[d])
         /\ store.entries[store.active[d]].documentId = d

CandidateEntry(tags) ==
    [documentId : DocumentIds, revision : Revisions, partId : PartIds, tag : tags,
     base : Meshes \cup {NoMesh}, mesh : Meshes \cup {NoMesh},
     state : {"resolved", "committed", "discarded"}]

IsCandidateStore(store, tags) ==
    /\ DOMAIN store = {"entries", "active", "nextId"}
    /\ IsMap(store.entries, Nat, CandidateEntry(tags))
    /\ IsMap(store.active, DocumentIds, Nat)
    /\ store.nextId \in Nat
=============================================================================
