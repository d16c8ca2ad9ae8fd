---------------------------- MODULE GeometryEdits ----------------------------
(***************************************************************************)
(* GeometryEditStore and the SplitCandidateStore that borrows its           *)
(* generations: the candidate lifecycle of the texture and split tools.     *)
(*                                                                         *)
(* edits  = [candidates, active, current, nextId]                           *)
(* splits = [candidates, active, nextId]                                    *)
(*   candidates  id -> [ticket, base, result]; deleted when settled         *)
(*   active      document -> the id of its candidate in that store          *)
(*   current     document -> the generation of the latest request, of       *)
(*               either tool                                                *)
(* A ticket is [documentId, revision, partId, generation]: one request.     *)
(* `result` is the candidate mesh of an edit, the candidate document of a   *)
(* split; `base` is the mesh the engine was given (not kept by the code).   *)
(***************************************************************************)
EXTENDS Geometry

NoEdits == [candidates |-> NoEntries, active |-> NoEntries,
            current |-> NoEntries, nextId |-> 1]

NoSplits == [candidates |-> NoEntries, active |-> NoEntries, nextId |-> 1]

Generation(edits, documentId) ==
    IF documentId \in DOMAIN edits.current THEN edits.current[documentId] ELSE 0

(* Mutant of IsLatest: a superseded request still counts. *)
IsLatestOrEarlier(edits, ticket) ==
    /\ ticket.documentId \in DOMAIN edits.current
    /\ edits.current[ticket.documentId] >= ticket.generation

(* No later request of either tool has begun, failed or been discarded. *)
IsLatest(edits, ticket) ==
    /\ ticket.documentId \in DOMAIN edits.current
    /\ edits.current[ticket.documentId] = ticket.generation

(* discardById of either store. *)
DropCandidate(store, id) ==
    IF id \notin DOMAIN store.candidates THEN store
    ELSE LET documentId == store.candidates[id].ticket.documentId IN
         [store EXCEPT
            !.candidates = Remove(@, id),
            !.active = IF documentId \in DOMAIN @ /\ @[documentId] = id
                       THEN Remove(@, documentId) ELSE @]

DropActive(store, documentId) ==
    IF documentId \in DOMAIN store.active
    THEN DropCandidate(store, store.active[documentId])
    ELSE store

(* The candidate was swapped in: both maps forget it, unconditionally. *)
ConsumeCandidate(store, id) ==
    [store EXCEPT !.candidates = Remove(@, id),
                  !.active = Remove(@, store.candidates[id].ticket.documentId)]

(* resolve's last step, in either store. *)
AddCandidate(store, ticket, base, result) ==
    [store EXCEPT
        !.candidates = Put(@, store.nextId,
                           [ticket |-> ticket, base |-> base, result |-> result]),
        !.active = Put(@, ticket.documentId, store.nextId),
        !.nextId = @ + 1]

BeginEdit(edits, documentId) ==
    [DropActive(edits, documentId) EXCEPT
        !.current = Put(@, documentId, Generation(edits, documentId) + 1)]

Invalidate(edits, ticket) ==
    IF ~IsLatest(edits, ticket) THEN edits
    ELSE [DropActive(edits, ticket.documentId) EXCEPT
            !.current = Put(@, ticket.documentId, ticket.generation + 1)]

(* Mutant of ReleaseEdits: the active candidate stays. *)
ReleaseEditsOnly(edits, documentId) ==
    [edits EXCEPT !.current = Remove(@, documentId)]

(* The document's generations start again at 1 after this. *)
ReleaseEdits(edits, documentId) ==
    [DropActive(edits, documentId) EXCEPT !.current = Remove(@, documentId)]

(* SplitCandidateStore.fail, before it calls invalidate. *)
DropFailedSplit(splits, ticket) ==
    IF /\ ticket.documentId \in DOMAIN splits.active
       /\ splits.active[ticket.documentId] \in DOMAIN splits.candidates
       /\ splits.candidates[splits.active[ticket.documentId]].ticket.generation
            = ticket.generation
    THEN DropActive(splits, ticket.documentId)
    ELSE splits
-----------------------------------------------------------------------------
EditTickets == [documentId : DocumentIds, revision : Revisions,
                partId : PartIds, generation : Nat]

IsEditCandidateStore(store, results) ==
    /\ IsMap(store.candidates, Nat,
             [ticket : EditTickets, base : Meshes, result : results])
    /\ IsMap(store.active, DocumentIds, Nat)
    /\ store.nextId \in Nat

IsEditStore(edits) ==
    /\ DOMAIN edits = {"candidates", "active", "current", "nextId"}
    /\ IsEditCandidateStore(edits, Meshes)
    /\ IsMap(edits.current, DocumentIds, Nat)

IsSplitStore(splits) ==
    /\ DOMAIN splits = {"candidates", "active", "nextId"}
    /\ IsEditCandidateStore(splits, DocumentParts)
=============================================================================
