------------------------- MODULE AuthoritativeModel -------------------------
(***************************************************************************)
(* What the geometry worker promises the page: documents that change one    *)
(* whole revision at a time, each change computed from the version it       *)
(* replaces, and one step of undo that brings that exact version back under *)
(* a new revision.  Nothing here knows of candidates, tickets or requests.  *)
(***************************************************************************)
EXTENDS Geometry

CONSTANT Imports       \* documents that files contain

VARIABLES documents,      \* document -> [revision, parts]
          previous,       \* document -> the version Undo would bring back
          opened          \* how many documents were ever opened

vars == <<documents, previous, opened>>

Init ==
    /\ documents = NoEntries
    /\ previous = NoEntries
    /\ opened = 0

Open(parts) ==
    /\ opened' = opened + 1
    /\ documents' = Put(documents, opened + 1, [revision |-> 1, parts |-> parts])
    /\ UNCHANGED previous

Close(d) ==
    /\ documents' = Remove(documents, d)
    /\ previous' = Remove(previous, d)
    /\ UNCHANGED opened

NextRevision(d, parts) ==
    /\ documents' = [documents EXCEPT ![d] =
                       [revision |-> @.revision + 1, parts |-> parts]]
    /\ UNCHANGED opened

Change(d, parts) ==
    /\ NextRevision(d, parts)
    /\ previous' = Put(previous, d, documents[d].parts)

(* One part gets another mesh. *)
Remesh(d, p) ==
    \E mesh \in Meshes : Change(d, WithPartMesh(documents[d].parts, p, mesh))

(* One part gives way to two new ones. *)
Divide(d, p) ==
    \E idA, idB \in PartIds \ DOMAIN documents[d].parts, meshA, meshB \in Meshes :
        /\ idA # idB
        /\ Change(d, WithPieces(documents[d].parts, p, idA, meshA, idB, meshB))

Undo(d) ==
    /\ d \in DOMAIN previous
    /\ NextRevision(d, previous[d])
    /\ previous' = Remove(previous, d)

Next ==
    \/ \E parts \in Imports : Open(parts)
    \/ \E d \in DOMAIN documents :
         \/ Close(d)
         \/ Undo(d)
         \/ \E p \in DOMAIN documents[d].parts : Remesh(d, p) \/ Divide(d, p)

Spec == Init /\ [][Next]_vars
=============================================================================
