------------------------------ MODULE Geometry ------------------------------
(***************************************************************************)
(* What the runtime knows of a document: which mesh each of its parts       *)
(* holds.  A mesh is an immutable object, so it is an identity here; part   *)
(* order, names, units and placements are carried along unchanged by every  *)
(* operation modelled and are left out.                                     *)
(***************************************************************************)
EXTENDS Naturals, Maps

CONSTANTS PartIds,     \* identities a part can have in some revision
          Meshes,      \* mesh objects
          NoMesh       \* `undefined` where a mesh was, or never was

ASSUME NoMeshAssumption == NoMesh \notin Meshes

DocumentIds == Nat \ {0}
Revisions == Nat \ {0}

DocumentParts == UNION {[ids -> Meshes] : ids \in SUBSET PartIds}

NoParts == NoEntries

(* A handle: the identity and the revision the caller believes current. *)
Handle(documentId, revision) == [documentId |-> documentId, revision |-> revision]

WithPartMesh(parts, partId, mesh) == [parts EXCEPT ![partId] = mesh]

(* Mutant of WithPieces: the pieces are inserted beside their source. *)
WithPiecesBeside(parts, partId, idA, meshA, idB, meshB) ==
    Put(Put(parts, idA, meshA), idB, meshB)

(* One part gives way to two with identities of their own. *)
WithPieces(parts, partId, idA, meshA, idB, meshB) ==
    Put(Put(Remove(parts, partId), idA, meshA), idB, meshB)
=============================================================================
