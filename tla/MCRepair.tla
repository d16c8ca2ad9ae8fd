------------------------------- MODULE MCRepair -------------------------------
(* Instances of ConservativeRepair for TLC: small meshes of every shape.    *)
EXTENDS ConservativeRepair

CONSTANT MaxVertices

(* One face per triangle and orientation: a face starts at its least vertex. *)
Triangles ==
    {face \in (1..MaxVertices) \X (1..MaxVertices) \X (1..MaxVertices) :
        face[1] < face[2] /\ face[1] < face[3] /\ face[2] # face[3]}

(* Faces that repeat a vertex, one corner or two apart.                     *)
Slivers == {<<1, 1, 1>>, <<1, 1, 2>>, <<1, 2, 2>>}

EveryShape == Triangles \cup Slivers

(* A closed strip of n triangles, some of them turned over: a Moebius strip *)
(* when n is odd, a ring when n is even.                                    *)
Around(n, k) == 1 + (k % n)

Strip(n, turned) ==
    [k \in 1..n |->
        IF k \in turned THEN <<Around(n, k - 1), Around(n, k + 1), Around(n, k)>>
                        ELSE <<Around(n, k - 1), Around(n, k), Around(n, k + 1)>>]

(* An opening that is filled in a part with one that cannot be: the second  *)
(* has an edge with three faces.                                             *)
TentAndBook ==
    <<<<1, 2, 3>>, <<1, 3, 4>>, <<1, 4, 2>>, <<5, 6, 7>>, <<5, 6, 8>>, <<5, 6, 9>>>>

(* More boundary than the scan assembles loops for.                          *)
LooseFaces == [k \in 1..4 |-> <<3 * k - 2, 3 * k - 1, 3 * k>>]

(* An opening with more vertices than are filled.                            *)
Hexagon == <<<<1, 2, 3>>, <<1, 3, 4>>, <<1, 4, 5>>, <<1, 5, 6>>>>

EveryFile ==
    {<<>>, TentAndBook, LooseFaces, Hexagon}
    \cup {Strip(5, S) : S \in SUBSET (1..5)} \cup {Strip(6, S) : S \in SUBSET (1..6)}

NoFile == {<<>>}

(* Two slivers and a face without area, each at an edge another one is at.  *)
SliversAtOneEdge ==
    {<<<<1, 1, 2>>, <<1, 1, 3>>, <<1, 2, 4>>, <<1, 5, 2>>, <<2, 5, 4>>>>}

(* Pages bound at vertex 1.                                                 *)
Pages == {face \in Triangles : face[1] = 1 /\ face[2] < face[3]}

Every == {Operations}

(* Mesh groups are looked at in small meshes, and without collinear vertices. *)
GroupsInSmallMeshes ==
    mesh.split > 0 => collinear = {} /\ Len(mesh.faces) < MaxFaces
=============================================================================
