----------------------------- MODULE MeshTopology -----------------------------
(***************************************************************************)
(* The topology analysis of a mesh: its edges and their classes, the fans   *)
(* round its vertices, its edge-connected components, and its degenerate    *)
(* and duplicate faces.                                                     *)
(*                                                                         *)
(* A mesh is a sequence of faces, and a face the triple of its topological  *)
(* vertices in winding order: vertex identity is settled before.  What the  *)
(* coordinates say is in `collinear`, the triples of vertices on one line.  *)
(***************************************************************************)
EXTENDS Integers, FiniteSets, Sequences, Places
LOCAL INSTANCE SequencesExt
LOCAL INSTANCE TLC

(* The corners count on from 0 and round again.                             *)
Corner(face, k) == face[1 + (k % 3)]

Corners(face) == {face[1], face[2], face[3]}

(* A directed edge keeps the face that made it and its direction.           *)
DirectedEdge(from, to, f) ==
    IF from <= to
    THEN [low |-> from, high |-> to, face |-> f, forward |-> TRUE]
    ELSE [low |-> to, high |-> from, face |-> f, forward |-> FALSE]

DirectedEdges(faces) ==
    LET sides(f) == <<DirectedEdge(faces[f][1], faces[f][2], f),
                      DirectedEdge(faces[f][2], faces[f][3], f),
                      DirectedEdge(faces[f][3], faces[f][1], f)>>
    IN FoldLeft(LAMBDA edges, f : edges \o sides(f), <<>>, Indices(faces))

SameEdge(a, b) == a.low = b.low /\ a.high = b.high

Before(edges, i, j) ==
    LET a == edges[i]
        b == edges[j]
    IN \/ a.low < b.low
       \/ a.low = b.low /\ a.high < b.high
       \/ SameEdge(a, b) /\ i < j

(* The undirected edges in order, each the sequence of its directed ones.   *)
GroupEdges(edges) ==
    LET order == SortSeq(Indices(edges), LAMBDA i, j : Before(edges, i, j))
        goesOn(groups, i) ==
            groups # <<>> /\ SameEdge(edges[i], edges[Last(groups)[1]])
    IN FoldLeft(LAMBDA groups, i :
                    IF goesOn(groups, i)
                    THEN [groups EXCEPT ![Len(groups)] = Append(@, i)]
                    ELSE Append(groups, <<i>>),
                <<>>, order)

FacesOn(edges, group) == {edges[group[i]].face : i \in DOMAIN group}
EndsOf(edges, group) == {edges[group[1]].low, edges[group[1]].high}

BoundaryEdges(groups) == {g \in DOMAIN groups : Len(groups[g]) = 1}
NonManifoldEdges(groups) == {g \in DOMAIN groups : Len(groups[g]) > 2}

(* Two faces of an ordinary edge that run along it the same way.            *)
Disagree(edges, group) ==
    /\ Len(group) = 2
    /\ edges[group[1]].forward = edges[group[2]].forward

WindingConflicts(edges, groups) ==
    {g \in DOMAIN groups : Disagree(edges, groups[g])}
-----------------------------------------------------------------------------
(* What steps from a to its neighbours in S reach.                          *)
JoinedTo(a, S, Joined(_, _)) ==
    FoldSet(LAMBDA pass, T : T \cup {c \in S : \E b \in T : Joined(b, c)}, {a}, S)

Connected(S, Joined(_, _)) == \A a \in S : JoinedTo(a, S, Joined) = S

(* The faces at a vertex are one fan.  A face with two corners there has    *)
(* two places in the vertex's incidence and joins only one of them.         *)
IsOneFan(faces, edges, groups, v) ==
    LET around == {f \in DOMAIN faces : v \in Corners(faces[f])}
        spokes == {g \in DOMAIN groups : v \in EndsOf(edges, groups[g])}
    IN /\ \A f \in around : Cardinality({k \in 1..3 : faces[f][k] = v}) = 1
       /\ Connected(around, LAMBDA a, b :
              \E g \in spokes : {a, b} \subseteq FacesOn(edges, groups[g]))

NonManifoldVertices(faces, edges, groups) ==
    {v \in UNION {Corners(faces[f]) : f \in DOMAIN faces} :
        \/ \E g \in NonManifoldEdges(groups) : v \in EndsOf(edges, groups[g])
        \/ ~IsOneFan(faces, edges, groups, v)}
-----------------------------------------------------------------------------
(* The union-find over faces.  A parent is never above its child.           *)
Root(parent, face) ==
    LET up[f \in DOMAIN parent] == IF parent[f] = f THEN f ELSE up[parent[f]]
    IN up[face]

Trail(parent, face) ==
    LET up[f \in DOMAIN parent] ==
            {f} \cup IF parent[f] = f THEN {} ELSE up[parent[f]]
    IN up[face]

(* find, which hangs every face it passed under the root.                   *)
Compressed(parent, face) ==
    LET root == Root(parent, face)
    IN FoldSet(LAMBDA f, p : [p EXCEPT ![f] = root], parent, Trail(parent, face))

(* Mutant of Join: the face itself is hung, not the root found for it.      *)
HangTheFace(parent, first, face) ==
    LET other == Root(parent, face)
        found == Compressed(parent, face)
    IN IF first < other THEN [found EXCEPT ![face] = first]
       ELSE [found EXCEPT ![first] = other]

(* One face of a shared edge joins `first`, the root of the edge's first    *)
(* face, which is read once per edge.                                       *)
Join(parent, first, face) ==
    LET other == Root(parent, face)
        found == Compressed(parent, face)
    IN IF other = first THEN found
       ELSE IF first < other THEN [found EXCEPT ![other] = first]
       ELSE [found EXCEPT ![first] = other]

JoinEdge(edges, parent, group) ==
    LET owner(i) == edges[i].face
        first == Root(parent, owner(group[1]))
    IN FoldLeft(LAMBDA p, i : Join(p, first, owner(i)),
                Compressed(parent, owner(group[1])), Tail(group))

FaceComponents(faces, edges, groups) ==
    LET shared == SelectSeq(groups, LAMBDA group : Len(group) > 1)
        parent == FoldLeft(LAMBDA p, group : JoinEdge(edges, p, group),
                           Indices(faces), shared)
    IN [f \in DOMAIN faces |-> Root(parent, f)]
-----------------------------------------------------------------------------
IsRepeated(faces, f) == Cardinality(Corners(faces[f])) < 3

IsZeroArea(faces, collinear, f) ==
    ~IsRepeated(faces, f) /\ Corners(faces[f]) \in collinear

SameCyclicOrientation(a, b) ==
    \E turn \in 0..2 : \A k \in 1..3 : b[k] = Corner(a, k + turn - 1)

(* The extra copies of a triangle, split by their orientation against its   *)
(* first copy.                                                              *)
ExtraCopies(faces) ==
    LET copies(f) == {g \in DOMAIN faces : Corners(faces[g]) = Corners(faces[f])}
    IN {p \in (DOMAIN faces) \X (DOMAIN faces) :
          /\ ~IsRepeated(faces, p[2])
          /\ p[1] \in copies(p[2]) /\ p[1] < p[2]
          /\ \A h \in copies(p[2]) : p[1] <= h}

SameDuplicates(faces) ==
    {p \in ExtraCopies(faces) : SameCyclicOrientation(faces[p[1]], faces[p[2]])}
ReversedDuplicates(faces) == ExtraCopies(faces) \ SameDuplicates(faces)
=============================================================================
