----------------------------- MODULE BoundaryFill -----------------------------
(***************************************************************************)
(* Closing openings with triangles over their own vertices: ear clipping,   *)
(* what the automatic fill admits, the filled candidate and the verdict on  *)
(* it, and the checks by which the engine that fills one chosen opening     *)
(* accepts a patch.                                                         *)
(*                                                                         *)
(* The shape of a loop decides which ears are cut and whether it is planar, *)
(* apart from other openings and clear of other faces: here any clipping is *)
(* possible, and whoever admits openings may leave out any of them.         *)
(***************************************************************************)
EXTENDS BoundaryLoops
LOCAL INSTANCE SequencesExt
LOCAL INSTANCE FiniteSetsExt
LOCAL INSTANCE Functions

(* earClip.  A triangle is told by its three places in the loop: the ears   *)
(* and the rest always run the way of the loop.                             *)
ClipEar(state, k) ==
    LET n == Len(state.remaining)
        at(j) == state.remaining[1 + ((k + n + j - 1) % n)]
    IN [remaining |-> RemoveAt(state.remaining, k),
        triangles |-> state.triangles \cup {{at(-1), at(0), at(1)}}]

Clippings(n) ==
    LET start == [remaining |-> [i \in 1..n |-> i], triangles |-> {}]
        clip(states, pass) ==
            UNION {{ClipEar(s, k) : k \in DOMAIN s.remaining} : s \in states}
    IN {s.triangles \cup {ToSet(s.remaining)} :
          s \in FoldLeft(clip, {start}, [pass \in 1 .. n - 3 |-> pass])}

(* The faces of a patch, each in the order of its places.                   *)
PatchFaces(loop, clipping) ==
    LET face(places) ==
            LET s == SetToSortSeq(places, LAMBDA a, b : a < b)
            IN <<loop.cycle[s[1]], loop.cycle[s[2]], loop.cycle[s[3]]>>
        triangles == SetToSeq(clipping)
    IN [t \in 1 .. Len(loop.cycle) - 2 |-> face(triangles[t])]

SidesOf(face) == {{face[1], face[2]}, {face[2], face[3]}, {face[3], face[1]}}

RimPairs(loop) ==
    {{loop.cycle[i], loop.cycle[1 + (i % Len(loop.cycle))]} : i \in DOMAIN loop.cycle}

Diagonals(loop, patch) ==
    (UNION {SidesOf(patch[t]) : t \in DOMAIN patch}) \ RimPairs(loop)
-----------------------------------------------------------------------------
(* Mutant of BuildsPatch: a diagonal may be an edge the part already has.   *)
BuildsPatchAnywhere(loop, patch, table, lines) ==
    /\ Len(loop.cycle) = 3 => Cardinality(ToSet(loop.faces)) > 1
    /\ \A t \in DOMAIN patch : Corners(patch[t]) \notin lines

(* Mutant of BuildsPatch: the rim of a single triangle may be closed.       *)
BuildsPatchOnOneFace(loop, patch, table, lines) ==
    /\ \A t \in DOMAIN patch : Corners(patch[t]) \notin lines
    /\ \A pair \in Diagonals(loop, patch) : Incidence(table, pair) = 0

(* buildPatch, what it asks of a clipping of the loop.                      *)
BuildsPatch(loop, patch, table, lines) ==
    /\ Len(loop.cycle) = 3 => Cardinality(ToSet(loop.faces)) > 1
    /\ \A t \in DOMAIN patch : Corners(patch[t]) \notin lines
    /\ \A pair \in Diagonals(loop, patch) : Incidence(table, pair) = 0

Patches(loop, table, lines) ==
    {patch \in {PatchFaces(loop, c) : c \in Clippings(Len(loop.cycle))} :
        BuildsPatch(loop, patch, table, lines)}

(* admitBoundaryLoops and the exact check: the patches of some of the loops *)
(* that have one, by loop.                                                  *)
Admissions(faces, lines) ==
    LET patches(scan) ==
            [loop \in Eligible(scan.loops) |-> Patches(loop, scan.edges, lines)]
        closable(found) == {loop \in DOMAIN found : found[loop] # {}}
        choice(found, kept) ==
            {f \in [kept -> UNION Range(found)] : \A loop \in kept : f[loop] \in found[loop]}
    IN UNION {UNION {choice(found, kept) : kept \in (SUBSET closable(found)) \ {{}}} :
                found \in {patches(ScanBoundaries(faces))}}

(* The patches in the order of their loops, each one triangle by triangle.  *)
Precedes(p, q) == \/ Min(p[1].members) < Min(q[1].members)
                  \/ p[1] = q[1] /\ p[2] < q[2]

(* appendPatches: the source's faces first, then patch after patch.         *)
AppendPatches(faces, admitted) ==
    LET slots == UNION {{<<loop, t>> : t \in DOMAIN admitted[loop]} : loop \in DOMAIN admitted}
        slot(n) == CHOOSE q \in slots : Cardinality({p \in slots : Precedes(p, q)}) = n - 1
        added == [n \in 1 .. Cardinality(slots) |-> admitted[slot(n)[1]][slot(n)[2]]]
    IN faces \o added

RimEdges(admitted) ==
    FoldSet(LAMBDA loop, n : n + Cardinality(loop.members), 0, DOMAIN admitted)

(* judgeFilledCandidate: what closing exactly these loops does to a report. *)
JudgeFilled(before, after, admitted) ==
    LET same(defect) == after[defect] = before[defect]
        expected ==
          [BoundaryEdges |-> after.boundary = before.boundary - RimEdges(admitted),
           BoundaryComponents |->
               after.openings = before.openings - Cardinality(DOMAIN admitted),
           NonManifoldEdges |-> same("nonManifold"),
           NonManifoldVertices |->
               after.nonManifoldVertices <= before.nonManifoldVertices,
           WindingConflicts |-> same("conflicts"),
           Components |-> same("components"),
           Duplicates |-> same("same") /\ same("reversed"),
           Degenerate |-> same("repeated") /\ same("zeroArea")]
    IN {name \in DOMAIN expected : ~expected[name]}
-----------------------------------------------------------------------------
(* collectNonManifoldDefects, by what they are and not by their number.     *)
Defects(faces) ==
    LET edges == DirectedEdges(faces)
        groups == GroupEdges(edges)
        pairs(kind) == {EndsOf(edges, groups[g]) : g \in kind}
    IN [edges |-> pairs(NonManifoldEdges(groups)),
        vertices |-> NonManifoldVertices(faces, edges, groups),
        conflicts |-> pairs(WindingConflicts(edges, groups))]

EulerCharacteristic(faces) ==
      Cardinality(UNION {Corners(faces[f]) : f \in DOMAIN faces})
    - Cardinality(UNION {SidesOf(faces[f]) : f \in DOMAIN faces})
    + Len(faces)

HalfEdges(faces) ==
    LET e == ScannedEdges(faces) IN [d \in DOMAIN e |-> <<e[d].from, e[d].to>>]

(* analysePatchOrientation: on the rim against the source's faces, inside   *)
(* once each way.                                                           *)
IsOriented(faces, loop, patch) ==
    LET source == ToSet(HalfEdges(faces))
        own == HalfEdges(patch)
        against(h) == <<h[2], h[1]>> \in source
        uses(h) == Cardinality({d \in DOMAIN own : own[d] = h})
    IN /\ Cardinality({d \in DOMAIN own : against(own[d])}) = Len(loop.cycle)
       /\ \A d \in DOMAIN own :
             ~against(own[d]) => /\ own[d] \notin source
                                 /\ uses(own[d]) = 1
                                 /\ uses(<<own[d][2], own[d][1]>>) = 1

(* analysePatchConnectivity.                                                *)
IsDisk(loop, patch) ==
    /\ \A t \in DOMAIN patch : Corners(patch[t]) \subseteq loop.members
    /\ Connected(DOMAIN patch,
                 LAMBDA a, b : SidesOf(patch[a]) \cap SidesOf(patch[b]) # {})
    /\ EulerCharacteristic(patch) = 1

ExtractedLoops(faces) ==
    LET edges == DirectedEdges(faces) IN ExtractBoundaryLoops(edges, GroupEdges(edges))

(* runHoleFill, from the assembled candidate to the intersection check.     *)
EngineAccepts(faces, lines, loop, patch) ==
    LET candidate == faces \o patch
        before == ExtractedLoops(faces)
        after == ExtractedLoops(candidate)
        old == Defects(faces)
        new == Defects(candidate)
        copies(t) == {f \in DOMAIN candidate : Corners(candidate[f]) = Corners(patch[t])}
    IN /\ \A t \in DOMAIN patch :
             Corners(patch[t]) \notin lines /\ Cardinality(copies(t)) = 1
       /\ LoopIdentity(loop) \notin {LoopIdentity(l) : l \in after}
       /\ Cardinality(after) = Cardinality(before) - 1
       /\ \A kind \in DOMAIN old : new[kind] \subseteq old[kind]
       /\ IsOriented(faces, loop, patch)
       /\ IsDisk(loop, patch)
       /\ EulerCharacteristic(candidate) = EulerCharacteristic(faces) + 1
=============================================================================
