-------------------------- MODULE ConservativeRepair --------------------------
(***************************************************************************)
(* The conservative repair of one part: the topology report, the plan that  *)
(* says what will be done, the execution that builds a candidate, and the   *)
(* validation of the candidate against the report.                          *)
(*                                                                         *)
(* Faces are known by their place in the mesh, as in the code; a selection  *)
(* or a mask is a set of them.  The mesh lists every vertex once, in the    *)
(* order its faces first use them.  The rebuild drops the vertices no face  *)
(* uses and keeps the others in order, which is all the analysis looks at:  *)
(* here a vertex keeps its name.                                            *)
(***************************************************************************)
EXTENDS BoundaryFill
LOCAL INSTANCE SequencesExt
LOCAL INSTANCE FiniteSetsExt
LOCAL INSTANCE Functions

CONSTANTS Shapes,          \* the faces a file may hold
          Files,           \* what a file starts with
          Splits,          \* faces in the first of two mesh groups, 0: no groups
          Requests,        \* sets of operations the user may ask for
          MaxFaces, MaxRepairs  \* bounds

Operations == {"duplicates", "repeated", "zeroArea", "winding"}

ASSUME FacesAssumption == /\ Shapes \subseteq Nat \X Nat \X Nat
                          /\ Files \subseteq Seq(Nat \X Nat \X Nat)
ASSUME RequestsAssumption == Requests \subseteq SUBSET Operations
ASSUME RepairBoundsAssumption == {MaxFaces, MaxRepairs} \subseteq Nat

VARIABLES
    mesh,        \* faces, and the faces in the first mesh group
    collinear,   \* triples of vertices that lie on a line
    phase,       \* "reading", "analysed", "planned", "executed" or "filled"
    view,        \* what the analysis recovered from the faces
    report,      \* the topology report of the mesh
    plan,        \* what planning decided and prepared
    result,      \* acceptance and candidate of the last execution
    repairs      \* accepted repairs so far

vars == <<mesh, collinear, phase, view, report, plan, result, repairs>>

Empty == <<>>
-----------------------------------------------------------------------------
BuildView(faces) ==
    LET edges == DirectedEdges(faces)
        groups == GroupEdges(edges)
    IN [edges |-> edges, groups |-> groups,
        nonManifoldVertices |-> NonManifoldVertices(faces, edges, groups),
        components |-> FaceComponents(faces, edges, groups)]

(* analyseTopology, as far as a repair reads its report.                    *)
Report(faces, lines, v) ==
       [boundary |-> Cardinality(BoundaryEdges(v.groups)),
        nonManifold |-> Cardinality(NonManifoldEdges(v.groups)),
        nonManifoldVertices |-> Cardinality(v.nonManifoldVertices),
        conflicts |-> Cardinality(WindingConflicts(v.edges, v.groups)),
        openings |-> Cardinality(DOMAIN BoundaryKinds(v.edges, v.groups)),
        components |-> Cardinality(Range(v.components)),
        repeated |-> Cardinality({f \in DOMAIN faces : IsRepeated(faces, f)}),
        zeroArea |-> Cardinality({f \in DOMAIN faces : IsZeroArea(faces, lines, f)}),
        same |-> Cardinality(SameDuplicates(faces)),
        reversed |-> Cardinality(ReversedDuplicates(faces))]
-----------------------------------------------------------------------------
(* Mutant of DuplicatePairs: a copy is only looked for in the face before.  *)
AdjacentPairs(faces) ==
    {p \in (DOMAIN faces) \X (DOMAIN faces) :
        /\ p[1] = p[2] - 1 /\ ~IsRepeated(faces, p[2])
        /\ SameCyclicOrientation(faces[p[2]], faces[p[1]])}

(* The extra copies of one orientation, each with the copy that is kept.    *)
DuplicatePairs(faces) ==
    LET usable == {f \in DOMAIN faces : ~IsRepeated(faces, f)}
        copies(f) == {g \in usable : SameCyclicOrientation(faces[f], faces[g])}
    IN {p \in usable \X usable :
          p[1] \in copies(p[2]) /\ p[1] < p[2] /\ \A h \in copies(p[2]) : p[1] <= h}

SelectDuplicateFaces(faces) == {p[2] : p \in DuplicatePairs(faces)}

SpansMeshGroups(m) ==
    \E p \in DuplicatePairs(m.faces) : (p[1] <= m.split) # (p[2] <= m.split)

SelectRepeated(faces) == {f \in DOMAIN faces : IsRepeated(faces, f)}
SelectZeroArea(faces, lines) == {f \in DOMAIN faces : IsZeroArea(faces, lines, f)}

(* What the source's edges will be once the faces are gone.                 *)
PredictAfterRemoval(v, removed) ==
    LET lasts(i) == v.edges[i].face \notin removed
        surviving == [g \in DOMAIN v.groups |-> SelectSeq(v.groups[g], lasts)]
    IN [boundary |-> Cardinality(BoundaryEdges(surviving)),
        nonManifold |-> Cardinality(NonManifoldEdges(surviving)),
        conflicts |-> Cardinality(WindingConflicts(v.edges, surviving))]

IsDegenerateRemovalSafe(v, removed) ==
    LET before == PredictAfterRemoval(v, {})
        after == PredictAfterRemoval(v, removed)
    IN after.boundary <= before.boundary /\ after.nonManifold <= before.nonManifold

(* The surviving faces in order; a flip swaps a face's last two corners.    *)
Survivors(faces, removed) == EntriesAt(Indices(faces), DOMAIN faces \ removed)

RebuildCandidate(faces, removed, flipped) ==
    LET copy(f) == IF f \in flipped
                   THEN <<faces[f][1], faces[f][3], faces[f][2]>> ELSE faces[f]
        kept == Survivors(faces, removed)
    IN [j \in DOMAIN kept |-> copy(kept[j])]
-----------------------------------------------------------------------------
(* The faces across face f's ordinary edges, with the parity each asks for. *)
Neighbours(v, f) ==
    LET ordinary == SelectSeq(v.groups, LAMBDA s :
                        Len(s) = 2 /\ FacesOn(v.edges, s) # {f}
                                   /\ f \in FacesOn(v.edges, s))
    IN [n \in DOMAIN ordinary |->
          [face |-> CHOOSE g \in FacesOn(v.edges, ordinary[n]) : g # f,
           flips |-> Disagree(v.edges, ordinary[n])]]

(* Mutant of Meet: the flip of the face the walk stands on is forgotten.    *)
MeetUnflipped(walk, face, next) ==
    IF next.face \in walk.visited
    THEN [walk EXCEPT !.contradiction = @ \/ ((next.face \in walk.flipped) # next.flips)]
    ELSE [walk EXCEPT !.visited = @ \cup {next.face},
                      !.queue = Append(@, next.face),
                      !.flipped = IF next.flips THEN @ \cup {next.face} ELSE @]

(* One neighbour of the face the walk stands on.                            *)
Meet(walk, face, next) ==
    LET wanted == (face \in walk.flipped) # next.flips
    IN IF next.face \in walk.visited
       THEN [walk EXCEPT !.contradiction =
                 @ \/ ((next.face \in walk.flipped) # wanted)]
       ELSE [walk EXCEPT !.visited = @ \cup {next.face},
                         !.queue = Append(@, next.face),
                         !.flipped = IF wanted THEN @ \cup {next.face} ELSE @]

(* The queue of one component, from its seed; it holds no face twice.       *)
WalkFrom(v, walk, seed) ==
    IF seed \in walk.visited THEN walk
    ELSE LET start == [walk EXCEPT !.visited = @ \cup {seed}, !.queue = <<seed>>]
             visit(w, head) ==
                 IF head > Len(w.queue) THEN w
                 ELSE FoldLeft(LAMBDA x, next : Meet(x, w.queue[head], next),
                               w, Neighbours(v, w.queue[head]))
         IN FoldLeft(visit, start, Indices(v.components))

Walked(v) ==
    FoldLeft(LAMBDA walk, seed : WalkFrom(v, walk, seed),
             [visited |-> {}, flipped |-> {}, queue |-> <<>>, contradiction |-> FALSE],
             Indices(v.components))

(* What stands in the way of a face: the first such face names the reason.  *)
OnNonManifoldEdge(v, f) ==
    \E g \in NonManifoldEdges(v.groups) : f \in FacesOn(v.edges, v.groups[g])

OnNonManifoldVertex(faces, v, f) ==
    Corners(faces[f]) \cap v.nonManifoldVertices # {}

SolveWinding(faces, v) ==
    LET stuck == {f \in DOMAIN faces : OnNonManifoldEdge(v, f)
                                       \/ OnNonManifoldVertex(faces, v, f)}
        first == CHOOSE f \in stuck : \A g \in stuck : f <= g
        walk == Walked(v)
        unsolved(outcome) == [outcome |-> outcome, flipped |-> {}]
    IN IF stuck # {}
       THEN unsolved(IF OnNonManifoldEdge(v, first) THEN "nonManifoldEdge"
                                                    ELSE "nonManifoldVertex")
       ELSE IF walk.contradiction THEN unsolved("nonOrientable")
       ELSE [outcome |-> IF walk.flipped = {} THEN "consistent" ELSE "solved",
             flipped |-> walk.flipped]
-----------------------------------------------------------------------------
Wants(requested, op, count) == op \in requested /\ count > 0

(* The removals of every requested stage.                                   *)
Selections(m, lines, rep, requested) ==
    [duplicates |->
        IF Wants(requested, "duplicates", rep.same) /\ ~SpansMeshGroups(m)
        THEN SelectDuplicateFaces(m.faces) ELSE {},
     repeated |->
        IF Wants(requested, "repeated", rep.repeated)
        THEN SelectRepeated(m.faces) ELSE {},
     zeroArea |->
        IF Wants(requested, "zeroArea", rep.zeroArea)
        THEN SelectZeroArea(m.faces, lines) ELSE {}]

Unsafe(v, selected) ==
    {op \in {"repeated", "zeroArea"} : ~IsDegenerateRemovalSafe(v, selected[op])}

(* prepareConservativeRepair and the decisions planning makes of it: the    *)
(* winding is solved on the mesh the safe removals leave.                   *)
PlanRepair(m, lines, v, rep, requested) ==
    LET selected == Selections(m, lines, rep, requested)
        refused == Unsafe(v, selected)
        removed == UNION {selected[op] : op \in DOMAIN selected \ refused}
        between == RebuildCandidate(m.faces, removed, {})
        winding == IF "winding" \in requested
                   THEN SolveWinding(between, BuildView(between))
                   ELSE [outcome |-> "not asked", flipped |-> {}]
        unifies == /\ Wants(requested, "winding", rep.conflicts)
                   /\ winding.outcome = "solved"
        sourceOf(j) == Survivors(m.faces, removed)[j]
    IN [requested |-> requested,
        selected |-> selected,
        refused |-> refused,
        order |-> {op \in DOMAIN selected \ refused : selected[op] # {}}
                  \cup {op \in {"winding"} : unifies},
        winding |-> winding.outcome,
        flipped |-> {sourceOf(j) : j \in winding.flipped}]
-----------------------------------------------------------------------------
FullyRemovedComponents(v, removed) ==
    {c \in Range(v.components) :
        \A f \in DOMAIN v.components : v.components[f] = c => f \in removed}

(* Mutant of ComponentsExplained: only a lost component is looked for.       *)
NoComponentLost(v, before, after, removed) ==
    after.components >= before.components - Cardinality(FullyRemovedComponents(v, removed))

(* A component goes only with all of its faces, and none appears.           *)
ComponentsExplained(v, before, after, removed) ==
    after.components = before.components - Cardinality(FullyRemovedComponents(v, removed))

(* The verdict: before and after are two reports of the same analysis.      *)
Validate(p, v, before, after, removed, faces) ==
    LET predicted == PredictAfterRemoval(v, removed)
        ran == "winding" \in p.order
        worse(op, defect) == op \in p.order /\ after[defect] > before[defect]
        broken ==
          [StructurallyInvalid |-> faces = <<>>,
           BoundaryEdgesIncreased |-> after.boundary # predicted.boundary,
           NonManifoldEdgesIncreased |-> after.nonManifold # predicted.nonManifold,
           NonManifoldVerticesIncreased |->
               after.nonManifoldVertices > before.nonManifoldVertices,
           WindingConflictsIncreased |->
               after.conflicts # (IF ran THEN 0 ELSE predicted.conflicts),
           ReversedDuplicatesChanged |-> after.reversed # before.reversed,
           ComponentCountChanged |-> ~ComponentsExplained(v, before, after, removed),
           TargetDefectNotRemoved |->
               \/ worse("duplicates", "same")
               \/ worse("repeated", "repeated")
               \/ worse("zeroArea", "zeroArea")
               \/ ran /\ after.conflicts # 0]
    IN {name \in DOMAIN broken : broken[name]}

NoFill == [regressions |-> {}, base |-> Empty, closed |-> {}]

NoCandidate(acceptance) ==
    [acceptance |-> acceptance, regressions |-> {}, candidate |-> Empty, fill |-> NoFill]

(* executeConservativeRepair: a stage the plan refused ends it.             *)
ExecuteRepair(m, lines, v, before, p) ==
    LET removed == UNION {p.selected[op] : op \in p.order \ {"winding"}}
        flipped == IF "winding" \in p.order THEN p.flipped ELSE {}
        faces == RebuildCandidate(m.faces, removed, flipped)
        after == Report(faces, lines, BuildView(faces))
        regressions == Validate(p, v, before, after, removed, faces)
    IN IF p.order = {} THEN NoCandidate("no-op")
       ELSE IF p.refused # {} THEN NoCandidate("refused")
       ELSE IF regressions # {}
       THEN [NoCandidate("rejected") EXCEPT !.regressions = regressions]
       ELSE [NoCandidate("accepted") EXCEPT
               !.candidate = [faces |-> faces,
                              split |-> Cardinality((1 .. m.split) \ removed)]]

(* What a fill starts from: what the repair made, or the source when it had *)
(* nothing to do.  A rejected repair is not filled.                         *)
FillBases ==
    IF phase # "executed" THEN {}
    ELSE IF result.acceptance = "accepted" THEN {result.candidate}
    ELSE IF result.acceptance = "no-op" THEN {mesh} ELSE {}

(* runFillStage, once some openings are admitted.  Patches join no group.   *)
FillOutcome(base, admitted) ==
    LET faces == AppendPatches(base.faces, admitted)
        before == Report(base.faces, collinear, BuildView(base.faces))
        after == Report(faces, collinear, BuildView(faces))
        regressions == JudgeFilled(before, after, admitted)
    IN IF regressions # {} THEN [result EXCEPT !.fill.regressions = regressions]
       ELSE [NoCandidate("accepted") EXCEPT
               !.candidate = [faces |-> faces, split |-> base.split],
               !.fill = [regressions |-> {}, base |-> base, closed |-> DOMAIN admitted]]
-----------------------------------------------------------------------------
Used == UNION {Corners(mesh.faces[f]) : f \in DOMAIN mesh.faces}

(* The triangles whose vertices are all on the line.                        *)
OnLine(line) == {f \in DOMAIN mesh.faces : /\ ~IsRepeated(mesh.faces, f)
                                           /\ Corners(mesh.faces[f]) \subseteq line}

Init ==
    /\ \E file \in Files : mesh = [faces |-> file, split |-> 0]
    /\ collinear = {} /\ phase = "reading" /\ repairs = 0
    /\ view = Empty /\ report = Empty /\ plan = Empty /\ result = Empty

(* A file's next face.  Vertices are numbered as they first appear.         *)
AddFace(face) ==
    /\ phase = "reading" /\ Len(mesh.faces) < MaxFaces
    /\ LET new == Corners(face) \ Used
       IN /\ \A v \in new : \A w \in 1 .. v - 1 : w \in Used \cup new
          /\ \A j, k \in 1..3 : {face[j], face[k]} \subseteq new /\ j < k
                                => face[j] <= face[k]
    /\ mesh' = [mesh EXCEPT !.faces = Append(@, face)]
    /\ UNCHANGED <<collinear, phase, view, report, plan, result, repairs>>

(* model/analyze of what was read: some of the vertices lie on one line.    *)
Analyse(line, split) ==
    /\ phase = "reading" /\ mesh.faces # <<>>
    /\ split <= Len(mesh.faces)
    /\ line = UNION {Corners(mesh.faces[f]) : f \in OnLine(line)}
    /\ phase' = "analysed"
    /\ mesh' = [mesh EXCEPT !.split = split]
    /\ collinear' = kSubset(3, line)
    /\ view' = BuildView(mesh.faces)
    /\ report' = Report(mesh.faces, collinear', view')
    /\ UNCHANGED <<plan, result, repairs>>

(* repair/plan.                                                             *)
Plan(requested) ==
    /\ phase = "analysed"
    /\ phase' = "planned"
    /\ plan' = PlanRepair(mesh, collinear, view, report, requested)
    /\ UNCHANGED <<mesh, collinear, view, report, result, repairs>>

(* repair/create-candidate.                                                 *)
Execute ==
    /\ phase = "planned"
    /\ phase' = "executed"
    /\ result' = ExecuteRepair(mesh, collinear, view, report, plan)
    /\ UNCHANGED <<mesh, collinear, view, report, plan, repairs>>

(* The same request, when openings are to be filled.                        *)
Fill(base, admitted) ==
    /\ phase' = "filled"
    /\ result' = FillOutcome(base, admitted)
    /\ UNCHANGED <<mesh, collinear, view, report, plan, repairs>>

(* repair/commit: the candidate is the mesh, and is analysed afresh.        *)
Commit ==
    /\ phase \in {"executed", "filled"} /\ result.acceptance = "accepted"
    /\ repairs < MaxRepairs
    /\ phase' = "analysed" /\ repairs' = repairs + 1
    /\ mesh' = result.candidate
    /\ view' = BuildView(mesh'.faces)
    /\ report' = Report(mesh'.faces, collinear, view')
    /\ plan' = Empty /\ result' = Empty
    /\ UNCHANGED collinear

Next ==
    \/ \E face \in Shapes : AddFace(face)
    \/ \E line \in SUBSET Used, split \in Splits : Analyse(line, split)
    \/ \E requested \in Requests : Plan(requested)
    \/ Execute
    \/ \E base \in FillBases :
          \E admitted \in Admissions(base.faces, collinear) : Fill(base, admitted)
    \/ Commit

Spec == Init /\ [][Next]_vars
-----------------------------------------------------------------------------
Removals(ops) == UNION {plan.selected[op] : op \in ops \ {"winding"}}

(* The reference for the components: faces that a chain of shared edges     *)
(* joins.                                                                   *)
SharedEdges(faces) ==
    {p \in (DOMAIN faces) \X (DOMAIN faces) :
        SidesOf(faces[p[1]]) \cap SidesOf(faces[p[2]]) # {}}

Pieces(faces) ==
    LET shared == SharedEdges(faces)
    IN {JoinedTo(f, DOMAIN faces, LAMBDA a, b : <<a, b>> \in shared) : f \in DOMAIN faces}

(* A component is never more than what shared edges join, and it is all of  *)
(* that where no edge has more than two faces: what analyseComponents says  *)
(* of itself, for every order in which faces and edges come.                *)
ComponentsAreConnected ==
    phase = "analysed" =>
        /\ LET shared == SharedEdges(mesh.faces) IN
           \A c \in Range(view.components) :
              Connected({f \in DOMAIN mesh.faces : view.components[f] = c},
                        LAMBDA a, b : <<a, b>> \in shared)
        /\ NonManifoldEdges(view.groups) = {} =>
               report.components = Cardinality(Pieces(mesh.faces))

(* Flipping those faces leaves no two neighbours that disagree.             *)
Orients(faces, flips) ==
    LET edges == DirectedEdges(RebuildCandidate(faces, {}, flips))
    IN Cardinality(WindingConflicts(edges, GroupEdges(edges))) = 0

(* What solveWinding answers is so: its flips make every two neighbours     *)
(* agree and leave each piece's lowest face as it was, and a mesh it calls  *)
(* non-orientable has no flips that would, Moebius strips among them.       *)
SolverFindsTheOrientation ==
    phase = "planned" =>
        LET kept == Survivors(mesh.faces, Removals(DOMAIN plan.selected \ plan.refused))
            between == RebuildCandidate(mesh.faces, DOMAIN mesh.faces \ Range(kept), {})
            flips == {j \in DOMAIN kept : kept[j] \in plan.flipped}
        IN /\ plan.winding \in {"solved", "consistent"} =>
                 /\ Orients(between, flips)
                 /\ \A S \in Pieces(between) :
                       (CHOOSE j \in S : \A k \in S : j <= k) \notin flips
           /\ plan.winding = "nonOrientable" =>
                 ~\E S \in SUBSET DOMAIN between : Orients(between, S)

Accepted == phase \in {"executed", "filled"} /\ result.acceptance = "accepted"

(* An accepted candidate is free of every defect the plan said it would     *)
(* remove, although the stages were selected on the source and validation   *)
(* only asks that no defect grew.                                           *)
AcceptedIsRepaired ==
    Accepted =>
        LET faces == result.candidate.faces
        IN /\ "duplicates" \in plan.order => SelectDuplicateFaces(faces) = {}
           /\ "repeated" \in plan.order => SelectRepeated(faces) = {}
           /\ "zeroArea" \in plan.order => SelectZeroArea(faces, collinear) = {}
           /\ "winding" \in plan.order => Orients(faces, {})

(* An accepted repair tears no piece of the surface, joins none and loses   *)
(* none it did not remove whole: the verdict counts components before and   *)
(* after, and a tear must not hide behind a piece that went.  It says so of *)
(* a mesh whose edges have at most two faces (see ComponentsAreWhole).      *)
RepairsTearNothing ==
    Accepted /\ NonManifoldEdges(view.groups) = {} =>
        Cardinality(Pieces(result.candidate.faces))
            = Cardinality({S \in Pieces(mesh.faces) : ~(S \subseteq Removals(plan.order))})
-----------------------------------------------------------------------------
(* The scan that the automatic fill uses finds the loops the extraction     *)
(* finds, with the same orders, faces and refusals, and the report counts   *)
(* the same components; a fillable loop is a simple one to all three.       *)
OneAnswerAboutOpenings ==
    phase = "analysed" =>
        LET extracted == ExtractBoundaryLoops(view.edges, view.groups)
            scan == ScanBoundaries(mesh.faces)
            kinds == BoundaryKinds(view.edges, view.groups)
        IN /\ scan.boundary = report.boundary
           /\ scan.loops \in {extracted, {}}
           /\ scan.loops = {} => extracted = {} \/ scan.boundary > MaxBoundaryEdges
           /\ DOMAIN kinds = {loop.members : loop \in extracted}
           /\ \A loop \in Eligible(extracted) : kinds[loop.members] = "simple"

(* What the automatic fill builds for an opening is what the engine that    *)
(* fills a chosen opening accepts, whichever way the loop is clipped: the   *)
(* one asks the loop and the table of edges, the other analyses the whole   *)
(* candidate.                                                               *)
AdmissionAgreesWithTheEngine ==
    phase = "analysed" =>
        LET scan == ScanBoundaries(mesh.faces)
        IN \A loop \in Eligible(scan.loops) :
             \A clipping \in Clippings(Len(loop.cycle)) :
               LET patch == PatchFaces(loop, clipping)
               IN BuildsPatch(loop, patch, scan.edges, collinear)
                    <=> EngineAccepts(mesh.faces, collinear, loop, patch)

(* Openings that were admitted one by one, with patches that never saw each *)
(* other, are closed together exactly: the rims and nothing else leave the  *)
(* boundary, no edge or vertex becomes non-manifold and no winding folds.   *)
(* The verdict rejects only by a count of components, which is wrong where  *)
(* an edge has more than two faces (see ComponentsAreWhole).                *)
FillsCloseExactlyTheirOpenings ==
    phase = "filled" =>
        LET single(faces) ==
                LET table == EdgeTable(faces)
                IN {pair \in DOMAIN table : Incidence(table, pair) = 1}
            fill == result.fill
            old == Defects(fill.base.faces)
            new == Defects(result.candidate.faces)
            filled == IF result.acceptance = "accepted" THEN result.candidate ELSE mesh
        IN /\ \/ fill.regressions = {}
              \/ fill.regressions = {"Components"} /\ Defects(filled.faces).edges # {}
           /\ fill.regressions = {} =>
                 /\ single(result.candidate.faces)
                      = single(fill.base.faces) \ (UNION {RimPairs(loop) : loop \in fill.closed})
                 /\ new.edges = old.edges /\ new.conflicts = old.conflicts
                 /\ new.vertices \subseteq old.vertices
-----------------------------------------------------------------------------
(* What the documentation says and the code does not do (see the README).   *)

(* A component is all the faces that a chain of shared edges joins.         *)
ComponentsAreWhole ==
    phase = "analysed" => report.components = Cardinality(Pieces(mesh.faces))

(* The removals of degenerate faces that a repair makes open no boundary    *)
(* and add no non-manifold edge.                                            *)
DegenerateRemovalsAreInert ==
    phase = "executed" /\ result.acceptance = "accepted" /\ "duplicates" \notin plan.order =>
        LET groups == BuildView(result.candidate.faces).groups
        IN /\ Cardinality(BoundaryEdges(groups)) <= report.boundary
           /\ Cardinality(NonManifoldEdges(groups)) <= report.nonManifold

(* Repairing an accepted result again changes nothing.                      *)
RepairIsIdempotent ==
    repairs > 0 /\ phase = "executed" => result.acceptance # "accepted"

(* A stage the plan refused is skipped; the others still run.               *)
RefusalsAreSkipped ==
    phase = "executed" => result.acceptance # "refused"
=============================================================================
