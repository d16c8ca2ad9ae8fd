---------------------------- MODULE BoundaryLoops ----------------------------
(***************************************************************************)
(* The openings of a mesh, which the code finds twice: extractBoundaryLoops *)
(* from the edges of the topology analysis, and scanBoundaries from a table *)
(* of undirected edges that holds one directed edge, a count and a bit per  *)
(* entry.  The topology report classifies the same components a third time. *)
(*                                                                         *)
(* The numbers the code gives vertices decide where a loop's list starts    *)
(* and in which order loops come; here both follow the vertices' names.     *)
(***************************************************************************)
EXTENDS MeshTopology
LOCAL INSTANCE SequencesExt
LOCAL INSTANCE FiniteSetsExt
LOCAL INSTANCE TLC

CONSTANTS MaxLoopVertices,  \* more vertices are refused
          MaxBoundaryEdges  \* above it the scan assembles no loop

ASSUME LoopLimitsAssumption == {MaxLoopVertices, MaxBoundaryEdges} \subseteq Nat

(* A rim edge goes the way of the face that is missing: against its own.    *)
RimEdge(low, high, forward, face) ==
    [from |-> IF forward THEN high ELSE low,
     to |-> IF forward THEN low ELSE high,
     face |-> face]

IsSegment(e) == e.from # e.to
Segments(rim) == SelectSeq(rim, IsSegment)
EndsOfRim(rim) == UNION {{rim[i].from, rim[i].to} : i \in DOMAIN rim}
-----------------------------------------------------------------------------
(* The smallest vertex of each vertex's component: the union keeps it.      *)
RootsOf(rim) ==
    LET join(root, e) ==
            LET a == root[e.from]
                b == root[e.to]
            IN [v \in DOMAIN root |->
                  IF root[v] \in {a, b} THEN Min({a, b}) ELSE root[v]]
    IN FoldLeft(join, [v \in EndsOfRim(rim) |-> v], Segments(rim))

ComponentsOf(rim) ==
    LET root == RootsOf(rim)
    IN {{v \in EndsOfRim(rim) : root[v] = r} : r \in {v \in EndsOfRim(rim) : root[v] = v}}

NotSet == 0

(* What is known of the rim's vertices before a walk.  Of the edges that    *)
(* leave a vertex, the first one is followed.                               *)
Signals(rim, nonManifoldAt, conflictAt) ==
    LET segments == Segments(rim)
        leaving(v) == SelectSeq(segments, LAMBDA e : e.from = v)
        reaching(v) == SelectSeq(segments, LAMBDA e : e.to = v)
    IN [next |-> [v \in EndsOfRim(rim) \cup {NotSet} |->
                    IF leaving(v) = <<>> THEN [to |-> NotSet, face |-> NotSet]
                    ELSE Head(leaving(v))],
        out |-> [v \in EndsOfRim(rim) |-> Len(leaving(v))],
        in |-> [v \in EndsOfRim(rim) |-> Len(reaching(v))],
        degenerateAt |-> {rim[i].from : i \in {j \in DOMAIN rim : ~IsSegment(rim[j])}},
        nonManifoldAt |-> nonManifoldAt,
        conflictAt |-> conflictAt]

(* The order in which a component's defects are named.                      *)
RefusalOrder ==
    <<"DegenerateSegment", "NonManifoldAdjacency", "AmbiguousOrientation",
      "BranchedBoundary", "ConvergentBoundary", "NotClosed">>

FirstOf(order, holds) ==
    LET named == SelectSeq(order, LAMBDA name : holds[name])
    IN IF named = <<>> THEN "none" ELSE Head(named)

ComponentRefusal(members, signals) ==
    FirstOf(RefusalOrder,
      [DegenerateSegment |-> members \cap signals.degenerateAt # {},
       NonManifoldAdjacency |-> members \cap signals.nonManifoldAt # {},
       AmbiguousOrientation |-> members \cap signals.conflictAt # {},
       BranchedBoundary |-> \E v \in members : signals.out[v] > 1,
       ConvergentBoundary |-> \E v \in members : signals.in[v] > 1,
       NotClosed |-> \E v \in members : signals.out[v] = 0 \/ signals.in[v] = 0])

(* The walk from the smallest member until it is back there.                *)
WalkCycle(members, signals) ==
    LET start == Min(members)
        steps == 1 .. Cardinality(members) + 1
        at[k \in Nat] == IF k = 0 THEN start ELSE signals.next[at[k - 1]].to
        back == {k \in steps : at[k] = start}
        walked == IF back = {} THEN {} ELSE 1 .. Min(back)
    IN [cycle |-> [k \in walked |-> at[k - 1]],
        faces |-> [k \in walked |-> signals.next[at[k - 1]].face],
        refusal |-> IF back # {} THEN "none"
                    ELSE IF \E k \in steps : at[k] = NotSet THEN "NotClosed"
                    ELSE "RepeatedVertex"]

(* One component as a loop.  A refused one shows no order.                  *)
LoopOf(members, signals) ==
    LET refused == ComponentRefusal(members, signals)
        walk == WalkCycle(members, signals)
        size == Cardinality(members)
        refusal ==
            IF refused # "none" THEN refused
            ELSE IF walk.refusal # "none" THEN walk.refusal
            ELSE IF Len(walk.cycle) # size THEN "NotClosed"
            ELSE IF size < 3 THEN "TooFewVertices"
            ELSE IF size > MaxLoopVertices THEN "TooManyVertices"
            ELSE "none"
        shown(s) == IF refusal = "none" THEN s ELSE <<>>
    IN [members |-> members, refusal |-> refusal,
        cycle |-> shown(walk.cycle), faces |-> shown(walk.faces),
        edges |-> FoldSet(LAMBDA v, n : n + signals.out[v], 0, members)]

(* The rim and the signals are bound, so that TLC computes them once.       *)
LoopsOf(boundary, nonManifoldAt, conflictAt) ==
    UNION {{LoopOf(members, signals) :
              members \in ComponentsOf(rim),
              signals \in {Signals(rim, nonManifoldAt, conflictAt)}} : rim \in {boundary}}

Eligible(loops) == {loop \in loops : loop.refusal = "none"}
-----------------------------------------------------------------------------
(* extractBoundaryLoops.                                                    *)
ExtractedRim(edges, groups) ==
    LET single == SelectSeq(groups, LAMBDA group : Len(group) = 1)
        rim(e) == RimEdge(e.low, e.high, e.forward, e.face)
    IN [k \in DOMAIN single |-> rim(edges[single[k][1]])]

ExtractBoundaryLoops(edges, groups) ==
    LET ends(kind) == UNION {EndsOf(edges, groups[g]) : g \in kind}
    IN LoopsOf(ExtractedRim(edges, groups),
               ends(NonManifoldEdges(groups)), ends(WindingConflicts(edges, groups)))

(* A loop is told from another by its members and its order.                *)
LoopIdentity(loop) == [members |-> loop.members, cycle |-> loop.cycle]
-----------------------------------------------------------------------------
(* scanBoundaries.  The directed edges as the faces list them.              *)
ScannedEdges(faces) ==
    [d \in 1 .. 3 * Len(faces) |->
        LET f == 1 + (d - 1) \div 3
        IN [from |-> Corner(faces[f], (d - 1) % 3), to |-> Corner(faces[f], d % 3),
            face |-> f]]

(* Mutant of Count: the count is not held at three and runs over.           *)
CountOn(entry, d) ==
    [entry EXCEPT !.count = (@ + 1) % 4,
                  !.conflict = @ \/ (entry.count = 1 /\ entry.first.from = d.from
                                                     /\ entry.first.to = d.to)]

(* One more face on an edge: two bits of count and one of conflict.         *)
Count(entry, d) ==
    IF entry.count = 3 THEN entry
    ELSE [entry EXCEPT !.count = @ + 1,
                       !.conflict = @ \/ (entry.count = 1 /\ entry.first.from = d.from
                                                          /\ entry.first.to = d.to)]

EdgeTable(faces) ==
    LET edges == ScannedEdges(faces)
        on(pair) == SelectSeq(edges, LAMBDA d : {d.from, d.to} = pair)
        entry(uses) == FoldLeft(Count, [first |-> Head(uses), count |-> 1,
                                        conflict |-> FALSE], Tail(uses))
    IN [pair \in {{edges[d].from, edges[d].to} : d \in DOMAIN edges} |-> entry(on(pair))]

Incidence(table, pair) == IF pair \in DOMAIN table THEN table[pair].count ELSE 0

ScannedRim(faces, table) ==
    LET edges == ScannedEdges(faces)
        single == EntriesAt(edges, {d \in DOMAIN edges :
                                      table[{edges[d].from, edges[d].to}].count = 1})
    IN [k \in DOMAIN single |-> [from |-> single[k].to, to |-> single[k].from,
                                 face |-> single[k].face]]

ScannedLoops(table, rim) ==
    LET crowded == {pair \in DOMAIN table : table[pair].count >= 3}
        folded == {pair \in DOMAIN table : table[pair].count = 2 /\ table[pair].conflict}
    IN IF Len(rim) > MaxBoundaryEdges THEN {}
       ELSE LoopsOf(rim, UNION crowded, UNION folded)

ScanBoundaries(faces) ==
    LET scanned(table, rim) ==
            [edges |-> table, boundary |-> Len(rim), loops |-> ScannedLoops(table, rim)]
    IN CHOOSE scan \in {scanned(table, ScannedRim(faces, table)) :
                           table \in {EdgeTable(faces)}} : TRUE
-----------------------------------------------------------------------------
(* analyseBoundary: the components by the number of edges at a vertex, an   *)
(* edge that joins a vertex to itself counted twice there.                  *)
BoundaryKinds(edges, groups) ==
    LET rim == ExtractedRim(edges, groups)
        degree(v) == Cardinality({i \in DOMAIN rim : rim[i].from = v})
                     + Cardinality({i \in DOMAIN rim : rim[i].to = v})
        ends(members) == Cardinality({v \in members : degree(v) = 1})
        kind(members) == IF \E v \in members : degree(v) > 2 THEN "branched"
                         ELSE IF ends(members) = 0 THEN "simple"
                         ELSE IF ends(members) = 2 THEN "open" ELSE "branched"
    IN [members \in ComponentsOf(rim) |-> kind(members)]
=============================================================================
