--------------------------- MODULE WorkspaceStore ---------------------------
(* The page's workspace store: the analysis, repair and hole-fill slices of *)
(* one loaded document, as functions from the store's state to the next.    *)
(* Every attempt to fill a slice holds a token; 0 is no token.              *)
EXTENDS Naturals

(* What a report, a plan or a list of openings is about.                    *)
Subject(revision, part) == [revision |-> revision, part |-> part]

Nothing == Subject(0, 0)

(* A previewed candidate: where it was built, and the opening it fills.     *)
Candidate(id, subject, opening) == [id |-> id, subject |-> subject, opening |-> opening]

NoCandidate == Candidate(0, Nothing, 0)

EmptyAnalysis(subject) == [state |-> "idle", subject |-> subject, report |-> Nothing]

EmptyRepair ==
    [planState |-> "unavailable", plan |-> Nothing,
     candidateState |-> "idle", candidate |-> NoCandidate,
     commitState |-> "idle", lastApplied |-> 0]

EmptyHoleFill ==
    [inventory |-> "idle", rows |-> Nothing, selected |-> 0,
     workState |-> "idle", candidate |-> NoCandidate,
     commitState |-> "idle", lastApplied |-> 0]

(* After commitImport of a document at revision 1.                          *)
ImportedStore(part) ==
    [revision |-> 1, part |-> part,
     analysis |-> EmptyAnalysis(Subject(1, part)), analysisToken |-> 0,
     repair |-> EmptyRepair, repairToken |-> 0,
     holeFill |-> EmptyHoleFill, holeFillToken |-> 0]

Shown(s) == Subject(s.revision, s.part)

IsCurrentRepair(s, token) == token # 0 /\ s.repairToken = token

IsCurrentHoleFill(s, token) == token # 0 /\ s.holeFillToken = token

(* The tokens of analysis and repair are dropped, a fill's is not; what the *)
(* user filled last stays undoable, what was repaired last does not.        *)
SelectPart(s, part) ==
    [s EXCEPT !.part = part,
              !.analysisToken = 0, !.repairToken = 0,
              !.analysis = EmptyAnalysis(Subject(s.revision, part)),
              !.repair = EmptyRepair,
              !.holeFill = [EmptyHoleFill EXCEPT !.lastApplied = s.holeFill.lastApplied]]
-----------------------------------------------------------------------------
(* Topology analysis *)

BeginAnalysis(s, token) ==
    [s EXCEPT !.analysisToken = token,
              !.analysis = [state |-> "analyzing", subject |-> Shown(s),
                            report |-> IF @.subject = Shown(s) THEN @.report ELSE Nothing]]

IsCurrentAnalysis(s, token) == token # 0 /\ s.analysisToken = token

(* Mutant: the part is not compared.                                        *)
CommitAnalysisOfAnyPart(s, token, subject) ==
    IF subject.revision = s.revision
    THEN [s EXCEPT !.analysisToken = 0,
                   !.analysis = [state |-> "ready", subject |-> subject, report |-> subject]]
    ELSE s

CommitAnalysis(s, token, subject) ==
    IF IsCurrentAnalysis(s, token) /\ subject = Shown(s)
    THEN [s EXCEPT !.analysisToken = 0,
                   !.analysis = [state |-> "ready", subject |-> subject, report |-> subject]]
    ELSE s

FailAnalysis(s, token) ==
    IF IsCurrentAnalysis(s, token)
    THEN [s EXCEPT !.analysisToken = 0, !.analysis.state = "failed"]
    ELSE s

(* Falls back to the report the slice still holds.                          *)
CancelAnalysis(s, token) ==
    IF IsCurrentAnalysis(s, token)
    THEN [s EXCEPT !.analysisToken = 0,
                   !.analysis.state = IF s.analysis.report # Nothing THEN "ready" ELSE "cancelled"]
    ELSE s
-----------------------------------------------------------------------------
(* Conservative repair: a plan, a candidate, a commit or an undo *)

WithoutRepairCandidate(repair, state) ==
    [repair EXCEPT !.candidateState = state, !.candidate = NoCandidate]

BeginRepairPlan(s, token) ==
    [s EXCEPT !.repairToken = token,
              !.repair = [WithoutRepairCandidate(@, "idle") EXCEPT !.planState = "planning"]]

CommitRepairPlan(s, token, subject) ==
    IF IsCurrentRepair(s, token) /\ subject.revision = s.revision
    THEN [s EXCEPT !.repair.planState = "ready", !.repair.plan = subject]
    ELSE s

FailRepairPlan(s, token) ==
    IF IsCurrentRepair(s, token)
    THEN [s EXCEPT !.repairToken = 0, !.repair.planState = "failed"]
    ELSE s

(* setRepairSelection and setFillOpenings: the plan stays on screen.        *)
SetRepairSelection(s) ==
    [s EXCEPT !.repairToken = 0,
              !.repair = [WithoutRepairCandidate(@, "idle") EXCEPT !.planState = "planning"]]

(* beginRepairPreview, for a plan with work in it, and beginRepairCandidate.*)
BeginRepairCandidate(s, token) ==
    [s EXCEPT !.repairToken = token,
              !.repair = WithoutRepairCandidate(@, "building")]

MayInstallRepair(s, token, candidate) ==
    IsCurrentRepair(s, token) /\ candidate.subject.revision = s.revision

CommitRepairCandidate(s, candidate) ==
    [s EXCEPT !.repair.candidateState = "ready", !.repair.candidate = candidate]

(* failRepairCandidate and cancelRepairCandidate.                           *)
EndRepairCandidate(s, token, state) ==
    IF IsCurrentRepair(s, token)
    THEN [s EXCEPT !.repair = WithoutRepairCandidate(@, state)]
    ELSE s

BeginRepairCancellation(s, token) ==
    IF IsCurrentRepair(s, token) /\ s.repair.candidateState = "building"
    THEN [s EXCEPT !.repair.candidateState = "cancelling"]
    ELSE s

ClearRepairCandidate(s) == [s EXCEPT !.repair = WithoutRepairCandidate(@, "idle")]

(* beginRepairCommit does not look at the fill slice.                       *)
MayCommitRepair(s) ==
    s.repair.commitState = "idle" /\ s.repair.candidateState = "ready"

MayUndoRepair(s) == s.repair.commitState = "idle" /\ s.repair.lastApplied # 0

BeginRepairChange(s, state) == [s EXCEPT !.repair.commitState = state]

(* failRepairCommit and failRepairUndo, whatever the slot was claimed for.  *)
FailRepairChange(s) == [s EXCEPT !.repair.commitState = "idle"]
-----------------------------------------------------------------------------
(* Hole filling: a list of openings, a candidate, a commit or an undo *)

BeginHoleFillListing(s, token) ==
    [s EXCEPT !.holeFillToken = token,
              !.holeFill.inventory = "listing", !.holeFill.rows = Nothing,
              !.holeFill.selected = 0]

(* The token alone says that the rows are of the model on screen.           *)
CommitHoleFillListing(s, token, subject) ==
    IF IsCurrentHoleFill(s, token)
    THEN [s EXCEPT !.holeFillToken = 0,
                   !.holeFill.inventory = "ready", !.holeFill.rows = subject]
    ELSE s

FailHoleFillListing(s, token) ==
    IF IsCurrentHoleFill(s, token)
    THEN [s EXCEPT !.holeFillToken = 0,
                   !.holeFill.inventory = "failed", !.holeFill.rows = Nothing]
    ELSE s

WithoutFillCandidate(holeFill, state) ==
    [holeFill EXCEPT !.workState = state, !.candidate = NoCandidate]

(* Mutant: the work on the opening selected before stays in the slice.      *)
SelectKeepingWork(s, opening) ==
    IF s.holeFill.selected = opening THEN s
    ELSE [s EXCEPT !.holeFillToken = 0, !.holeFill.selected = opening]

SelectBoundaryLoop(s, opening) ==
    IF s.holeFill.selected = opening THEN s
    ELSE [s EXCEPT !.holeFillToken = 0,
                   !.holeFill = [WithoutFillCandidate(@, "idle") EXCEPT !.selected = opening]]

BeginHoleFillCandidate(s, token) ==
    [s EXCEPT !.holeFillToken = token,
              !.holeFill = WithoutFillCandidate(@, "generating")]

BeginHoleFillCancellation(s, token) ==
    IF IsCurrentHoleFill(s, token) /\ s.holeFill.workState = "generating"
    THEN [s EXCEPT !.holeFill.workState = "cancelling"]
    ELSE s

(* failHoleFillCandidate and cancelHoleFillCandidate.                       *)
EndHoleFillCandidate(s, token, state) ==
    IF IsCurrentHoleFill(s, token)
    THEN [s EXCEPT !.holeFillToken = 0, !.holeFill = WithoutFillCandidate(@, state)]
    ELSE s

MayInstallFill(s, token, candidate) ==
    /\ IsCurrentHoleFill(s, token)
    /\ candidate.subject = Shown(s) /\ candidate.opening = s.holeFill.selected

CommitHoleFillCandidate(s, candidate) ==
    [s EXCEPT !.holeFillToken = 0,
              !.holeFill.workState = "ready", !.holeFill.candidate = candidate]

ClearHoleFillCandidate(s) ==
    IF s.holeFill.workState = "idle" THEN s
    ELSE [s EXCEPT !.holeFillToken = 0, !.holeFill = WithoutFillCandidate(@, "idle")]

MayCommitFill(s) ==
    /\ s.holeFill.commitState = "idle" /\ s.repair.commitState = "idle"
    /\ s.holeFill.workState = "ready"

MayUndoFill(s) ==
    /\ s.holeFill.commitState = "idle" /\ s.repair.commitState = "idle"
    /\ s.holeFill.lastApplied # 0

BeginHoleFillChange(s, state) == [s EXCEPT !.holeFill.commitState = state]

(* failHoleFillCommit and failHoleFillUndo.                                 *)
FailHoleFillChange(s) == [s EXCEPT !.holeFill.commitState = "idle"]
-----------------------------------------------------------------------------
(* A change of the geometry: another revision is on screen *)

(* What the four of them share. A fill's token survives a repair, an undo.  *)
Install(s, revision) ==
    [s EXCEPT !.revision = revision,
              !.analysisToken = 0, !.repairToken = 0,
              !.analysis = EmptyAnalysis(Subject(revision, s.part)),
              !.repair = EmptyRepair, !.holeFill = EmptyHoleFill]

(* Mutant: only a slice that waits for it takes the result.                 *)
ApplyClaimedRepair(s, revision) ==
    IF s.repair.commitState = "applying"
    THEN [Install(s, revision) EXCEPT !.repair.lastApplied = revision]
    ELSE s

ApplyRepairResult(s, revision) ==
    [Install(s, revision) EXCEPT !.repair.lastApplied = revision]

(* Mutant: the page counts the restored revision once more.                 *)
ApplyUndoAhead(s, revision) == Install(s, revision + 1)

ApplyUndoResult(s, revision) == Install(s, revision)

(* Mutant: the repair done before stays on offer.                           *)
ApplyFillKeepingRepair(s, revision) ==
    [Install(s, revision) EXCEPT !.holeFillToken = 0, !.holeFill.lastApplied = revision,
                                 !.repair.lastApplied = s.repair.lastApplied]

ApplyHoleFillResult(s, revision) ==
    [Install(s, revision) EXCEPT !.holeFillToken = 0, !.holeFill.lastApplied = revision]

(* Split and texture results, of the revision they were made from.          *)
MayInstallEdit(s, parentRevision) == s.revision = parentRevision

ApplyGeometryEditResult(s, revision) ==
    [Install(s, revision) EXCEPT !.holeFillToken = 0]
=============================================================================
