----------------------------- MODULE PageProofs -----------------------------
(* Theorems about the page and its hooks, for any parts, setups and number  *)
(* of requests under way.                                                   *)
EXTENDS WorkspacePage, FiniteSetTheorems, SequenceTheorems, TLAPS

(* The kinds of values.                                                     *)

Kinds == Slow \cup Discards \cup Changes \cup {"list", "cancelFill"}

Streams == {"analysis", "repair", "fill", "history"}

States ==
    {"idle", "analyzing", "ready", "failed", "cancelled", "unavailable", "planning",
     "building", "cancelling", "applying", "undoing", "listing", "generating"}

Subjects == [revision : Nat, part : Parts \cup {0}]

Requests == [kind : Kinds, token : Nat, subject : Subjects, opening : Nat, id : Nat]

Candidates == [id : Nat, subject : Subjects, opening : Nat]

Analyses == [state : States, subject : Subjects, report : Subjects]

Repairs ==
    [planState : States, plan : Subjects, candidateState : States, candidate : Candidates,
     commitState : States, lastApplied : Nat]

HoleFills ==
    [inventory : States, rows : Subjects, selected : Nat, workState : States,
     candidate : Candidates, commitState : States, lastApplied : Nat]

Stores ==
    [revision : Nat \ {0}, part : Parts, analysis : Analyses, analysisToken : Nat,
     repair : Repairs, repairToken : Nat, holeFill : HoleFills, holeFillToken : Nat]

Pages ==
    [setup : AllSetups, store : Stores, out : Seq(Requests), stop : SUBSET (Streams \X Nat),
     startedFor : Subjects, plannedFor : Subjects, analysisSession : Nat,
     repairSession : Nat, repairActive : Nat, repairLive : Nat,
     fillSession : Nat, fillActive : Nat, fillLive : Nat, fillRun : Nat,
     edit : [applying : BOOLEAN, record : Nat, revision : Nat]]

-----------------------------------------------------------------------------
(* The slices of the store.                                                 *)

(* What each slice shows is of the model m, and what it offers to undo is   *)
(* the change that made it.                                                 *)
AnalysisOf(a, m) == a \in Analyses /\ a.report \in {Nothing, m}

RepairOf(r, m) ==
    /\ r \in Repairs
    /\ r.planState = "ready" => r.plan = m
    /\ r.candidate.subject \in {Nothing, m}
    /\ r.lastApplied \in {0, m.revision}

(* Only an opening of a list on screen is selected or filled.               *)
HoleFillOf(h, m) ==
    /\ h \in HoleFills
    /\ h.rows \in {Nothing, m}
    /\ h.rows # Nothing => h.inventory = "ready"
    /\ h.selected # 0 => h.inventory = "ready"
    /\ h.candidate # NoCandidate =>
         /\ h.inventory = "ready"
         /\ h.candidate.subject = m /\ h.candidate.opening = h.selected
    /\ h.lastApplied \in {0, m.revision}

StoreInv(s) ==
    /\ s \in Stores
    /\ AnalysisOf(s.analysis, Shown(s))
    /\ RepairOf(s.repair, Shown(s))
    /\ HoleFillOf(s.holeFill, Shown(s))

(* An operation on one slice, and on its token.                             *)
WithAnalysis(s, n, a) == [s EXCEPT !.analysisToken = n, !.analysis = a]

WithRepair(s, n, r) == [s EXCEPT !.repairToken = n, !.repair = r]

WithHoleFill(s, n, h) == [s EXCEPT !.holeFillToken = n, !.holeFill = h]

(* The model and what can be undone stay.                                   *)
KeepsModel(s, t) ==
    /\ StoreInv(t)
    /\ t.revision = s.revision /\ t.part = s.part
    /\ t.repair.lastApplied = s.repair.lastApplied
    /\ t.holeFill.lastApplied = s.holeFill.lastApplied

(* What the operations of one slice leave alone. A list that was not on     *)
(* screen is only put there with the token of its request.                  *)
ChangesAnalysis(s, t) ==
    /\ KeepsModel(s, t) /\ t.repair = s.repair /\ t.holeFill = s.holeFill
    /\ t.repairToken = s.repairToken /\ t.holeFillToken = s.holeFillToken

ChangesRepair(s, t) ==
    KeepsModel(s, t) /\ t.holeFill = s.holeFill /\ t.holeFillToken = s.holeFillToken

ChangesHoleFill(s, t) ==
    /\ KeepsModel(s, t) /\ t.repair = s.repair /\ t.repairToken = s.repairToken
    /\ t.holeFillToken = 0 \/ t.holeFill.inventory \in {s.holeFill.inventory, "listing", "failed"}

LEMMA Nothings ==
    /\ Nothing \in Subjects /\ NoCandidate \in Candidates
    /\ NoCandidate.subject = Nothing /\ Nothing.revision = 0 /\ NoCandidate.id = 0
  BY DEF NoCandidate, Candidate, Nothing, Subject, Candidates, Subjects

LEMMA ShownIs ==
    ASSUME NEW s \in Stores
    PROVE  /\ Shown(s) \in Subjects /\ Shown(s).revision = s.revision
           /\ Shown(s).part = s.part /\ Shown(s) # Nothing
  BY DEF Stores, Shown, Subject, Subjects, Nothing

LEMMA AnalysisSlice ==
    ASSUME NEW s, StoreInv(s), NEW a, AnalysisOf(a, Shown(s)), NEW n \in Nat,
           NEW t, t = WithAnalysis(s, n, a)
    PROVE  /\ KeepsModel(s, t) /\ t.analysisToken = n /\ t.analysis = a
           /\ t.repair = s.repair /\ t.holeFill = s.holeFill
           /\ t.repairToken = s.repairToken /\ t.holeFillToken = s.holeFillToken
  <1> USE DEF StoreInv
  <1> HIDE DEF Analyses, Repairs, HoleFills
  <1>1. /\ t \in Stores /\ t.revision = s.revision /\ t.part = s.part
        /\ t.analysisToken = n /\ t.analysis = a
        /\ t.repair = s.repair /\ t.holeFill = s.holeFill
        /\ t.repairToken = s.repairToken /\ t.holeFillToken = s.holeFillToken
    BY DEF Stores, AnalysisOf, WithAnalysis
  <1>2. Shown(t) = Shown(s)
    BY <1>1 DEF Shown
  <1> QED BY <1>1, <1>2 DEF KeepsModel

LEMMA RepairSlice ==
    ASSUME NEW s, StoreInv(s), NEW r, RepairOf(r, Shown(s)),
           r.lastApplied = s.repair.lastApplied, NEW n \in Nat,
           NEW t, t = WithRepair(s, n, r)
    PROVE  /\ KeepsModel(s, t) /\ t.repairToken = n /\ t.repair = r
           /\ t.analysis = s.analysis /\ t.holeFill = s.holeFill
           /\ t.analysisToken = s.analysisToken /\ t.holeFillToken = s.holeFillToken
  <1> USE DEF StoreInv
  <1> HIDE DEF Analyses, Repairs, HoleFills
  <1>1. /\ t \in Stores /\ t.revision = s.revision /\ t.part = s.part
        /\ t.repairToken = n /\ t.repair = r
        /\ t.analysis = s.analysis /\ t.holeFill = s.holeFill
        /\ t.analysisToken = s.analysisToken /\ t.holeFillToken = s.holeFillToken
    BY DEF Stores, RepairOf, WithRepair
  <1>2. Shown(t) = Shown(s)
    BY <1>1 DEF Shown
  <1> QED BY <1>1, <1>2 DEF KeepsModel

LEMMA HoleFillSlice ==
    ASSUME NEW s, StoreInv(s), NEW h, HoleFillOf(h, Shown(s)),
           h.lastApplied = s.holeFill.lastApplied, NEW n \in Nat,
           NEW t, t = WithHoleFill(s, n, h)
    PROVE  /\ KeepsModel(s, t) /\ t.holeFillToken = n /\ t.holeFill = h
           /\ t.analysis = s.analysis /\ t.repair = s.repair
           /\ t.analysisToken = s.analysisToken /\ t.repairToken = s.repairToken
  <1> USE DEF StoreInv
  <1> HIDE DEF Analyses, Repairs, HoleFills
  <1>1. /\ t \in Stores /\ t.revision = s.revision /\ t.part = s.part
        /\ t.holeFillToken = n /\ t.holeFill = h
        /\ t.analysis = s.analysis /\ t.repair = s.repair
        /\ t.analysisToken = s.analysisToken /\ t.repairToken = s.repairToken
    BY DEF Stores, HoleFillOf, WithHoleFill
  <1>2. Shown(t) = Shown(s)
    BY <1>1 DEF Shown
  <1> QED BY <1>1, <1>2 DEF KeepsModel

LEMMA NoOperationOnTheStore ==
    ASSUME NEW s, StoreInv(s)
    PROVE  KeepsModel(s, s)
  BY DEF KeepsModel

(* The operations of the analysis slice.                                    *)
LEMMA AnalysisOperations ==
    ASSUME NEW s, StoreInv(s), NEW token \in Nat, NEW subject \in Subjects
    PROVE  \A t : t \in {BeginAnalysis(s, token), CommitAnalysis(s, token, subject),
                         FailAnalysis(s, token), CancelAnalysis(s, token)} =>
             ChangesAnalysis(s, t)
  <1>0. /\ s \in Stores /\ s.analysis \in Analyses /\ s.analysis.report \in {Nothing, Shown(s)}
        /\ s.analysisToken \in Nat /\ Shown(s) \in Subjects /\ Nothing \in Subjects
    BY ShownIs, Nothings DEF StoreInv, AnalysisOf, Stores
  <1>1. ASSUME NEW a, AnalysisOf(a, Shown(s)), NEW n \in Nat,
               NEW t, t = WithAnalysis(s, n, a)
        PROVE  ChangesAnalysis(s, t)
    BY <1>1, AnalysisSlice DEF ChangesAnalysis
  <1>2. ChangesAnalysis(s, s)
    BY NoOperationOnTheStore DEF ChangesAnalysis
  <1>3. ChangesAnalysis(s, BeginAnalysis(s, token))
    <2> DEFINE a == [state |-> "analyzing", subject |-> Shown(s),
                     report |-> IF s.analysis.subject = Shown(s) THEN s.analysis.report
                                ELSE Nothing]
    <2>1. AnalysisOf(a, Shown(s))
      BY <1>0 DEF AnalysisOf, Analyses, States
    <2>2. BeginAnalysis(s, token) = WithAnalysis(s, token, a)
      BY DEF BeginAnalysis, WithAnalysis
    <2> HIDE DEF a
    <2> QED BY <1>1, <2>1, <2>2
  <1>4. ChangesAnalysis(s, CommitAnalysis(s, token, subject))
    <2> DEFINE a == [state |-> "ready", subject |-> subject, report |-> subject]
    <2>1. CASE IsCurrentAnalysis(s, token) /\ subject = Shown(s)
      <3>1. AnalysisOf(a, Shown(s))
        BY <1>0, <2>1 DEF AnalysisOf, Analyses, States
      <3>2. CommitAnalysis(s, token, subject) = WithAnalysis(s, 0, a)
        BY <2>1 DEF CommitAnalysis, WithAnalysis
      <3> HIDE DEF a
      <3> QED BY <1>1, <3>1, <3>2
    <2> QED BY <1>2, <2>1 DEF CommitAnalysis
  <1>5. ASSUME NEW v \in States
        PROVE  ChangesAnalysis(s, [s EXCEPT !.analysisToken = 0, !.analysis.state = v])
    <2> DEFINE a == [s.analysis EXCEPT !.state = v]
    <2>1. AnalysisOf(a, Shown(s))
      BY <1>0 DEF AnalysisOf, Analyses, States
    <2>2. [s EXCEPT !.analysisToken = 0, !.analysis.state = v]
            = WithAnalysis(s, 0, a)
      BY <1>0 DEF Stores, WithAnalysis
    <2> HIDE DEF a
    <2> QED BY <1>1, <2>1, <2>2
  <1>6. ChangesAnalysis(s, FailAnalysis(s, token))
    BY <1>2, <1>5 DEF FailAnalysis, States
  <1>7. ChangesAnalysis(s, CancelAnalysis(s, token))
    BY <1>2, <1>5 DEF CancelAnalysis, States
  <1> QED BY <1>3, <1>4, <1>6, <1>7

(* The operations of the repair slice. A plan and a candidate are shown     *)
(* only of the model they are about.                                        *)
LEMMA RepairOperations ==
    ASSUME NEW s, StoreInv(s), NEW token \in Nat, NEW state \in States
    PROVE  /\ \A t : t \in {FailRepairPlan(s, token), SetRepairSelection(s),
                            EndRepairCandidate(s, token, state),
                            BeginRepairCancellation(s, token), ClearRepairCandidate(s),
                            BeginRepairChange(s, state), FailRepairChange(s)} =>
                ChangesRepair(s, t) /\ t.repairToken \in {0, s.repairToken}
           /\ \A t : t \in {BeginRepairPlan(s, token), BeginRepairCandidate(s, token)} =>
                ChangesRepair(s, t) /\ t.repairToken = token
           /\ \A subject \in Subjects : \A t :
                /\ IsCurrentRepair(s, token) => subject = Shown(s)
                /\ t = CommitRepairPlan(s, token, subject)
                => ChangesRepair(s, t) /\ t.repairToken = s.repairToken
           /\ \A c \in Candidates : \A t :
                c.subject = Shown(s) /\ t = CommitRepairCandidate(s, c) =>
                ChangesRepair(s, t) /\ t.repairToken = s.repairToken
  <1>0. /\ s \in Stores /\ s.repair \in Repairs /\ RepairOf(s.repair, Shown(s))
        /\ s.repairToken \in Nat
    BY DEF StoreInv, RepairOf, Stores
  <1>1. ASSUME NEW r, RepairOf(r, Shown(s)), r.lastApplied = s.repair.lastApplied, NEW n \in Nat,
               NEW t, t = WithRepair(s, n, r)
        PROVE  ChangesRepair(s, t) /\ t.repairToken = n
    BY <1>1, RepairSlice DEF ChangesRepair
  <1>2. ASSUME NEW r, RepairOf(r, Shown(s)), r.lastApplied = s.repair.lastApplied,
               NEW t, t = [s EXCEPT !.repair = r]
        PROVE  ChangesRepair(s, t) /\ t.repairToken = s.repairToken
    <2>1. t = WithRepair(s, s.repairToken, r)
      BY <1>0, <1>2 DEF Stores, WithRepair
    <2> QED BY <1>0, <1>1, <1>2, <2>1
  <1>3. ChangesRepair(s, s)
    BY NoOperationOnTheStore DEF ChangesRepair
  <1>4. ASSUME NEW v \in States
        PROVE  /\ RepairOf(WithoutRepairCandidate(s.repair, v), Shown(s))
               /\ WithoutRepairCandidate(s.repair, v).lastApplied = s.repair.lastApplied
               /\ WithoutRepairCandidate(s.repair, v) \in Repairs
    <2> HIDE DEF Candidates, NoCandidate, Subjects
    <2> QED BY <1>0, <1>4, Nothings DEF RepairOf, Repairs, WithoutRepairCandidate
  <1>5. ASSUME NEW r, RepairOf(r, Shown(s)), NEW v \in States
        PROVE  /\ v # "ready" => RepairOf([r EXCEPT !.planState = v], Shown(s))
               /\ [r EXCEPT !.planState = v].lastApplied = r.lastApplied
               /\ RepairOf([r EXCEPT !.candidateState = v], Shown(s))
               /\ [r EXCEPT !.candidateState = v].lastApplied = r.lastApplied
               /\ RepairOf([r EXCEPT !.commitState = v], Shown(s))
               /\ [r EXCEPT !.commitState = v].lastApplied = r.lastApplied
    BY <1>5 DEF RepairOf, Repairs, States
  <1>6. \A t : t = FailRepairPlan(s, token) => ChangesRepair(s, t) /\ t.repairToken \in {0, s.repairToken}
    <2> DEFINE r == [s.repair EXCEPT !.planState = "failed"]
    <2>1. RepairOf(r, Shown(s)) /\ r.lastApplied = s.repair.lastApplied
      BY <1>0, <1>5 DEF States
    <2>2. IsCurrentRepair(s, token) => FailRepairPlan(s, token) = WithRepair(s, 0, r)
      BY <1>0 DEF FailRepairPlan, WithRepair, Stores
    <2>3. ~IsCurrentRepair(s, token) => FailRepairPlan(s, token) = s
      BY DEF FailRepairPlan
    <2> HIDE DEF r
    <2> QED BY <1>1, <1>3, <2>1, <2>2, <2>3
  <1>7. \A t : t = SetRepairSelection(s) => ChangesRepair(s, t) /\ t.repairToken \in {0, s.repairToken}
    <2> DEFINE r == [WithoutRepairCandidate(s.repair, "idle") EXCEPT !.planState = "planning"]
    <2>1. RepairOf(r, Shown(s)) /\ r.lastApplied = s.repair.lastApplied
      BY <1>4, <1>5 DEF States
    <2>2. SetRepairSelection(s) = WithRepair(s, 0, r)
      BY DEF SetRepairSelection, WithRepair
    <2> HIDE DEF r
    <2> QED BY <1>1, <2>1, <2>2
  <1>8. \A t : t \in {EndRepairCandidate(s, token, state), ClearRepairCandidate(s)} =>
            ChangesRepair(s, t) /\ t.repairToken = s.repairToken
    <2>1. ASSUME NEW v \in States, NEW t, t = [s EXCEPT !.repair = WithoutRepairCandidate(@, v)]
          PROVE  ChangesRepair(s, t) /\ t.repairToken = s.repairToken
      <3> DEFINE r == WithoutRepairCandidate(s.repair, v)
      <3>1. RepairOf(r, Shown(s)) /\ r.lastApplied = s.repair.lastApplied
        BY <1>4
      <3>2. t = [s EXCEPT !.repair = r]
        BY <2>1
      <3> HIDE DEF r
      <3> QED BY <1>2, <3>1, <3>2
    <2> QED BY <1>3, <2>1 DEF EndRepairCandidate, ClearRepairCandidate, States
  <1>9. ASSUME NEW v \in States
        PROVE  \A t : \/ t = [s EXCEPT !.repair.candidateState = v]
                      \/ t = [s EXCEPT !.repair.commitState = v]
                      => ChangesRepair(s, t) /\ t.repairToken = s.repairToken
    <2> DEFINE q == [s.repair EXCEPT !.candidateState = v]
               r == [s.repair EXCEPT !.commitState = v]
    <2>1. /\ RepairOf(q, Shown(s)) /\ q.lastApplied = s.repair.lastApplied
          /\ RepairOf(r, Shown(s)) /\ r.lastApplied = s.repair.lastApplied
      BY <1>0, <1>5
    <2>2. /\ [s EXCEPT !.repair.candidateState = v] = [s EXCEPT !.repair = q]
          /\ [s EXCEPT !.repair.commitState = v] = [s EXCEPT !.repair = r]
      BY <1>0 DEF Stores
    <2> HIDE DEF q, r
    <2> QED BY <1>2, <2>1, <2>2
  <1>10. \A t : t = BeginRepairCancellation(s, token) => ChangesRepair(s, t) /\ t.repairToken = s.repairToken
    BY <1>3, <1>9 DEF BeginRepairCancellation, States
  <1>11. \A t : t \in {BeginRepairChange(s, state), FailRepairChange(s)} =>
            ChangesRepair(s, t) /\ t.repairToken = s.repairToken
    BY <1>9 DEF BeginRepairChange, FailRepairChange, States
  <1>12. \A t : t \in {BeginRepairPlan(s, token), BeginRepairCandidate(s, token)} =>
            ChangesRepair(s, t) /\ t.repairToken = token
    <2> DEFINE q == [WithoutRepairCandidate(s.repair, "idle") EXCEPT !.planState = "planning"]
               r == WithoutRepairCandidate(s.repair, "building")
    <2>1. /\ RepairOf(q, Shown(s)) /\ q.lastApplied = s.repair.lastApplied
          /\ RepairOf(r, Shown(s)) /\ r.lastApplied = s.repair.lastApplied
      BY <1>4, <1>5 DEF States
    <2>2. /\ BeginRepairPlan(s, token) = WithRepair(s, token, q)
          /\ BeginRepairCandidate(s, token) = WithRepair(s, token, r)
      BY DEF BeginRepairPlan, BeginRepairCandidate, WithRepair
    <2> HIDE DEF q, r
    <2> QED BY <1>1, <2>1, <2>2
  <1>13. ASSUME NEW subject \in Subjects, IsCurrentRepair(s, token) => subject = Shown(s),
                NEW t, t = CommitRepairPlan(s, token, subject)
         PROVE  ChangesRepair(s, t) /\ t.repairToken = s.repairToken
    <2> DEFINE r == [s.repair EXCEPT !.planState = "ready", !.plan = subject]
    <2>1. CASE IsCurrentRepair(s, token) /\ subject.revision = s.revision
      <3>1. RepairOf(r, Shown(s)) /\ r.lastApplied = s.repair.lastApplied
        BY <1>0, <1>13, <2>1 DEF RepairOf, Repairs, States
      <3>2. t = [s EXCEPT !.repair = r]
        BY <1>0, <1>13, <2>1 DEF CommitRepairPlan, Stores
      <3> HIDE DEF r
      <3> QED BY <1>2, <3>1, <3>2
    <2> QED BY <1>3, <1>13, <2>1 DEF CommitRepairPlan
  <1>14. ASSUME NEW c \in Candidates, c.subject = Shown(s), NEW t, t = CommitRepairCandidate(s, c)
         PROVE  ChangesRepair(s, t) /\ t.repairToken = s.repairToken
    <2> DEFINE r == [s.repair EXCEPT !.candidateState = "ready", !.candidate = c]
    <2>1. RepairOf(r, Shown(s)) /\ r.lastApplied = s.repair.lastApplied
      <3> HIDE DEF Candidates
      <3> QED BY <1>0, <1>14 DEF RepairOf, Repairs, States
    <2>2. t = [s EXCEPT !.repair = r]
      BY <1>0, <1>14 DEF CommitRepairCandidate, Stores
    <2> HIDE DEF r
    <2> QED BY <1>2, <2>1, <2>2
  <1> QED BY <1>6, <1>7, <1>8, <1>9, <1>10, <1>11, <1>12, <1>13, <1>14

(* The operations of the hole-fill slice. A candidate is installed only of  *)
(* the model and the opening it was made for.                               *)
LEMMA HoleFillOperations ==
    ASSUME NEW s, StoreInv(s), NEW token \in Nat, NEW state \in States
    PROVE  /\ \A t : t \in {EndHoleFillCandidate(s, token, state),
                            BeginHoleFillCancellation(s, token), ClearHoleFillCandidate(s),
                            BeginHoleFillChange(s, state), FailHoleFillChange(s)}
                     \/ /\ IsCurrentHoleFill(s, token) => s.holeFill.inventory # "ready"
                        /\ t = FailHoleFillListing(s, token)
                     =>
                ChangesHoleFill(s, t) /\ t.holeFillToken \in {0, s.holeFillToken}
           /\ \A t : t = BeginHoleFillCandidate(s, token)
                     \/ (s.holeFill.candidate = NoCandidate
                         /\ t = BeginHoleFillListing(s, token)) =>
                ChangesHoleFill(s, t) /\ t.holeFillToken = token
           /\ \A opening \in Nat : \A t :
                s.holeFill.rows # Nothing /\ t = SelectBoundaryLoop(s, opening) =>
                ChangesHoleFill(s, t) /\ t.holeFillToken \in {0, s.holeFillToken}
           /\ \A subject \in Subjects : \A t :
                /\ IsCurrentHoleFill(s, token) => subject = Shown(s)
                /\ t = CommitHoleFillListing(s, token, subject)
                => ChangesHoleFill(s, t) /\ t.holeFillToken \in {0, s.holeFillToken}
           /\ \A c \in Candidates : \A t :
                /\ MayInstallFill(s, token, c) /\ c.opening # 0
                /\ t = CommitHoleFillCandidate(s, c)
                => ChangesHoleFill(s, t) /\ t.holeFillToken = 0
  <1>0. /\ s \in Stores /\ s.holeFill \in HoleFills /\ HoleFillOf(s.holeFill, Shown(s))
        /\ s.holeFillToken \in Nat /\ Shown(s) \in Subjects /\ Nothing \in Subjects
        /\ NoCandidate \in Candidates
    BY ShownIs, Nothings DEF StoreInv, HoleFillOf, Stores
  <1>1. ASSUME NEW h, HoleFillOf(h, Shown(s)), h.lastApplied = s.holeFill.lastApplied,
               NEW n \in Nat, NEW t, t = WithHoleFill(s, n, h),
               n = 0 \/ h.inventory \in {s.holeFill.inventory, "listing", "failed"}
        PROVE  ChangesHoleFill(s, t) /\ t.holeFillToken = n
    BY <1>1, HoleFillSlice DEF ChangesHoleFill
  <1>2. ASSUME NEW h, HoleFillOf(h, Shown(s)), h.lastApplied = s.holeFill.lastApplied,
               h.inventory = s.holeFill.inventory, NEW t, t = [s EXCEPT !.holeFill = h]
        PROVE  ChangesHoleFill(s, t) /\ t.holeFillToken = s.holeFillToken
    <2>1. t = WithHoleFill(s, s.holeFillToken, h)
      BY <1>0, <1>2 DEF Stores, WithHoleFill
    <2> QED BY <1>0, <1>1, <1>2, <2>1
  <1>3. ChangesHoleFill(s, s)
    BY NoOperationOnTheStore DEF ChangesHoleFill
  <1> DEFINE Without(v) == WithoutFillCandidate(s.holeFill, v)
  <1>4. ASSUME NEW v \in States
        PROVE  /\ HoleFillOf(Without(v), Shown(s))
               /\ Without(v).lastApplied = s.holeFill.lastApplied
               /\ Without(v).inventory = s.holeFill.inventory
               /\ Without(v).candidate = NoCandidate
    <2> HIDE DEF Candidates, NoCandidate, Subjects
    <2> QED BY <1>0, <1>4 DEF HoleFillOf, HoleFills, WithoutFillCandidate
  <1>5. ASSUME NEW v \in States
        PROVE  \A t : \/ t = [s EXCEPT !.holeFill.workState = v]
                      \/ t = [s EXCEPT !.holeFill.commitState = v]
                      => ChangesHoleFill(s, t) /\ t.holeFillToken = s.holeFillToken
    <2> DEFINE q == [s.holeFill EXCEPT !.workState = v]
               r == [s.holeFill EXCEPT !.commitState = v]
    <2>1. /\ HoleFillOf(q, Shown(s)) /\ q.lastApplied = s.holeFill.lastApplied
          /\ HoleFillOf(r, Shown(s)) /\ r.lastApplied = s.holeFill.lastApplied
          /\ q.inventory = s.holeFill.inventory /\ r.inventory = s.holeFill.inventory
      <3> HIDE DEF Candidates, NoCandidate, Subjects
      <3> QED BY <1>0, <1>5 DEF HoleFillOf, HoleFills
    <2>2. /\ [s EXCEPT !.holeFill.workState = v] = [s EXCEPT !.holeFill = q]
          /\ [s EXCEPT !.holeFill.commitState = v] = [s EXCEPT !.holeFill = r]
      BY <1>0 DEF Stores
    <2> HIDE DEF q, r
    <2> QED BY <1>2, <2>1, <2>2
  <1>6. \A t : t \in {BeginHoleFillCancellation(s, token), BeginHoleFillChange(s, state),
                      FailHoleFillChange(s)} => ChangesHoleFill(s, t) /\ t.holeFillToken = s.holeFillToken
    BY <1>3, <1>5 DEF BeginHoleFillCancellation, BeginHoleFillChange, FailHoleFillChange, States
  <1>7. \A n \in Nat, v \in States : \A t : t = WithHoleFill(s, n, Without(v)) =>
            ChangesHoleFill(s, t) /\ t.holeFillToken = n
    <2> HIDE DEF Without
    <2> QED BY <1>1, <1>4
  <1>8. \A t : t \in {EndHoleFillCandidate(s, token, state), ClearHoleFillCandidate(s)} =>
            ChangesHoleFill(s, t) /\ t.holeFillToken \in {0, s.holeFillToken}
    <2>1. /\ \/ EndHoleFillCandidate(s, token, state) = s
             \/ EndHoleFillCandidate(s, token, state) = WithHoleFill(s, 0, Without(state))
          /\ \/ ClearHoleFillCandidate(s) = s
             \/ ClearHoleFillCandidate(s) = WithHoleFill(s, 0, Without("idle"))
      BY DEF EndHoleFillCandidate, ClearHoleFillCandidate, WithHoleFill
    <2> HIDE DEF Without
    <2> QED BY <1>3, <1>7, <2>1 DEF States
  <1>9. \A t : t = BeginHoleFillCandidate(s, token) => ChangesHoleFill(s, t) /\ t.holeFillToken = token
    <2>1. BeginHoleFillCandidate(s, token) = WithHoleFill(s, token, Without("generating"))
      BY DEF BeginHoleFillCandidate, WithHoleFill
    <2> HIDE DEF Without
    <2> QED BY <1>7, <2>1 DEF States
  <1>10. ASSUME s.holeFill.candidate = NoCandidate, NEW t, t = BeginHoleFillListing(s, token)
         PROVE  ChangesHoleFill(s, t) /\ t.holeFillToken = token
    <2> DEFINE h == [s.holeFill EXCEPT !.inventory = "listing", !.rows = Nothing, !.selected = 0]
    <2>1. /\ HoleFillOf(h, Shown(s)) /\ h.lastApplied = s.holeFill.lastApplied
          /\ h.inventory = "listing"
      <3> HIDE DEF Candidates, NoCandidate, Subjects
      <3> QED BY <1>0, <1>10 DEF HoleFillOf, HoleFills, States
    <2>2. t = WithHoleFill(s, token, h)
      BY <1>0, <1>10 DEF BeginHoleFillListing, WithHoleFill, Stores
    <2> HIDE DEF h
    <2> QED BY <1>1, <2>1, <2>2
  <1>11. ASSUME s.holeFill.rows # Nothing, NEW opening \in Nat,
                NEW t, t = SelectBoundaryLoop(s, opening)
         PROVE  ChangesHoleFill(s, t) /\ t.holeFillToken \in {0, s.holeFillToken}
    <2> DEFINE h == [Without("idle") EXCEPT !.selected = opening]
    <2>1. HoleFillOf(h, Shown(s)) /\ h.lastApplied = s.holeFill.lastApplied
      <3>1. /\ HoleFillOf(Without("idle"), Shown(s)) /\ Without("idle").candidate = NoCandidate
            /\ Without("idle").lastApplied = s.holeFill.lastApplied
            /\ Without("idle").inventory = "ready"
        BY <1>0, <1>4, <1>11 DEF HoleFillOf, States
      <3> HIDE DEF Candidates, NoCandidate, Subjects, Without
      <3> QED BY <3>1 DEF HoleFillOf, HoleFills
    <2>2. t = s \/ t = WithHoleFill(s, 0, h)
      BY <1>11 DEF SelectBoundaryLoop, WithHoleFill
    <2> HIDE DEF h
    <2> QED BY <1>1, <1>3, <2>1, <2>2
  <1>12. ASSUME NEW subject \in Subjects, IsCurrentHoleFill(s, token) => subject = Shown(s),
                NEW t, t = CommitHoleFillListing(s, token, subject)
         PROVE  ChangesHoleFill(s, t) /\ t.holeFillToken \in {0, s.holeFillToken}
    <2> DEFINE h == [s.holeFill EXCEPT !.inventory = "ready", !.rows = subject]
    <2>1. CASE IsCurrentHoleFill(s, token)
      <3>1. HoleFillOf(h, Shown(s)) /\ h.lastApplied = s.holeFill.lastApplied
        <4> HIDE DEF Candidates, NoCandidate, Subjects
        <4> QED BY <1>0, <1>12, <2>1 DEF HoleFillOf, HoleFills, States
      <3>2. t = WithHoleFill(s, 0, h)
        BY <1>0, <1>12, <2>1 DEF CommitHoleFillListing, WithHoleFill, Stores
      <3> HIDE DEF h
      <3> QED BY <1>1, <3>1, <3>2
    <2> QED BY <1>3, <1>12, <2>1 DEF CommitHoleFillListing
  <1>13. ASSUME IsCurrentHoleFill(s, token) => s.holeFill.inventory # "ready",
                NEW t, t = FailHoleFillListing(s, token)
         PROVE  ChangesHoleFill(s, t) /\ t.holeFillToken \in {0, s.holeFillToken}
    <2> DEFINE h == [s.holeFill EXCEPT !.inventory = "failed", !.rows = Nothing]
    <2>1. CASE IsCurrentHoleFill(s, token)
      <3>1. HoleFillOf(h, Shown(s)) /\ h.lastApplied = s.holeFill.lastApplied
        <4> HIDE DEF Candidates, NoCandidate, Subjects
        <4> QED BY <1>0, <1>13, <2>1 DEF HoleFillOf, HoleFills, States
      <3>2. t = WithHoleFill(s, 0, h)
        BY <1>0, <1>13, <2>1 DEF FailHoleFillListing, WithHoleFill, Stores
      <3> HIDE DEF h
      <3> QED BY <1>1, <3>1, <3>2
    <2> QED BY <1>3, <1>13, <2>1 DEF FailHoleFillListing
  <1>14. ASSUME NEW c \in Candidates, MayInstallFill(s, token, c), c.opening # 0,
                NEW t, t = CommitHoleFillCandidate(s, c)
         PROVE  ChangesHoleFill(s, t) /\ t.holeFillToken = 0
    <2> DEFINE h == [s.holeFill EXCEPT !.workState = "ready", !.candidate = c]
    <2>1. HoleFillOf(h, Shown(s)) /\ h.lastApplied = s.holeFill.lastApplied
      <3> HIDE DEF Candidates, NoCandidate, Subjects
      <3> QED BY <1>0, <1>14 DEF HoleFillOf, HoleFills, States, MayInstallFill
    <2>2. t = WithHoleFill(s, 0, h)
      BY <1>0, <1>14 DEF CommitHoleFillCandidate, WithHoleFill, Stores
    <2> HIDE DEF h
    <2> QED BY <1>1, <2>1, <2>2
  <1> QED BY <1>6, <1>8, <1>9, <1>10, <1>11, <1>12, <1>13, <1>14

(* Another part is selected: the model is another one.                      *)
LEMMA SelectPartEffect ==
    ASSUME NEW s, StoreInv(s), NEW part \in Parts, NEW t, t = SelectPart(s, part)
    PROVE  /\ StoreInv(t) /\ t.revision = s.revision /\ t.part = part
           /\ t.repairToken = 0 /\ t.holeFillToken = s.holeFillToken
           /\ t.holeFill.candidate = NoCandidate
           /\ t.repair.lastApplied = 0 /\ t.holeFill.lastApplied = s.holeFill.lastApplied
  <1>0. /\ s \in Stores /\ s.holeFill.lastApplied \in Nat
        /\ s.holeFill.lastApplied \in {0, s.revision} /\ s.revision \in Nat
    BY ShownIs DEF StoreInv, HoleFillOf, HoleFills, Stores
  <1> DEFINE a == EmptyAnalysis(Subject(s.revision, part))
             h == [EmptyHoleFill EXCEPT !.lastApplied = s.holeFill.lastApplied]
  <1>1. /\ t.revision = s.revision /\ t.part = part /\ t.repairToken = 0
        /\ t.analysisToken = 0 /\ t.holeFillToken = s.holeFillToken
        /\ t.analysis = a /\ t.repair = EmptyRepair /\ t.holeFill = h
    BY <1>0 DEF SelectPart, Stores
  <1>2. Shown(t) = Subject(s.revision, part) /\ Shown(t) \in Subjects
        /\ Shown(t).revision = s.revision
    BY <1>0, <1>1 DEF Shown, Subject, Subjects
  <1>3. AnalysisOf(a, Shown(t))
    BY <1>2, Nothings DEF AnalysisOf, Analyses, EmptyAnalysis, States
  <1>4. RepairOf(EmptyRepair, Shown(t)) /\ EmptyRepair.lastApplied = 0
    <2> HIDE DEF Candidates, NoCandidate, Subjects, Nothing
    <2> QED BY Nothings DEF RepairOf, Repairs, EmptyRepair, States
  <1>5. HoleFillOf(h, Shown(t)) /\ h.candidate = NoCandidate
        /\ h.lastApplied = s.holeFill.lastApplied
    <2> HIDE DEF Candidates, NoCandidate, Subjects, Nothing
    <2> QED BY <1>0, <1>2, Nothings DEF HoleFillOf, HoleFills, EmptyHoleFill, States
  <1>6. t \in Stores
    <2> HIDE DEF Analyses, Repairs, HoleFills, a, h
    <2> QED BY <1>0, <1>3, <1>4, <1>5 DEF SelectPart, Stores, AnalysisOf, RepairOf, HoleFillOf, a, h
  <1> QED BY <1>1, <1>2, <1>3, <1>4, <1>5, <1>6 DEF StoreInv

(* Another revision is shown.                                               *)
LEMMA InstallEffect ==
    ASSUME NEW s, StoreInv(s), NEW revision \in Nat \ {0},
           NEW t, t \in {ApplyRepairResult(s, revision), ApplyUndoResult(s, revision),
                         ApplyHoleFillResult(s, revision), ApplyGeometryEditResult(s, revision)}
    PROVE  /\ StoreInv(t) /\ t.revision = revision /\ t.part = s.part
           /\ t.repairToken = 0 /\ t.holeFillToken \in {0, s.holeFillToken}
           /\ t.holeFill.candidate = NoCandidate
           /\ t = ApplyUndoResult(s, revision) =>
                t.repair.lastApplied = 0 /\ t.holeFill.lastApplied = 0
  <1>0. s \in Stores
    BY DEF StoreInv
  <1> DEFINE Installed == /\ StoreInv(t) /\ t.revision = revision /\ t.part = s.part
                          /\ t.repairToken = 0 /\ t.holeFillToken \in {0, s.holeFillToken}
                          /\ t.holeFill.candidate = NoCandidate
             i == Install(s, revision)
             m == Subject(revision, s.part)
  <1>1. /\ i.revision = revision /\ i.part = s.part /\ i.repairToken = 0
        /\ i.analysisToken = 0 /\ i.holeFillToken = s.holeFillToken
        /\ i.analysis = EmptyAnalysis(m) /\ i.repair = EmptyRepair /\ i.holeFill = EmptyHoleFill
    BY <1>0 DEF Install, Stores
  <1>2. m \in Subjects /\ m.revision = revision
    BY <1>0 DEF Subject, Subjects, Stores
  <1>3. AnalysisOf(EmptyAnalysis(m), m)
    BY <1>2, Nothings DEF AnalysisOf, Analyses, EmptyAnalysis, States
  <1>4. /\ RepairOf(EmptyRepair, m) /\ EmptyRepair.lastApplied = 0
        /\ \A n \in {0, revision} : RepairOf([EmptyRepair EXCEPT !.lastApplied = n], m)
    <2> HIDE DEF Candidates, NoCandidate, Subjects, Nothing, m
    <2> QED BY <1>2, Nothings DEF RepairOf, Repairs, EmptyRepair, States
  <1>5. /\ HoleFillOf(EmptyHoleFill, m) /\ EmptyHoleFill.candidate = NoCandidate
        /\ EmptyHoleFill.lastApplied = 0
        /\ \A n \in {0, revision} :
             /\ HoleFillOf([EmptyHoleFill EXCEPT !.lastApplied = n], m)
             /\ [EmptyHoleFill EXCEPT !.lastApplied = n].candidate = NoCandidate
    <2> HIDE DEF Candidates, NoCandidate, Subjects, Nothing, m
    <2> QED BY <1>2, Nothings DEF HoleFillOf, HoleFills, EmptyHoleFill, States
  <1>6. i \in Stores
    <2> HIDE DEF Analyses, Repairs, HoleFills
    <2> QED BY <1>0, <1>3, <1>4, <1>5 DEF Install, Stores, AnalysisOf, RepairOf, HoleFillOf
  <1>7. ASSUME NEW r \in Repairs, NEW h \in HoleFills, NEW n \in {0, s.holeFillToken},
               NEW u, u.repair = r, u.holeFill = h, u \in Stores,
               u.revision = revision, u.part = s.part, u.repairToken = 0,
               u.holeFillToken = n, u.analysis = EmptyAnalysis(m),
               RepairOf(r, m), HoleFillOf(h, m), h.candidate = NoCandidate
        PROVE  /\ StoreInv(u) /\ u.revision = revision /\ u.part = s.part
               /\ u.repairToken = 0 /\ u.holeFillToken \in {0, s.holeFillToken}
               /\ u.holeFill.candidate = NoCandidate
    BY <1>3, <1>7 DEF StoreInv, Shown
  <1> HIDE DEF i, m
  <1>8. CASE t = ApplyUndoResult(s, revision)
    <2>1. t = i
      BY <1>8 DEF ApplyUndoResult, i
    <2> QED BY <1>1, <1>4, <1>5, <1>6, <1>7, <2>1 DEF RepairOf, HoleFillOf
  <1>9. ASSUME t = ApplyRepairResult(s, revision) PROVE Installed
    <2> DEFINE r == [EmptyRepair EXCEPT !.lastApplied = revision]
    <2>1. RepairOf(r, m) /\ r \in Repairs
      BY <1>4 DEF RepairOf
    <2>2. t = [i EXCEPT !.repair = r]
      BY <1>1, <1>6, <1>9 DEF ApplyRepairResult, i, Stores
    <2> HIDE DEF r
    <2>3. /\ t \in Stores /\ t.repair = r /\ t.holeFill = EmptyHoleFill
          /\ t.revision = revision /\ t.part = s.part /\ t.repairToken = 0
          /\ t.holeFillToken = s.holeFillToken /\ t.analysis = EmptyAnalysis(m)
      <3> HIDE DEF Analyses, Repairs, HoleFills
      <3> QED BY <1>1, <1>6, <2>1, <2>2 DEF Stores
    <2> QED BY <1>5, <1>7, <2>1, <2>3 DEF HoleFillOf
  <1>10. ASSUME NEW h \in HoleFills, HoleFillOf(h, m), h.candidate = NoCandidate,
                t = [i EXCEPT !.holeFillToken = 0, !.holeFill = h]
         PROVE  Installed
    <2>1. /\ t \in Stores /\ t.repair = EmptyRepair /\ t.holeFill = h
          /\ t.revision = revision /\ t.part = s.part /\ t.repairToken = 0
          /\ t.holeFillToken = 0 /\ t.analysis = EmptyAnalysis(m)
      <3> HIDE DEF Analyses, Repairs, HoleFills
      <3> QED BY <1>1, <1>6, <1>10 DEF Stores
    <2> QED BY <1>4, <1>7, <1>10, <2>1 DEF RepairOf
  <1>11. ASSUME t \in {ApplyHoleFillResult(s, revision), ApplyGeometryEditResult(s, revision)}
         PROVE  Installed
    <2> DEFINE h == [EmptyHoleFill EXCEPT !.lastApplied = revision]
    <2>1. /\ HoleFillOf(h, m) /\ h.candidate = NoCandidate
          /\ HoleFillOf(EmptyHoleFill, m) /\ EmptyHoleFill.candidate = NoCandidate
      BY <1>5
    <2>2. CASE t = ApplyHoleFillResult(s, revision)
      <3>1. t = [i EXCEPT !.holeFillToken = 0, !.holeFill = h]
        BY <1>1, <1>6, <2>2 DEF ApplyHoleFillResult, i, Stores
      <3> HIDE DEF h
      <3> QED BY <1>10, <2>1, <3>1 DEF HoleFillOf
    <2>3. CASE t = ApplyGeometryEditResult(s, revision)
      <3>1. t = [i EXCEPT !.holeFillToken = 0, !.holeFill = EmptyHoleFill]
        BY <1>1, <1>6, <2>3 DEF ApplyGeometryEditResult, i, Stores
      <3> QED BY <1>10, <2>1, <3>1 DEF HoleFillOf
    <2> QED BY <1>11, <2>2, <2>3
  <1> QED BY <1>8, <1>9, <1>11
-----------------------------------------------------------------------------
(* The page between two handlers, and inside one.                           *)

(* A request that is under way, or that the handler posts. Its attempt is   *)
(* current only if it is about the model.                                   *)
RequestOf(r, p) ==
    /\ r \in Requests
    /\ r.kind \in {"plan", "build"} /\ r.token = p.store.repairToken /\ r.token # 0
         => r.subject = Model(p)
    /\ r.kind = "list" => "fill" \in p.setup.tools
    /\ r.kind = "fill" => r.opening # 0
    /\ r.kind \in Changes => r.subject.revision <= p.store.revision

(* A list that is still to be put on screen.                                *)
ListOf(r, p) ==
    r.kind = "list" /\ r.token = p.store.holeFillToken /\ r.token # 0
      => r.subject = Model(p) /\ p.store.holeFill.inventory # "ready"

Settled(p) == p.startedFor = Model(p)

(* R are the requests under way. The model on screen may be one for which   *)
(* the effects have not run: then no fill is on screen.                     *)
PageInv(p, R) ==
    /\ p \in Pages /\ StoreInv(p.store) /\ IsFiniteSet(p.stop)
    /\ p.store.part \in p.setup.parts
    /\ p.edit.record \in {0, p.edit.revision} /\ p.edit.revision <= p.store.revision
    /\ Settled(p) \/ p.store.holeFill.candidate = NoCandidate
    /\ \A r \in R \cup Range(p.out) : RequestOf(r, p)

ListsOf(p, R) == \A r \in R \cup Range(p.out) : ListOf(r, p)

(* The effects have run for the model on screen.                            *)
Current(p, R) == PageInv(p, R) /\ ListsOf(p, R) /\ Settled(p)

(* The revision stays, and nothing more is offered to undo.                 *)
Offers(p, q) ==
    /\ q.setup = p.setup /\ q.store.revision = p.store.revision
    /\ q.edit.record = p.edit.record /\ q.edit.revision = p.edit.revision
    /\ q.store.repair.lastApplied \in {0, p.store.repair.lastApplied}
    /\ q.store.holeFill.lastApplied \in {0, p.store.holeFill.lastApplied}

LEMMA FiniteRange ==
    ASSUME NEW T, NEW s \in Seq(T)
    PROVE  IsFiniteSet(Range(s))
  <1>1. s \in Surjection(1 .. Len(s), Range(s))
    BY DEF Surjection, Range
  <1>2. IsFiniteSet(1 .. Len(s))
    BY FS_Interval
  <1> QED BY <1>1, <1>2, FS_Surjection

LEMMA FiniteNumbers ==
    ASSUME NEW p, NEW T, p.out \in Seq(T), IsFiniteSet(p.stop), IsFiniteSet(words),
           IsFiniteSet(UnderWay), NEW stream
    PROVE  IsFiniteSet(Numbers(p, stream))
  <1> DEFINE stops == {x \in words \cup p.stop : x[1] = stream}
             requests == {r \in UnderWay \cup Range(p.out) : Stream(r.kind) = stream}
             A == {w[2] : w \in stops}
             pairs == {{r.token, r.id} : r \in requests}
             B == UNION pairs
             D == {p.store.analysisToken, p.analysisSession}
             E == {p.store.repairToken, p.repairSession, p.repairActive,
                    p.repairLive, p.store.repair.candidate.id, resident.repairCandidate.id}
             F == {p.store.holeFillToken, p.fillSession, p.fillActive, p.fillLive,
                    p.fillRun, p.store.holeFill.candidate.id, resident.fillCandidate.id}
  <1>1. IsFiniteSet(stops)
    <2>1. IsFiniteSet(words \cup p.stop)
      BY FS_Union
    <2> QED BY <2>1, FS_Subset
  <1>2. IsFiniteSet(requests)
    <2>1. IsFiniteSet(Range(p.out))
      <3>1. \A o \in Seq(T) : IsFiniteSet(Range(o))
        BY FiniteRange
      <3> QED BY <3>1, Zenon
    <2>2. IsFiniteSet(UnderWay \cup Range(p.out))
      BY <2>1, FS_Union
    <2> QED BY <2>2, FS_Subset
  <1>3. IsFiniteSet(A)
    <2>1. [w \in stops |-> w[2]] \in Surjection(stops, A)
      BY DEF Surjection
    <2> QED BY <1>1, <2>1, FS_Surjection
  <1>4. IsFiniteSet(pairs)
    <2>1. [r \in requests |-> {r.token, r.id}] \in Surjection(requests, pairs)
      BY DEF Surjection
    <2> QED BY <1>2, <2>1, FS_Surjection
  <1>5. IsFiniteSet(B)
    <2>1. \A a, b : IsFiniteSet({a, b})
      <3> TAKE a, b
      <3>1. {a, b} = {a} \cup {b}
        OBVIOUS
      <3>2. IsFiniteSet({a}) /\ IsFiniteSet({b})
        BY FS_Singleton
      <3> QED BY <3>1, <3>2, FS_Union
    <2>2. \A S \in pairs : IsFiniteSet(S)
      BY <2>1
    <2> HIDE DEF pairs
    <2> QED BY <1>4, <2>2, FS_UNION
  <1>6. IsFiniteSet(D) /\ IsFiniteSet(E) /\ IsFiniteSet(F)
    <2>1. \A a : IsFiniteSet({a})
      BY FS_Singleton
    <2>2. \A S, a : IsFiniteSet(S) => IsFiniteSet(S \cup {a})
      BY FS_AddElement
    <2>3. \A a, b : IsFiniteSet({a, b})
      <3> TAKE a, b
      <3>1. {a, b} = {a} \cup {b}
        OBVIOUS
      <3>2. IsFiniteSet({a} \cup {b})
        BY <2>1, FS_Union
      <3> QED BY <3>1, <3>2
    <2>4. \A a, b, c, d : IsFiniteSet({a, b, c, d})
      <3> TAKE a, b, c, d
      <3>1. {a, b, c, d} = {a, b} \cup {c, d}
        OBVIOUS
      <3>2. IsFiniteSet({a, b} \cup {c, d})
        BY <2>3, FS_Union
      <3> QED BY <3>1, <3>2
    <2>5. \A a, b, c, d, e, f : IsFiniteSet({a, b, c, d, e, f})
      <3> TAKE a, b, c, d, e, f
      <3>1. {a, b, c, d, e, f} = {a, b, c, d} \cup {e, f}
        OBVIOUS
      <3>2. IsFiniteSet({a, b, c, d} \cup {e, f})
        BY <2>3, <2>4, FS_Union
      <3> QED BY <3>1, <3>2
    <2>6. F = {p.store.holeFillToken, p.fillSession, p.fillActive, p.fillLive, p.fillRun,
               p.store.holeFill.candidate.id} \cup {resident.fillCandidate.id}
      OBVIOUS
    <2>7. IsFiniteSet(F)
      <3> HIDE DEF F
      <3> QED BY <2>2, <2>5, <2>6
    <2> QED BY <2>3, <2>5, <2>7
  <1> DEFINE G == CASE stream = "analysis" -> D [] stream = "repair" -> E [] OTHER -> F
  <1>7. Numbers(p, stream) = A \cup B \cup G
    BY DEF Numbers
  <1> HIDE DEF A, B, D, E, F
  <1>8. IsFiniteSet(A \cup B)
    BY <1>3, <1>5, FS_Union
  <1>9. IsFiniteSet(G)
    BY <1>6
  <1> HIDE DEF G
  <1> QED BY <1>7, <1>8, <1>9, FS_Union

(* A new token is not that of a request of its slice.                       *)
LEMMA FreshNumber ==
    ASSUME NEW p, NEW T, p.out \in Seq(T), IsFiniteSet(p.stop), IsFiniteSet(words),
           IsFiniteSet(UnderWay), NEW stream, NEW token, token = Fresh(p, stream)
    PROVE  /\ token \in Nat /\ token # 0 /\ token \notin Numbers(p, stream)
           /\ \A r \in UnderWay \cup Range(p.out) : Stream(r.kind) = stream => r.token # token
  <1> DEFINE used == Numbers(p, stream)
             most == Cardinality(used) + 1
  <1>1. IsFiniteSet(used) /\ Cardinality(used) \in Nat
    BY FiniteNumbers, FS_CardinalityType
  <1>2. \E n \in 1 .. most : n \notin used
    <2>1. SUFFICES ASSUME 1 .. most \subseteq used PROVE FALSE
      OBVIOUS
    <2>2. Cardinality(1 .. most) <= Cardinality(used)
      BY <1>1, <2>1, FS_Subset
    <2>3. Cardinality(1 .. most) = most
      BY <1>1, FS_Interval
    <2> HIDE DEF used
    <2> QED BY <1>1, <2>2, <2>3
  <1>3. token \in 1 .. most /\ token \notin used
    BY <1>2 DEF Fresh, Another
  <1>4. ASSUME NEW r \in UnderWay \cup Range(p.out), Stream(r.kind) = stream
        PROVE  r.token \in used
    <2> DEFINE pairs == {{t.token, t.id} :
                   t \in {q \in UnderWay \cup Range(p.out) : Stream(q.kind) = stream}}
    <2>1. {r.token, r.id} \in pairs
      BY <1>4
    <2>2. r.token \in UNION pairs
      BY <2>1
    <2>3. UNION pairs \subseteq used
      <3> HIDE DEF pairs
      <3> QED BY DEF Numbers, pairs
    <2> HIDE DEF used
    <2> QED BY <2>2, <2>3
  <1>5. token \notin Numbers(p, stream)
    BY <1>3
  <1> HIDE DEF used
  <1> QED BY <1>1, <1>3, <1>4, <1>5

LEMMA FreshToken ==
    ASSUME NEW p \in Pages, IsFiniteSet(p.stop), IsFiniteSet(words), IsFiniteSet(UnderWay),
           NEW stream, NEW token, token = Fresh(p, stream)
    PROVE  /\ token \in Nat /\ token # 0 /\ token \notin Numbers(p, stream)
           /\ \A r \in UnderWay \cup Range(p.out) : Stream(r.kind) = stream => r.token # token
  <1>1. p.out \in Seq(Requests)
    BY DEF Pages
  <1> QED BY <1>1, FreshNumber

(* q differs from p neither in the store nor in what the effects and the    *)
(* texture hook remember.                                                   *)
Beside(p, q) ==
    /\ q.setup = p.setup /\ q.startedFor = p.startedFor
    /\ q.edit.record = p.edit.record /\ q.edit.revision = p.edit.revision

Unused(token, stream, p, R) ==
    \A r \in R \cup Range(p.out) : Stream(r.kind) = stream => r.token # token

(* An operation on the store revives no attempt that was over.              *)
KeepsTokens(p, t, R) ==
    /\ t.repairToken \in {0, p.store.repairToken} \/ Unused(t.repairToken, "repair", p, R)
    /\ \/ t.holeFillToken = 0 \/ Unused(t.holeFillToken, "fill", p, R)
       \/ /\ t.holeFillToken = p.store.holeFillToken
          /\ t.holeFill.inventory \in {p.store.holeFill.inventory, "listing", "failed"}

(* What a handler does to the store.                                        *)
LEMMA StoreChanges ==
    ASSUME NEW p, NEW R, Current(p, R), NEW q \in Pages, Beside(p, q),
           q.out = p.out, q.stop = p.stop,
           KeepsModel(p.store, q.store), KeepsTokens(p, q.store, R)
    PROVE  Current(q, R) /\ Offers(p, q) /\ Model(q) = Model(p)
  <1>1. /\ Model(q) = Model(p) /\ Shown(q.store) = Shown(p.store)
        /\ q.store.revision = p.store.revision /\ q.store.part = p.store.part
        /\ StoreInv(q.store)
    BY DEF KeepsModel, Model, Shown
  <1>2. Offers(p, q)
    BY DEF Offers, Beside, KeepsModel
  <1>3. Settled(q)
    BY <1>1 DEF Settled, Current, Beside
  <1>4. \A r \in R \cup Range(p.out) : r.kind \in {"plan", "build"} => Stream(r.kind) = "repair"
    BY DEF Stream
  <1>5. \A r \in R \cup Range(p.out) : r.kind = "list" => Stream(r.kind) = "fill"
    BY DEF Stream
  <1>6. \A r \in R \cup Range(q.out) : RequestOf(r, q)
    <2> SUFFICES ASSUME NEW r \in R \cup Range(p.out) PROVE RequestOf(r, q)
      OBVIOUS
    <2>1. RequestOf(r, p)
      BY DEF Current, PageInv
    <2>2. r.kind \in {"plan", "build"} /\ r.token = q.store.repairToken /\ r.token # 0
            => r.token = p.store.repairToken
      BY <1>4 DEF KeepsTokens, Unused
    <2> QED BY <1>1, <2>1, <2>2 DEF RequestOf, Beside
  <1>7. ListsOf(q, R)
    <2> SUFFICES ASSUME NEW r \in R \cup Range(p.out), r.kind = "list",
                        r.token = q.store.holeFillToken, r.token # 0
                 PROVE  r.subject = Model(q) /\ q.store.holeFill.inventory # "ready"
      BY DEF ListsOf, ListOf
    <2>1. ListOf(r, p)
      BY DEF Current, ListsOf
    <2>2. /\ q.store.holeFillToken = p.store.holeFillToken
          /\ q.store.holeFill.inventory \in {p.store.holeFill.inventory, "listing", "failed"}
      BY <1>5 DEF KeepsTokens, Unused
    <2> QED BY <1>1, <2>1, <2>2 DEF ListOf
  <1>8. PageInv(q, R)
    BY <1>1, <1>3, <1>6 DEF PageInv, Current, Beside
  <1> QED BY <1>1, <1>2, <1>3, <1>7, <1>8 DEF Current

(* What it does beside the store, and what it posts and stops.              *)
LEMMA PostsAndStops ==
    ASSUME NEW p, NEW R, PageInv(p, R), NEW q \in Pages, Beside(p, q), q.store = p.store,
           IsFiniteSet(q.stop),
           \A r \in Range(q.out) : r \in Range(p.out) \/ (RequestOf(r, p) /\ ListOf(r, p))
    PROVE  /\ PageInv(q, R) /\ Offers(p, q) /\ Model(q) = Model(p)
           /\ ListsOf(p, R) => ListsOf(q, R)
           /\ Settled(p) => Settled(q)
           /\ Current(p, R) => Current(q, R)
  <1>1. Model(q) = Model(p) /\ (Settled(p) <=> Settled(q))
    BY DEF Model, Settled, Beside
  <1>2. Offers(p, q)
    BY DEF Offers, Beside
  <1>3. \A r : RequestOf(r, p) => RequestOf(r, q)
    BY <1>1 DEF RequestOf, Beside
  <1>4. \A r : ListOf(r, p) => ListOf(r, q)
    BY <1>1 DEF ListOf
  <1>5. PageInv(q, R)
    BY <1>1, <1>3 DEF PageInv, Beside
  <1>6. ListsOf(p, R) => ListsOf(q, R)
    BY <1>4 DEF ListsOf
  <1> QED BY <1>1, <1>2, <1>5, <1>6 DEF Current

LEMMA Posts ==
    ASSUME NEW p, NEW R, PageInv(p, R), NEW r, RequestOf(r, p), ListOf(r, p),
           NEW q, q = Post(p, r)
    PROVE  /\ PageInv(q, R) /\ Offers(p, q) /\ Model(q) = Model(p) /\ q.store = p.store
           /\ Beside(p, q) /\ q.stop = p.stop
           /\ ListsOf(p, R) => ListsOf(q, R)
           /\ Settled(p) => Settled(q)
           /\ Current(p, R) => Current(q, R)
  <1>1. p \in Pages /\ p.out \in Seq(Requests) /\ r \in Requests
    BY DEF PageInv, Pages, RequestOf
  <1> HIDE DEF Requests, Stores, Subjects, AllSetups, Streams
  <1>2. Append(p.out, r) \in Seq(Requests)
    BY <1>1
  <1> DEFINE o == Append(p.out, r)
  <1>3. q = [p EXCEPT !.out = o]
    BY DEF Post
  <1>4. \A x \in Range(o) : x \in Range(p.out) \/ x = r
    <2> HIDE DEF Requests
    <2> QED BY <1>1 DEF Range
  <1> HIDE DEF o
  <1>5. /\ q \in Pages /\ q.out = o /\ q.stop = p.stop /\ q.store = p.store
        /\ q.setup = p.setup /\ q.startedFor = p.startedFor /\ q.edit = p.edit
    BY <1>1, <1>2, <1>3 DEF Pages, o
  <1>6. Beside(p, q) /\ IsFiniteSet(q.stop)
    BY <1>5 DEF Beside, PageInv
  <1>7. \A x \in Range(q.out) : x \in Range(p.out) \/ (RequestOf(x, p) /\ ListOf(x, p))
    BY <1>4, <1>5
  <1> QED BY <1>5, <1>6, <1>7, PostsAndStops

LEMMA Stops ==
    ASSUME NEW p, NEW R, PageInv(p, R), NEW stream \in Streams, NEW token \in Nat,
           NEW q, q = Stop(p, stream, token)
    PROVE  /\ PageInv(q, R) /\ Offers(p, q) /\ Model(q) = Model(p) /\ q.store = p.store
           /\ Beside(p, q) /\ q.out = p.out
           /\ ListsOf(p, R) => ListsOf(q, R)
           /\ Settled(p) => Settled(q)
           /\ Current(p, R) => Current(q, R)
  <1>1. p \in Pages /\ p.stop \in SUBSET (Streams \X Nat)
    BY DEF PageInv, Pages
  <1> HIDE DEF Requests, Stores, Subjects, AllSetups, Streams
  <1> DEFINE o == p.stop \cup ({<<stream, token>>} \ {<<stream, 0>>})
  <1>2. o \in SUBSET (Streams \X Nat)
    BY <1>1
  <1>3. IsFiniteSet(o)
    <2>1. IsFiniteSet({<<stream, token>>})
      BY FS_Singleton
    <2>2. IsFiniteSet({<<stream, token>>} \ {<<stream, 0>>})
      BY <2>1, FS_Subset
    <2> QED BY <2>2, FS_Union DEF PageInv
  <1>4. q = [p EXCEPT !.stop = o]
    BY DEF Stop
  <1> HIDE DEF o
  <1>5. /\ q \in Pages /\ q.out = p.out /\ q.stop = o /\ q.store = p.store
        /\ q.setup = p.setup /\ q.startedFor = p.startedFor /\ q.edit = p.edit
    BY <1>1, <1>2, <1>4 DEF Pages
  <1>6. Beside(p, q) /\ IsFiniteSet(q.stop)
    BY <1>3, <1>5 DEF Beside
  <1> QED BY <1>5, <1>6, PostsAndStops
-----------------------------------------------------------------------------
(* The effects.                                                             *)

Bounded == IsFiniteSet(words) /\ IsFiniteSet(UnderWay)

LEMMA OffersCompose ==
    ASSUME NEW p, NEW q, NEW t, Offers(p, q), Offers(q, t)
    PROVE  Offers(p, t)
  BY DEF Offers

LEMMA AnalysisChanges ==
    ASSUME NEW p, NEW R, PageInv(p, R), NEW q \in Pages, Beside(p, q),
           q.out = p.out, q.stop = p.stop, ChangesAnalysis(p.store, q.store)
    PROVE  /\ PageInv(q, R) /\ Offers(p, q) /\ Model(q) = Model(p)
           /\ ListsOf(p, R) => ListsOf(q, R)
           /\ Settled(p) => Settled(q)
           /\ Current(p, R) => Current(q, R)
           /\ q.store.holeFill = p.store.holeFill
  <1> USE DEF ChangesAnalysis
  <1>1. /\ Model(q) = Model(p) /\ q.store.revision = p.store.revision
        /\ q.store.part = p.store.part /\ StoreInv(q.store)
    BY DEF KeepsModel, Model, Shown
  <1>2. Settled(q) <=> Settled(p)
    BY <1>1 DEF Settled, Beside
  <1>3. \A r : (RequestOf(r, p) => RequestOf(r, q)) /\ (ListOf(r, p) => ListOf(r, q))
    BY <1>1 DEF RequestOf, ListOf, Beside
  <1>4. PageInv(q, R) /\ (ListsOf(p, R) => ListsOf(q, R))
    BY <1>1, <1>2, <1>3 DEF PageInv, ListsOf, Beside
  <1>5. Offers(p, q)
    BY DEF Offers, Beside, KeepsModel
  <1> QED BY <1>1, <1>2, <1>4, <1>5 DEF Current

(* A request about the model on screen, for one of the slow operations.     *)
LEMMA ModelRequests ==
    ASSUME NEW p, NEW R, PageInv(p, R), NEW token \in Nat, NEW kind \in Slow \cup {"list"},
           NEW opening \in Nat, kind = "fill" => opening # 0,
           NEW r, r = Request(kind, token, Model(p), opening, 0)
    PROVE  /\ (kind = "list" => "fill" \in p.setup.tools) => RequestOf(r, p)
           /\ kind # "list" => ListOf(r, p)
           /\ r.kind = kind /\ r.token = token /\ r.subject = Model(p)
  <1>1. Model(p) \in Subjects
    BY ShownIs DEF Model, PageInv, Pages, StoreInv
  <1>2. r = [kind |-> kind, token |-> token, subject |-> Model(p), opening |-> opening, id |-> 0]
    BY DEF Request
  <1> HIDE DEF Subjects
  <1>3. r \in Requests
    BY <1>1, <1>2 DEF Requests, Kinds
  <1>4. r.kind \notin Changes /\ r.kind = kind
    BY <1>2 DEF Changes, Slow
  <1> QED BY <1>2, <1>3, <1>4 DEF RequestOf, ListOf

LEMMA StartsAnalysis ==
    ASSUME NEW p, PageInv(p, UnderWay), Bounded, NEW q, q = StartAnalysis(p)
    PROVE  /\ PageInv(q, UnderWay) /\ Offers(p, q) /\ Model(q) = Model(p)
           /\ ListsOf(p, UnderWay) => ListsOf(q, UnderWay)
           /\ Settled(p) => Settled(q)
           /\ Current(p, UnderWay) => Current(q, UnderWay)
           /\ q.store.holeFill = p.store.holeFill
  <1> DEFINE token == Fresh(p, "analysis")
             u == Stop(p, "analysis", p.analysisSession)
             t == BeginAnalysis(u.store, token)
             v == [u EXCEPT !.store = t, !.analysisSession = token]
             r == Request("analyze", token, Model(p), 0, 0)
  <1>0. p \in Pages /\ p.analysisSession \in Nat /\ IsFiniteSet(p.stop)
    BY DEF PageInv, Pages
  <1>1. token \in Nat
    BY <1>0, FreshToken DEF Bounded
  <1>2. /\ PageInv(u, UnderWay) /\ Offers(p, u) /\ Model(u) = Model(p) /\ u.store = p.store
        /\ ListsOf(p, UnderWay) => ListsOf(u, UnderWay)
        /\ Settled(p) => Settled(u)
    <2>1. u = Stop(p, "analysis", p.analysisSession) /\ "analysis" \in Streams
      BY DEF Streams
    <2> HIDE DEF u, Streams
    <2> QED BY <1>0, <2>1, Stops
  <1>3. ChangesAnalysis(u.store, t)
    <2> HIDE DEF t, u, token
    <2>1. StoreInv(u.store) /\ Nothing \in Subjects
      BY <1>2, Nothings DEF PageInv
    <2> QED BY <1>1, <2>1, AnalysisOperations DEF t
  <1>4. v \in Pages /\ Beside(u, v) /\ v.out = u.out /\ v.stop = u.stop /\ v.store = t
    <2> HIDE DEF t, u, token
    <2>1. u \in Pages /\ t \in Stores
      BY <1>2, <1>3 DEF PageInv, ChangesAnalysis, KeepsModel, StoreInv
    <2> HIDE DEF Stores, Requests, Subjects, AllSetups, Streams
    <2> QED BY <1>1, <2>1 DEF Pages, Beside
  <1> HIDE DEF v, t, u
  <1>5. /\ PageInv(v, UnderWay) /\ Offers(u, v) /\ Model(v) = Model(p)
        /\ ListsOf(u, UnderWay) => ListsOf(v, UnderWay)
        /\ Settled(u) => Settled(v)
        /\ v.store.holeFill = p.store.holeFill
    BY <1>2, <1>3, <1>4, AnalysisChanges
  <1>6. RequestOf(r, v) /\ ListOf(r, v)
    <2>1. r = Request("analyze", token, Model(v), 0, 0) /\ "analyze" \in Slow
      BY <1>5 DEF Slow
    <2> HIDE DEF token, r, Slow
    <2> QED BY <1>1, <1>5, <2>1, ModelRequests
  <1>7. q = Post(v, r)
    BY DEF StartAnalysis, v, t, u
  <1> HIDE DEF r
  <1>8. /\ PageInv(q, UnderWay) /\ Offers(v, q) /\ Model(q) = Model(p) /\ q.store = v.store
        /\ ListsOf(v, UnderWay) => ListsOf(q, UnderWay)
        /\ Settled(v) => Settled(q)
    BY <1>5, <1>6, <1>7, Posts
  <1>9. Offers(p, q)
    BY <1>2, <1>5, <1>8, OffersCompose
  <1> QED BY <1>2, <1>5, <1>8, <1>9 DEF Current

(* A new list supersedes whatever was listed for an earlier model.          *)
LEMMA StartsListing ==
    ASSUME NEW p, PageInv(p, UnderWay), Settled(p), Bounded, "fill" \in p.setup.tools,
           p.store.holeFill.candidate = NoCandidate, NEW q, q = ListOpenings(p)
    PROVE  Current(q, UnderWay) /\ Offers(p, q) /\ Model(q) = Model(p)
  <1> DEFINE token == Fresh(p, "fill")
             t == BeginHoleFillListing(p.store, token)
             v == [p EXCEPT !.store = t]
             r == Request("list", token, Model(p), 0, 0)
  <1>0. p \in Pages /\ IsFiniteSet(p.stop) /\ StoreInv(p.store)
    BY DEF PageInv
  <1>1. /\ token \in Nat /\ token # 0
        /\ \A x \in UnderWay \cup Range(p.out) : Stream(x.kind) = "fill" => x.token # token
    BY <1>0, FreshToken DEF Bounded
  <1> HIDE DEF token
  <1>2. ChangesHoleFill(p.store, t) /\ t.holeFillToken = token
    <2>1. "idle" \in States
      BY DEF States
    <2> HIDE DEF t, States
    <2> QED BY <1>0, <1>1, <2>1, HoleFillOperations DEF t
  <1>3. t.holeFill.inventory = "listing"
    BY <1>0 DEF BeginHoleFillListing, StoreInv, Stores, HoleFills
  <1>4. /\ v \in Pages /\ Beside(p, v) /\ v.out = p.out /\ v.stop = p.stop /\ v.store = t
    <2> HIDE DEF t
    <2>1. t \in Stores
      BY <1>2 DEF ChangesHoleFill, KeepsModel, StoreInv
    <2> HIDE DEF Stores, Requests, Subjects, AllSetups, Streams
    <2> QED BY <1>0, <2>1 DEF Pages, Beside
  <1>5. v.setup = p.setup
    BY <1>4 DEF Beside
  <1> HIDE DEF v, t
  <1>6. /\ Model(v) = Model(p) /\ v.store.revision = p.store.revision
        /\ v.store.part = p.store.part /\ StoreInv(v.store) /\ Settled(v)
    BY <1>2, <1>4 DEF ChangesHoleFill, KeepsModel, Model, Shown, Settled, Beside
  <1>7. Offers(p, v)
    BY <1>2, <1>4 DEF ChangesHoleFill, KeepsModel, Offers, Beside
  <1>8. PageInv(v, UnderWay)
    <2>1. \A x \in UnderWay \cup Range(p.out) : RequestOf(x, v)
      BY <1>2, <1>4, <1>6 DEF PageInv, RequestOf, ChangesHoleFill, Beside
    <2> QED BY <1>0, <1>4, <1>6, <2>1 DEF PageInv, Beside
  <1>9. ListsOf(v, UnderWay)
    <2> SUFFICES ASSUME NEW x \in UnderWay \cup Range(p.out), x.kind = "list",
                        x.token = v.store.holeFillToken
                 PROVE  FALSE
      BY <1>4 DEF ListsOf, ListOf
    <2>1. Stream(x.kind) = "fill"
      BY DEF Stream
    <2> QED BY <1>1, <1>2, <1>4, <2>1
  <1>10. Current(v, UnderWay)
    BY <1>6, <1>8, <1>9 DEF Current
  <1>11. RequestOf(r, v) /\ ListOf(r, v)
    <2>1. r = Request("list", token, Model(v), 0, 0) /\ "list" \in Slow \cup {"list"}
      BY <1>6
    <2> HIDE DEF r, Slow
    <2>2. /\ RequestOf(r, v) /\ r.subject = Model(v)
      BY <1>1, <1>5, <1>8, <2>1, ModelRequests
    <2> QED BY <1>3, <1>4, <2>2 DEF ListOf
  <1>12. q = Post(v, r)
    BY DEF ListOpenings, v, t, token
  <1> HIDE DEF r
  <1>13. Current(q, UnderWay) /\ Offers(v, q) /\ Model(q) = Model(v)
    BY <1>8, <1>10, <1>11, <1>12, Posts
  <1> QED BY <1>6, <1>7, <1>13, OffersCompose

LEMMA StartsPlan ==
    ASSUME NEW p, Current(p, UnderWay), Bounded, NEW q, q = StartPlan(p)
    PROVE  Current(q, UnderWay) /\ Offers(p, q)
  <1> DEFINE token == Fresh(p, "repair")
             u == Stop(p, "repair", p.repairSession)
             t == BeginRepairPlan(u.store, token)
             v == [u EXCEPT !.store = t, !.repairSession = token]
             r == Request("plan", token, Model(p), 0, 0)
  <1>0. p \in Pages /\ p.repairSession \in Nat /\ IsFiniteSet(p.stop) /\ PageInv(p, UnderWay)
    BY DEF Current, PageInv, Pages
  <1>1. token \in Nat /\ Unused(token, "repair", p, UnderWay)
    BY <1>0, FreshToken DEF Bounded, Unused
  <1> HIDE DEF token
  <1>2. /\ Current(u, UnderWay) /\ Offers(p, u) /\ Model(u) = Model(p) /\ u.store = p.store
        /\ u.out = p.out
    <2>1. u = Stop(p, "repair", p.repairSession) /\ "repair" \in Streams
      BY DEF Streams
    <2> HIDE DEF u, Streams
    <2> QED BY <1>0, <2>1, Stops
  <1>3. ChangesRepair(u.store, t) /\ t.repairToken = token
    <2> HIDE DEF t, u
    <2>1. StoreInv(u.store) /\ "idle" \in States
      BY <1>2 DEF Current, PageInv, States
    <2> QED BY <1>1, <2>1, RepairOperations DEF t
  <1>4. v \in Pages /\ Beside(u, v) /\ v.out = u.out /\ v.stop = u.stop /\ v.store = t
    <2> HIDE DEF t, u
    <2>1. u \in Pages /\ t \in Stores
      BY <1>2, <1>3 DEF Current, PageInv, ChangesRepair, KeepsModel, StoreInv
    <2> HIDE DEF Stores, Requests, Subjects, AllSetups, Streams
    <2> QED BY <1>1, <2>1 DEF Pages, Beside
  <1> HIDE DEF v, t, u
  <1>5. Current(v, UnderWay) /\ Offers(u, v) /\ Model(v) = Model(p)
    <2>1. KeepsTokens(u, v.store, UnderWay)
      BY <1>1, <1>2, <1>3, <1>4 DEF KeepsTokens, ChangesRepair, Unused
    <2> QED BY <1>2, <1>3, <1>4, <2>1, StoreChanges DEF ChangesRepair
  <1>6. RequestOf(r, v) /\ ListOf(r, v)
    <2>1. r = Request("plan", token, Model(v), 0, 0) /\ "plan" \in Slow
      BY <1>5 DEF Slow
    <2> HIDE DEF r, Slow
    <2> QED BY <1>1, <1>5, <2>1, ModelRequests DEF Current
  <1>7. q = Post(v, r)
    BY DEF StartPlan, v, t, u, token
  <1> HIDE DEF r
  <1>8. Current(q, UnderWay) /\ Offers(v, q)
    BY <1>5, <1>6, <1>7, Posts DEF Current
  <1> QED BY <1>2, <1>5, <1>8, OffersCompose

(* After a handler the effects make the page current again.                 *)
LEMMA EffectsRun ==
    ASSUME NEW p, PageInv(p, UnderWay), Settled(p) => ListsOf(p, UnderWay), Bounded,
           NEW q, q = Effects(p)
    PROVE  Current(q, UnderWay) /\ Offers(p, q)
  <1> DEFINE s == SubjectEffects(p)
  <1>1. Current(s, UnderWay) /\ Offers(p, s)
    <2>1. CASE Settled(p)
      <3>1. s = p
        BY <2>1 DEF SubjectEffects, Settled
      <3> HIDE DEF s
      <3> QED BY <2>1, <3>1 DEF Current, Offers
    <2>2. CASE ~Settled(p)
      <3> DEFINE m == Model(p)
                 b == [p EXCEPT !.startedFor = m]
                 a == StartAnalysis(b)
      <3>1. /\ b \in Pages /\ b.store = p.store /\ b.setup = p.setup /\ b.out = p.out
            /\ b.edit = p.edit /\ b.stop = p.stop /\ b.startedFor = m
        <4>1. p \in Pages /\ m \in Subjects
          BY ShownIs DEF PageInv, Model, StoreInv
        <4> HIDE DEF m, Stores, Requests, Subjects, AllSetups, Streams
        <4> QED BY <4>1 DEF Pages
      <3>2. /\ PageInv(b, UnderWay) /\ Settled(b) /\ Offers(p, b) /\ Model(b) = m
            /\ b.store.holeFill.candidate = NoCandidate
        <4> HIDE DEF b
        <4>1. \A r : RequestOf(r, p) => RequestOf(r, b)
          BY <3>1 DEF RequestOf, Model
        <4>2. Settled(b) /\ Model(b) = m
          BY <3>1 DEF Settled, Model
        <4>3. p.store.holeFill.candidate = NoCandidate
          BY <2>2 DEF PageInv
        <4>4. PageInv(b, UnderWay)
          BY <3>1, <4>1, <4>2 DEF PageInv
        <4>5. Offers(p, b)
          BY <3>1 DEF Offers
        <4> QED BY <3>1, <4>2, <4>3, <4>4, <4>5
      <3>3. s = IF "fill" \in p.setup.tools THEN ListOpenings(a) ELSE a
        BY <2>2 DEF SubjectEffects, Settled
      <3> HIDE DEF b, s
      <3>4. /\ PageInv(a, UnderWay) /\ Offers(b, a) /\ Settled(a)
            /\ a.store.holeFill.candidate = NoCandidate
        BY <3>2, StartsAnalysis
      <3> HIDE DEF a
      <3>5. Offers(p, a)
        BY <3>2, <3>4, OffersCompose
      <3>6. CASE "fill" \in p.setup.tools
        <4>1. "fill" \in a.setup.tools
          BY <3>5, <3>6 DEF Offers
        <4>2. Current(s, UnderWay) /\ Offers(a, s)
          BY <3>3, <3>4, <3>6, <4>1, StartsListing
        <4> QED BY <3>5, <4>2, OffersCompose
      <3>7. CASE "fill" \notin p.setup.tools
        <4>1. "fill" \notin a.setup.tools
          BY <3>5, <3>7 DEF Offers
        <4>2. ListsOf(a, UnderWay)
          BY <3>4, <4>1 DEF PageInv, RequestOf, ListsOf, ListOf
        <4> QED BY <3>3, <3>4, <3>5, <3>7, <4>2 DEF Current
      <3> QED BY <3>6, <3>7
    <2> QED BY <2>1, <2>2
  <1>2. q = PlanEffect(s)
    BY DEF Effects
  <1> HIDE DEF s
  <1>3. ASSUME NEW m \in Subjects, NEW v, v = [s EXCEPT !.plannedFor = m]
        PROVE  Current(v, UnderWay) /\ Offers(s, v)
    <2>1. s \in Pages /\ IsFiniteSet(s.stop) /\ PageInv(s, UnderWay)
      BY <1>1 DEF Current, PageInv
    <2>2. /\ v \in Pages /\ Beside(s, v) /\ v.store = s.store /\ v.out = s.out
          /\ v.stop = s.stop
      <3> HIDE DEF Stores, Requests, Subjects, AllSetups, Streams
      <3> QED BY <1>3, <2>1 DEF Pages, Beside
    <2> QED BY <1>1, <2>1, <2>2, PostsAndStops
  <1>4. Model(s) \in Subjects /\ Nothing \in Subjects
    BY <1>1, ShownIs, Nothings DEF Current, PageInv, Model, StoreInv
  <1>5. CASE ~ReportIsCurrent(s) \/ "repair" \notin s.setup.tools
    <2>1. q = [s EXCEPT !.plannedFor = Nothing]
      BY <1>2, <1>5 DEF PlanEffect
    <2> QED BY <1>1, <1>3, <1>4, <2>1, OffersCompose
  <1>6. CASE q = s
    BY <1>1, <1>6
  <1>7. CASE q = StartPlan([s EXCEPT !.plannedFor = Model(s)])
    <2> DEFINE v == [s EXCEPT !.plannedFor = Model(s)]
    <2>1. Current(v, UnderWay) /\ Offers(s, v)
      BY <1>3, <1>4
    <2> HIDE DEF v
    <2>2. Current(q, UnderWay) /\ Offers(v, q)
      BY <1>7, <2>1, StartsPlan DEF v
    <2> QED BY <1>1, <2>1, <2>2, OffersCompose
  <1> QED BY <1>2, <1>5, <1>6, <1>7 DEF PlanEffect
-----------------------------------------------------------------------------
(* From one handler to the next.                                            *)

Outcomes == {"result", "failed", "cancelled"}

AnswersOf == [request : Requests, outcome : Outcomes, revision : Nat]

(* Before the effects first ran, nothing was asked.                         *)
ChannelInv ==
    /\ toWorker \in Seq(Requests) /\ toPage \in Seq(AnswersOf)
    /\ IsFiniteSet(serving) /\ \A r \in serving : r.kind \in Slow
    /\ IsFiniteSet(words)
    /\ Settled(page) \/ (page.startedFor = Nothing /\ UnderWay = {})

HandledInv ==
    /\ PageInv(page, UnderWay) /\ ListsOf(page, UnderWay)
    /\ page.out = <<>> /\ page.stop = {}
    /\ ChannelInv

LEMMA ChannelsAreBounded ==
    ASSUME NEW S, NEW T, NEW w \in Seq(S), NEW a \in Seq(T), NEW V, IsFiniteSet(V)
    PROVE  IsFiniteSet(Range(w) \cup V \cup {x.request : x \in Range(a)})
  <1>1. IsFiniteSet(Range(w)) /\ IsFiniteSet(Range(a))
    BY FiniteRange
  <1>2. [x \in Range(a) |-> x.request] \in Surjection(Range(a), {x.request : x \in Range(a)})
    BY DEF Surjection
  <1>3. IsFiniteSet({x.request : x \in Range(a)})
    BY <1>1, <1>2, FS_Surjection
  <1>4. IsFiniteSet(Range(w) \cup V)
    BY <1>1, FS_Union
  <1> QED BY <1>3, <1>4, FS_Union

LEMMA UnderWayIsBounded ==
    ASSUME ChannelInv
    PROVE  Bounded
  <1>1. IsFiniteSet(Range(toWorker) \cup serving \cup {a.request : a \in Range(toPage)})
    <2> HIDE DEF Requests, AnswersOf
    <2> QED BY ChannelsAreBounded DEF ChannelInv
  <1> QED BY <1>1 DEF Bounded, UnderWay, ChannelInv

(* Whatever a token that no request carries any more is taken for.          *)
LEMMA LiveTokens ==
    ASSUME NEW p, NEW R, Current(p, R), NEW q, q = WithLiveTokens(p, R)
    PROVE  Current(q, R) /\ Offers(p, q) /\ q.out = p.out /\ q.stop = p.stop
  <1> DEFINE a == Kept(p.store.analysisToken, "analysis", R)
             b == Kept(p.store.repairToken, "repair", R)
             c == Kept(p.store.holeFillToken, "fill", R)
             d == Kept(p.repairActive, "repair", R)
             e == Kept(p.fillActive, "fill", R)
             t == [p.store EXCEPT !.analysisToken = a, !.repairToken = b, !.holeFillToken = c]
  <1>0. p \in Pages /\ p.store \in Stores /\ StoreInv(p.store)
    BY DEF Current, PageInv, StoreInv
  <1>1. /\ a \in {0, p.store.analysisToken} /\ b \in {0, p.store.repairToken}
        /\ c \in {0, p.store.holeFillToken} /\ d \in {0, p.repairActive}
        /\ e \in {0, p.fillActive}
    BY DEF Kept
  <1>2. a \in Nat /\ b \in Nat /\ c \in Nat /\ d \in Nat /\ e \in Nat
    BY <1>0, <1>1, SMTT(20) DEF Stores, Pages
  <1>3. q = [p EXCEPT !.store = t, !.repairActive = d, !.fillActive = e]
    <2> HIDE DEF Analyses, Repairs, HoleFills, Requests, Subjects, AllSetups, Streams, Kept
    <2> QED BY <1>0 DEF WithLiveTokens, Pages, Stores
  <1> HIDE DEF a, b, c, d, e
  <1>4. /\ t \in Stores /\ t.revision = p.store.revision /\ t.part = p.store.part
        /\ t.analysis = p.store.analysis /\ t.repair = p.store.repair
        /\ t.holeFill = p.store.holeFill /\ t.repairToken = b /\ t.holeFillToken = c
    <2> HIDE DEF Analyses, Repairs, HoleFills
    <2> QED BY <1>0, <1>2 DEF Stores
  <1> HIDE DEF t
  <1>5. KeepsModel(p.store, t)
    BY <1>0, <1>4 DEF KeepsModel, StoreInv, Shown
  <1>6. KeepsTokens(p, t, R)
    BY <1>1, <1>4 DEF KeepsTokens
  <1>7. /\ q \in Pages /\ Beside(p, q) /\ q.out = p.out /\ q.stop = p.stop /\ q.store = t
    <2> HIDE DEF Stores, Requests, Subjects, AllSetups, Streams
    <2> QED BY <1>0, <1>2, <1>3, <1>4 DEF Pages, Beside
  <1> QED BY <1>5, <1>6, <1>7, StoreChanges

(* A handler that leaves the page consistent, and its effects.              *)
LEMMA HandlerEnds ==
    ASSUME ChannelInv, NEW p, PageInv(p, UnderWay), Settled(p) => ListsOf(p, UnderWay),
           NEW answers \in Seq(AnswersOf), Range(answers) \subseteq Range(toPage),
           PageBecomes(p, answers)
    PROVE  HandledInv' /\ Offers(p, page')
  <1> DEFINE q == Effects(p)
             v == [q EXCEPT !.out = <<>>, !.stop = {}]
             requests == Range(toWorker \o q.out) \cup serving
                           \cup {a.request : a \in Range(answers)}
  <1>1. Bounded
    BY UnderWayIsBounded
  <1>2. Current(q, UnderWay) /\ Offers(p, q)
    <2> HIDE DEF q
    <2> QED BY <1>1, EffectsRun DEF q
  <1>3. /\ page' = WithLiveTokens(v, requests) /\ toWorker' = toWorker \o q.out
        /\ toPage' = answers /\ words' \subseteq words \cup q.stop
        /\ serving' = serving /\ resident' = resident
    BY DEF PageBecomes
  <1> HIDE DEF q
  <1>4. /\ toWorker \in Seq(Requests) /\ q.out \in Seq(Requests)
        /\ q \in Pages /\ IsFiniteSet(q.stop)
    BY <1>2 DEF ChannelInv, Current, PageInv, Pages
  <1>5. UnderWay' = requests
    BY <1>3 DEF UnderWay
  <1>6. requests \subseteq UnderWay \cup Range(q.out)
    <2>1. Range(toWorker \o q.out) \subseteq Range(toWorker) \cup Range(q.out)
      <3> HIDE DEF Requests
      <3> QED BY <1>4, RangeConcatenation
    <2> QED BY <2>1 DEF UnderWay
  <1>7. /\ v \in Pages /\ v.out = <<>> /\ v.stop = {} /\ v.store = q.store /\ Beside(q, v)
    <2> DEFINE none == <<>>
               nobody == {}
    <2>1. none \in Seq(Requests) /\ nobody \in SUBSET (Streams \X Nat)
      OBVIOUS
    <2>2. v = [q EXCEPT !.out = none, !.stop = nobody]
      OBVIOUS
    <2> HIDE DEF none, nobody, Stores, Requests, Subjects, AllSetups, Streams, v
    <2>3. /\ v \in Pages /\ v.out = none /\ v.stop = nobody /\ v.store = q.store
          /\ Beside(q, v)
      BY <1>4, <2>1, <2>2 DEF Pages, Beside
    <2> QED BY <2>3 DEF none, nobody
  <1> HIDE DEF v, requests
  <1>8. Current(v, requests) /\ Offers(q, v)
    <2>1. Model(v) = Model(q) /\ Settled(v)
      BY <1>2, <1>7 DEF Model, Settled, Current, Beside
    <2>2. Range(v.out) = {}
      BY <1>7 DEF Range
    <2>3. \A r \in requests : RequestOf(r, q) /\ ListOf(r, q)
      BY <1>2, <1>6 DEF Current, PageInv, ListsOf
    <2>4. \A r \in requests : RequestOf(r, v) /\ ListOf(r, v)
      BY <1>7, <2>1, <2>3 DEF RequestOf, ListOf, Beside
    <2>5. IsFiniteSet({})
      BY FS_EmptySet
    <2>6. PageInv(v, requests)
      BY <1>2, <1>7, <2>1, <2>2, <2>4, <2>5 DEF Current, PageInv, Beside
    <2>7. ListsOf(v, requests)
      BY <2>2, <2>4 DEF ListsOf
    <2>8. Offers(q, v)
      BY <1>7 DEF Offers, Beside
    <2> QED BY <2>1, <2>6, <2>7, <2>8 DEF Current
  <1>9. /\ Current(page', requests) /\ Offers(v, page')
        /\ page'.out = <<>> /\ page'.stop = {}
    BY <1>3, <1>7, <1>8, LiveTokens
  <1>10. IsFiniteSet(words')
    <2>1. IsFiniteSet(words \cup q.stop)
      BY <1>4, FS_Union DEF ChannelInv
    <2> QED BY <1>3, <2>1, FS_Subset
  <1>11. toWorker' \in Seq(Requests) /\ toPage' \in Seq(AnswersOf)
    <2> HIDE DEF Requests, AnswersOf
    <2> QED BY <1>3, <1>4
  <1>12. ChannelInv'
    <2>1. Settled(page')
      BY <1>9 DEF Current
    <2> QED BY <1>3, <1>10, <1>11, <2>1 DEF ChannelInv
  <1>13. HandledInv'
    BY <1>5, <1>9, <1>12 DEF HandledInv, Current
  <1> QED BY <1>2, <1>8, <1>9, <1>13, OffersCompose
-----------------------------------------------------------------------------
(* The pieces the handlers are made of.                                     *)

(* An operation on one slice. A token is dropped, kept or new.              *)
SliceChanges(p, t, R) ==
    \/ ChangesAnalysis(p.store, t)
    \/ /\ ChangesRepair(p.store, t)
       /\ t.repairToken \in {0, p.store.repairToken} \/ Unused(t.repairToken, "repair", p, R)
    \/ /\ ChangesHoleFill(p.store, t)
       /\ \/ t.holeFillToken \in {0, p.store.holeFillToken}
          \/ Unused(t.holeFillToken, "fill", p, R)

LEMMA SlicesAreStores ==
    ASSUME NEW p, NEW R, NEW t, SliceChanges(p, t, R)
    PROVE  t \in Stores
  BY DEF SliceChanges, ChangesAnalysis, ChangesRepair, ChangesHoleFill, KeepsModel, StoreInv

LEMMA SliceSteps ==
    ASSUME NEW p, NEW R, Current(p, R), NEW t, SliceChanges(p, t, R),
           NEW q \in Pages, Beside(p, q), q.store = t, q.out = p.out, q.stop = p.stop
    PROVE  Current(q, R) /\ Offers(p, q) /\ Model(q) = Model(p)
  <1>1. KeepsModel(p.store, t)
    BY DEF SliceChanges, ChangesAnalysis, ChangesRepair, ChangesHoleFill
  <1>2. KeepsTokens(p, t, R)
    BY DEF SliceChanges, ChangesAnalysis, ChangesRepair, ChangesHoleFill, KeepsTokens
  <1> QED BY <1>1, <1>2, StoreChanges

LEMMA StoreSteps ==
    ASSUME NEW p, NEW R, Current(p, R), NEW t, SliceChanges(p, t, R),
           NEW q, q = [p EXCEPT !.store = t]
    PROVE  Current(q, R) /\ Offers(p, q) /\ Model(q) = Model(p) /\ q.store = t
           /\ q.out = p.out /\ q.stop = p.stop
  <1>0. p \in Pages /\ t \in Stores
    BY SlicesAreStores DEF Current, PageInv
  <1>1. /\ q \in Pages /\ Beside(p, q) /\ q.store = t /\ q.out = p.out
        /\ q.stop = p.stop
    <2> HIDE DEF Stores, Requests, Subjects, AllSetups, Streams
    <2> QED BY <1>0 DEF Pages, Beside
  <1> QED BY <1>1, SliceSteps

(* The requests that are about no model, or may be about an earlier one.    *)
LEMMA OtherRequests ==
    ASSUME NEW p, NEW R, PageInv(p, R), NEW token \in Nat, NEW id \in Nat,
           NEW opening \in Nat, NEW kind, NEW subject \in Subjects,
           \/ kind \in Discards \cup {"cancelFill"}
           \/ kind \in Changes /\ subject.revision <= p.store.revision,
           NEW r, r = Request(kind, token, subject, opening, id)
    PROVE  RequestOf(r, p) /\ ListOf(r, p)
  <1>1. r = [kind |-> kind, token |-> token, subject |-> subject, opening |-> opening, id |-> id]
    BY DEF Request
  <1>2. kind \in Kinds /\ kind \notin {"plan", "build", "list", "fill"}
    BY DEF Kinds, Discards, Changes
  <1> HIDE DEF Subjects, Kinds
  <1>3. r \in Requests
    BY <1>1, <1>2 DEF Requests
  <1>4. r.kind \in Changes => r.subject.revision <= p.store.revision
    BY <1>1 DEF Discards, Changes
  <1> QED BY <1>1, <1>2, <1>3, <1>4 DEF RequestOf, ListOf

LEMMA ReleasesRepair ==
    ASSUME NEW p, NEW R, Current(p, R), NEW q, q = ReleaseRepairCandidate(p)
    PROVE  Current(q, R) /\ Offers(p, q) /\ Model(q) = Model(p) /\ q.store = p.store
  <1>0. p \in Pages /\ p.repairLive \in Nat /\ IsFiniteSet(p.stop) /\ PageInv(p, R)
    BY DEF Current, PageInv, Pages
  <1>1. CASE p.repairLive = 0
    BY <1>1 DEF ReleaseRepairCandidate, Offers
  <1>2. CASE p.repairLive # 0
    <2> DEFINE v == [p EXCEPT !.repairLive = 0]
               r == Request("discardRepair", 0, Nothing, 0, p.repairLive)
    <2>1. v \in Pages /\ Beside(p, v) /\ v.out = p.out /\ v.stop = p.stop /\ v.store = p.store
      <3> HIDE DEF Stores, Requests, Subjects, AllSetups, Streams
      <3> QED BY <1>0 DEF Pages, Beside
    <2> HIDE DEF v
    <2>2. Current(v, R) /\ Offers(p, v) /\ Model(v) = Model(p)
      BY <1>0, <2>1, PostsAndStops
    <2>3. RequestOf(r, v) /\ ListOf(r, v)
      BY <1>0, <2>2, Nothings, OtherRequests DEF Discards, Current
    <2> HIDE DEF r
    <2>4. q = Post(v, r)
      BY <1>2 DEF ReleaseRepairCandidate, v, r
    <2>5. Current(q, R) /\ Offers(v, q) /\ Model(q) = Model(v) /\ q.store = v.store
      BY <2>2, <2>3, <2>4, Posts DEF Current
    <2> QED BY <2>1, <2>2, <2>5, OffersCompose
  <1> QED BY <1>1, <1>2

LEMMA ReleasesFill ==
    ASSUME NEW p, NEW R, Current(p, R), NEW id \in Nat, NEW q, q = ReleaseFillCandidate(p, id)
    PROVE  Current(q, R) /\ Offers(p, q) /\ Model(q) = Model(p) /\ q.store = p.store
  <1>0. p \in Pages /\ p.fillLive \in Nat /\ IsFiniteSet(p.stop) /\ PageInv(p, R)
    BY DEF Current, PageInv, Pages
  <1>1. CASE id = 0
    BY <1>1 DEF ReleaseFillCandidate, Offers
  <1>2. CASE id # 0
    <2> DEFINE n == IF p.fillLive = id THEN 0 ELSE p.fillLive
               v == [p EXCEPT !.fillLive = n]
               r == Request("discardFill", 0, Nothing, 0, id)
    <2>1. v \in Pages /\ Beside(p, v) /\ v.out = p.out /\ v.stop = p.stop /\ v.store = p.store
      <3>1. n \in Nat
        BY <1>0
      <3> HIDE DEF n, Stores, Requests, Subjects, AllSetups, Streams
      <3> QED BY <1>0, <3>1 DEF Pages, Beside
    <2>2. v = [p EXCEPT !.fillLive = IF @ = id THEN 0 ELSE @]
      BY <1>0 DEF Pages
    <2> HIDE DEF v
    <2>3. Current(v, R) /\ Offers(p, v) /\ Model(v) = Model(p)
      BY <1>0, <2>1, PostsAndStops
    <2>4. RequestOf(r, v) /\ ListOf(r, v)
      BY <1>0, <2>3, Nothings, OtherRequests DEF Discards, Current
    <2> HIDE DEF r
    <2>5. q = Post(v, r)
      BY <1>2, <2>2 DEF ReleaseFillCandidate, r
    <2>6. Current(q, R) /\ Offers(v, q) /\ Model(q) = Model(v) /\ q.store = v.store
      BY <2>3, <2>4, <2>5, Posts DEF Current
    <2> QED BY <2>1, <2>3, <2>6, OffersCompose
  <1> QED BY <1>1, <1>2

LEMMA DisposesFill ==
    ASSUME NEW p, NEW R, Current(p, R), NEW q, q = DisposeFill(p)
    PROVE  Current(q, R) /\ Offers(p, q) /\ Model(q) = Model(p) /\ q.store = p.store
  <1>0. p.fillRun \in Nat /\ PageInv(p, R)
    BY DEF Current, PageInv, Pages
  <1>1. CASE p.fillRun = 0
    BY <1>1 DEF DisposeFill, Offers
  <1>2. CASE p.fillRun # 0
    <2> DEFINE u == Stop(p, "fill", p.fillRun)
               v == [u EXCEPT !.fillRun = 0]
               r == Request("cancelFill", p.fillRun, Nothing, 0, 0)
    <2>1. Current(u, R) /\ Offers(p, u) /\ Model(u) = Model(p) /\ u.store = p.store
      <3>1. u = Stop(p, "fill", p.fillRun) /\ "fill" \in Streams
        BY DEF Streams
      <3> HIDE DEF u, Streams
      <3> QED BY <1>0, <3>1, Stops
    <2> HIDE DEF u
    <2>2. u \in Pages /\ IsFiniteSet(u.stop) /\ PageInv(u, R)
      BY <2>1 DEF Current, PageInv
    <2>3. v \in Pages /\ Beside(u, v) /\ v.out = u.out /\ v.stop = u.stop /\ v.store = u.store
      <3> HIDE DEF Stores, Requests, Subjects, AllSetups, Streams
      <3> QED BY <2>2 DEF Pages, Beside
    <2> HIDE DEF v
    <2>4. Current(v, R) /\ Offers(u, v) /\ Model(v) = Model(u)
      BY <2>1, <2>2, <2>3, PostsAndStops
    <2>5. RequestOf(r, v) /\ ListOf(r, v)
      BY <1>0, <2>4, Nothings, OtherRequests DEF Current
    <2> HIDE DEF r
    <2>6. q = Post(v, r)
      BY <1>2 DEF DisposeFill, v, u, r
    <2>7. Current(q, R) /\ Offers(v, q) /\ Model(q) = Model(v) /\ q.store = v.store
      BY <2>4, <2>5, <2>6, Posts DEF Current
    <2> QED BY <2>1, <2>3, <2>4, <2>7, OffersCompose
  <1> QED BY <1>1, <1>2

LEMMA CancelsTheFillSession ==
    ASSUME NEW p, NEW R, Current(p, R), NEW q, q = CancelFillSession(p)
    PROVE  Current(q, R) /\ Offers(p, q) /\ Model(q) = Model(p) /\ q.store = p.store
  <1>1. ASSUME NEW u, Current(u, R), NEW v, v = [u EXCEPT !.fillSession = 0]
        PROVE  Current(v, R) /\ Offers(u, v) /\ Model(v) = Model(u) /\ v.store = u.store
    <2>1. u \in Pages /\ IsFiniteSet(u.stop) /\ PageInv(u, R)
      BY <1>1 DEF Current, PageInv
    <2>2. v \in Pages /\ Beside(u, v) /\ v.out = u.out /\ v.stop = u.stop /\ v.store = u.store
      <3> HIDE DEF Stores, Requests, Subjects, AllSetups, Streams
      <3> QED BY <1>1, <2>1 DEF Pages, Beside
    <2> QED BY <1>1, <2>1, <2>2, PostsAndStops
  <1> DEFINE u == DisposeFill(p)
  <1>2. Current(u, R) /\ Offers(p, u) /\ Model(u) = Model(p) /\ u.store = p.store
    <2> HIDE DEF u
    <2> QED BY DisposesFill DEF u
  <1>3. q = [u EXCEPT !.fillSession = 0] \/ q = [p EXCEPT !.fillSession = 0]
    BY DEF CancelFillSession
  <1> HIDE DEF u
  <1> QED BY <1>1, <1>2, <1>3, OffersCompose

LEMMA RejectsFill ==
    ASSUME NEW p, NEW R, Current(p, R), NEW token \in Nat, NEW q, q = FillRejected(p, token)
    PROVE  Current(q, R) /\ Offers(p, q) /\ Model(q) = Model(p)
  <1> DEFINE t == EndHoleFillCandidate(p.store, token, "cancelled")
  <1>0. p \in Pages /\ StoreInv(p.store)
    BY DEF Current, PageInv
  <1>1. SliceChanges(p, t, R)
    <2>1. "cancelled" \in States
      BY DEF States
    <2> HIDE DEF States, t
    <2> QED BY <1>0, <2>1, HoleFillOperations DEF t, SliceChanges
  <1>2. q = [p EXCEPT !.store = t, !.fillSession = 0, !.fillActive = 0]
    BY DEF FillRejected
  <1> HIDE DEF t
  <1>3. t \in Stores
    BY <1>1, SlicesAreStores
  <1>4. q \in Pages /\ Beside(p, q) /\ q.store = t /\ q.out = p.out /\ q.stop = p.stop
    <2> DEFINE none == 0
    <2>1. q = [p EXCEPT !.store = t, !.fillSession = none, !.fillActive = none] /\ none \in Nat
      BY <1>2
    <2> HIDE DEF none, Stores, Requests, Subjects, AllSetups, Streams
    <2> QED BY <1>0, <1>3, <2>1 DEF Pages, Beside
  <1> QED BY <1>1, <1>4, SliceSteps

LEMMA RejectsCancelled ==
    ASSUME NEW p, NEW R, Current(p, R), NEW b, b.fillRun \in Nat, NEW q, q = ThenRejected(b, p)
    PROVE  Current(q, R) /\ Offers(p, q) /\ Model(q) = Model(p)
  <1>1. q = p \/ q = FillRejected(p, b.fillRun)
    BY DEF ThenRejected
  <1> QED BY <1>1, RejectsFill DEF Offers
-----------------------------------------------------------------------------
(* What the user does.                                                      *)

(* The page is left consistent, with nothing more to undo.                  *)
Handles(p) ==
    /\ PageInv(p, UnderWay) /\ (Settled(p) => ListsOf(p, UnderWay))
    /\ Offers(page, p)

LEMMA CurrentHandles ==
    ASSUME NEW p, Current(p, UnderWay), Offers(page, p)
    PROVE  Handles(p)
  BY DEF Current, Handles

LEMMA CurrentPage ==
    ASSUME NEW p, NEW R, Current(p, R)
    PROVE  /\ PageInv(p, R) /\ p \in Pages /\ p.store \in Stores /\ StoreInv(p.store)
           /\ IsFiniteSet(p.stop) /\ Model(p) \in Subjects /\ Offers(p, p)
           /\ Model(p).revision = p.store.revision /\ p.store.revision \in Nat
           /\ {p.analysisSession, p.repairSession, p.repairActive, p.repairLive,
               p.fillSession, p.fillActive, p.fillLive, p.fillRun} \subseteq Nat
  <1>1. PageInv(p, R) /\ p \in Pages /\ StoreInv(p.store) /\ p.store \in Stores
        /\ IsFiniteSet(p.stop)
    BY DEF Current, PageInv, StoreInv
  <1>2. /\ Model(p) \in Subjects /\ Model(p).revision = p.store.revision
        /\ p.store.revision \in Nat
    BY <1>1, ShownIs DEF Model, Stores
  <1> HIDE DEF Stores, Requests, Subjects, AllSetups, Streams
  <1> QED BY <1>1, <1>2 DEF Offers, Pages

LEMMA SelectsPartHandles ==
    ASSUME Current(page, UnderWay), SelectsPart
    PROVE  \E p : PageBecomes(p, toPage) /\ Handles(p)
  <1>1. PICK part \in page.setup.parts \ {page.store.part} :
            UserDoes([page EXCEPT !.store = SelectPart(@, part)])
    BY DEF SelectsPart
  <1> DEFINE t == SelectPart(page.store, part)
             p == [page EXCEPT !.store = t]
  <1>2. /\ page \in Pages /\ StoreInv(page.store) /\ Settled(page)
        /\ page.setup \in AllSetups
    BY DEF Current, PageInv, Pages
  <1>3. part \in Parts
    BY <1>1, <1>2 DEF AllSetups
  <1>4. /\ StoreInv(t) /\ t.revision = page.store.revision /\ t.part = part
        /\ t.repairToken = 0 /\ t.holeFill.candidate = NoCandidate
        /\ t.repair.lastApplied = 0
        /\ t.holeFill.lastApplied = page.store.holeFill.lastApplied
    <2> HIDE DEF t
    <2> QED BY <1>2, <1>3, SelectPartEffect DEF t
  <1>5. PageBecomes(p, toPage)
    BY <1>1 DEF UserDoes
  <1>6. /\ p \in Pages /\ p.store = t /\ p.setup = page.setup /\ p.out = page.out
        /\ p.stop = page.stop /\ p.startedFor = page.startedFor /\ p.edit = page.edit
    <2> HIDE DEF t
    <2>1. t \in Stores
      BY <1>4 DEF StoreInv
    <2> HIDE DEF Stores, Requests, Subjects, AllSetups, Streams
    <2> QED BY <1>2, <2>1 DEF Pages
  <1> HIDE DEF p, t
  <1>7. ~Settled(p)
    <2>1. Model(p).part # Model(page).part
      BY <1>1, <1>4, <1>6 DEF Model, Shown, Subject
    <2> QED BY <1>2, <1>6, <2>1 DEF Settled
  <1>8. \A r : RequestOf(r, page) => RequestOf(r, p)
    BY <1>4, <1>6 DEF RequestOf
  <1>9. PageInv(p, UnderWay)
    BY <1>1, <1>4, <1>6, <1>8 DEF Current, PageInv
  <1>10. Offers(page, p)
    BY <1>4, <1>6 DEF Offers
  <1> QED BY <1>5, <1>7, <1>9, <1>10 DEF Handles

LEMMA AnalysisActionsHandle ==
    ASSUME Current(page, UnderWay), Bounded, RunsAnalysis \/ CancelsAnalysis \/ Replans
    PROVE  \E p : PageBecomes(p, toPage) /\ Handles(p)
  <1>1. PageInv(page, UnderWay) /\ page.analysisSession \in Nat
    BY CurrentPage
  <1>2. CASE RunsAnalysis
    <2> DEFINE p == StartAnalysis(page)
    <2>1. PageBecomes(p, toPage)
      BY <1>2 DEF RunsAnalysis, UserDoes
    <2> HIDE DEF p
    <2>2. Current(p, UnderWay) /\ Offers(page, p)
      BY <1>1, StartsAnalysis DEF p
    <2> QED BY <2>1, <2>2, CurrentHandles
  <1>3. CASE CancelsAnalysis
    <2> DEFINE p == Stop(page, "analysis", page.analysisSession)
    <2>1. PageBecomes(p, toPage) /\ "analysis" \in Streams
      BY <1>3 DEF CancelsAnalysis, UserDoes, Streams
    <2> HIDE DEF p, Streams
    <2>2. Current(p, UnderWay) /\ Offers(page, p)
      BY <1>1, <2>1, Stops DEF p
    <2> QED BY <2>1, <2>2, CurrentHandles
  <1>4. CASE Replans
    <2> DEFINE p == StartPlan(page)
    <2>1. PageBecomes(p, toPage)
      BY <1>4 DEF Replans, UserDoes
    <2> HIDE DEF p
    <2>2. Current(p, UnderWay) /\ Offers(page, p)
      BY StartsPlan DEF p
    <2> QED BY <2>1, <2>2, CurrentHandles
  <1> QED BY <1>2, <1>3, <1>4

LEMMA RepairPreviewsHandle ==
    ASSUME Current(page, UnderWay), Bounded, ChangesSelection \/ PreviewsRepair
    PROVE  \E p : PageBecomes(p, toPage) /\ Handles(p)
  <1> DEFINE u == ReleaseRepairCandidate(page)
  <1>1. /\ Current(u, UnderWay) /\ Offers(page, u) /\ Model(u) = Model(page)
        /\ u.store = page.store
    <2> HIDE DEF u
    <2> QED BY ReleasesRepair DEF u
  <1> HIDE DEF u
  <1>2. u \in Pages /\ StoreInv(u.store) /\ IsFiniteSet(u.stop)
    BY <1>1, CurrentPage
  <1>3. "idle" \in States /\ 0 \in Nat /\ Nothing \in Subjects
    BY Nothings DEF States
  <1>4. CASE ChangesSelection
    <2> DEFINE t == SetRepairSelection(u.store)
               p == [u EXCEPT !.store = t, !.plannedFor = Nothing]
    <2>1. PageBecomes(p, toPage)
      BY <1>4 DEF ChangesSelection, UserDoes, u
    <2>2. SliceChanges(u, t, UnderWay)
      <3> HIDE DEF t, States
      <3> QED BY <1>2, <1>3, RepairOperations DEF t, SliceChanges
    <2> HIDE DEF t
    <2>3. t \in Stores
      BY <2>2, SlicesAreStores
    <2>4. p \in Pages /\ Beside(u, p) /\ p.store = t /\ p.out = u.out /\ p.stop = u.stop
      <3> HIDE DEF Nothing, Stores, Requests, Subjects, AllSetups, Streams
      <3> QED BY <1>2, <1>3, <2>3 DEF Pages, Beside
    <2> HIDE DEF p
    <2>5. Current(p, UnderWay) /\ Offers(u, p)
      BY <1>1, <2>2, <2>4, SliceSteps
    <2> QED BY <1>1, <2>1, <2>5, OffersCompose, CurrentHandles
  <1>5. CASE PreviewsRepair
    <2> DEFINE token == Fresh(u, "repair")
               t == BeginRepairCandidate(u.store, token)
               v == [u EXCEPT !.store = t, !.repairActive = token, !.repairSession = token]
               r == Request("build", token, Model(page), 0, 0)
               p == Post(v, r)
    <2>1. PageBecomes(p, toPage)
      BY <1>5 DEF PreviewsRepair, UserDoes, u
    <2>2. token \in Nat /\ Unused(token, "repair", u, UnderWay)
      BY <1>2, FreshToken DEF Bounded, Unused
    <2> HIDE DEF token
    <2>3. SliceChanges(u, t, UnderWay)
      <3> HIDE DEF t, States
      <3> QED BY <1>2, <1>3, <2>2, RepairOperations DEF t, SliceChanges
    <2> HIDE DEF t
    <2>4. t \in Stores
      BY <2>3, SlicesAreStores
    <2>5. v \in Pages /\ Beside(u, v) /\ v.store = t /\ v.out = u.out /\ v.stop = u.stop
      <3> HIDE DEF Stores, Requests, Subjects, AllSetups, Streams
      <3> QED BY <1>2, <2>2, <2>4 DEF Pages, Beside
    <2> HIDE DEF v
    <2>6. Current(v, UnderWay) /\ Offers(u, v) /\ Model(v) = Model(page)
      BY <1>1, <2>3, <2>5, SliceSteps
    <2>7. RequestOf(r, v) /\ ListOf(r, v)
      <3>1. r = Request("build", token, Model(v), 0, 0) /\ "build" \in Slow
        BY <2>6 DEF Slow
      <3> HIDE DEF r, Slow
      <3> QED BY <2>2, <2>6, <3>1, ModelRequests DEF Current
    <2> HIDE DEF r
    <2>8. Current(p, UnderWay) /\ Offers(v, p)
      <3> HIDE DEF p
      <3> QED BY <2>6, <2>7, Posts DEF Current, p
    <2> HIDE DEF p
    <2> QED BY <1>1, <2>1, <2>6, <2>8, OffersCompose, CurrentHandles
  <1> QED BY <1>4, <1>5

(* A change of the document is asked for.                                   *)
LEMMA Asks ==
    ASSUME Current(page, UnderWay), NEW t, SliceChanges(page, t, UnderWay),
           NEW kind \in Changes, NEW subject \in Subjects,
           subject.revision <= page.store.revision, NEW opening \in Nat, NEW id \in Nat,
           NEW p, p = Post([page EXCEPT !.store = t], Request(kind, 0, subject, opening, id))
    PROVE  Current(p, UnderWay) /\ Offers(page, p)
  <1> DEFINE v == [page EXCEPT !.store = t]
             r == Request(kind, 0, subject, opening, id)
  <1>1. Current(v, UnderWay) /\ Offers(page, v)
    <2> HIDE DEF v
    <2> QED BY StoreSteps DEF v
  <1> HIDE DEF v
  <1>2. RequestOf(r, v) /\ ListOf(r, v)
    <2>1. subject.revision <= v.store.revision
      BY <1>1 DEF Offers
    <2> HIDE DEF r, Changes
    <2> QED BY <1>1, <2>1, OtherRequests DEF r, Current
  <1> HIDE DEF r
  <1>3. p = Post(v, r)
    BY DEF v, r
  <1>4. Current(p, UnderWay) /\ Offers(v, p)
    BY <1>1, <1>2, <1>3, Posts DEF Current
  <1> QED BY <1>1, <1>4, OffersCompose

LEMMA Shows ==
    ASSUME Current(page, UnderWay)
    PROVE  /\ StoreInv(page.store)
           /\ page.store.repair.candidate \in Candidates
           /\ page.store.repair.candidate.subject \in Subjects
           /\ page.store.repair.candidate.subject.revision <= page.store.revision
           /\ page.store.holeFill.candidate \in Candidates
           /\ page.store.holeFill.candidate.subject \in Subjects
           /\ page.store.holeFill.candidate.subject.revision <= page.store.revision
           /\ page.store.repair.candidate.id \in Nat
           /\ page.store.holeFill.candidate.id \in Nat
           /\ page.store.holeFill.candidate.opening \in Nat
           /\ page.store.repair.lastApplied \in Nat /\ page.store.holeFill.lastApplied \in Nat
           /\ page.store.holeFill.selected \in Nat
           /\ page.edit.record \in Nat
  <1>1. /\ page \in Pages /\ StoreInv(page.store) /\ Model(page) \in Subjects
        /\ Model(page).revision = page.store.revision /\ page.store.revision \in Nat
    BY CurrentPage
  <1>2. RepairOf(page.store.repair, Model(page)) /\ HoleFillOf(page.store.holeFill, Model(page))
    BY <1>1 DEF StoreInv, Model
  <1>3. Nothing.revision = 0 /\ NoCandidate.subject = Nothing
    BY Nothings
  <1>4. /\ page.store.repair.candidate \in Candidates
        /\ page.store.repair.candidate.subject \in {Nothing, Model(page)}
        /\ page.store.repair.lastApplied \in Nat
    <2> HIDE DEF Candidates, Subjects
    <2> QED BY <1>2 DEF RepairOf, Repairs
  <1>5. /\ page.store.holeFill.candidate \in Candidates
        /\ page.store.holeFill.candidate.subject \in {Nothing, Model(page)}
        /\ page.store.holeFill.lastApplied \in Nat /\ page.store.holeFill.selected \in Nat
    <2> HIDE DEF Candidates, Subjects, NoCandidate
    <2> QED BY <1>2, <1>3 DEF HoleFillOf, HoleFills
  <1>6. \A c \in Candidates : c.id \in Nat /\ c.subject \in Subjects /\ c.opening \in Nat
    <2> HIDE DEF Subjects
    <2> QED BY DEF Candidates
  <1>7. page.edit.record \in Nat
    <2> HIDE DEF Stores, Requests, Subjects, AllSetups, Streams
    <2> QED BY <1>1 DEF Pages
  <1> HIDE DEF Candidates, Subjects
  <1> QED BY <1>1, <1>3, <1>4, <1>5, <1>6, <1>7

LEMMA RepairActionsHandle ==
    ASSUME Current(page, UnderWay), Bounded,
           CancelsRepair \/ DiscardsRepair \/ AppliesRepair \/ UndoesRepair
    PROVE  \E p : PageBecomes(p, toPage) /\ Handles(p)
  <1> DEFINE u == Stop(page, "repair", page.repairSession)
  <1>1. /\ PageInv(page, UnderWay) /\ page.repairSession \in Nat /\ page.repairActive \in Nat
        /\ Model(page) \in Subjects /\ Model(page).revision <= page.store.revision
    BY CurrentPage
  <1>2. {"idle", "applying", "undoing"} \subseteq States
    BY DEF States
  <1>3. Current(u, UnderWay) /\ Offers(page, u) /\ u.store = page.store
    <2>1. "repair" \in Streams
      BY DEF Streams
    <2> HIDE DEF u, Streams
    <2> QED BY <1>1, <2>1, Stops DEF u
  <1> HIDE DEF u
  <1>4. StoreInv(u.store) /\ StoreInv(page.store)
    BY <1>3, CurrentPage
  <1>5. CASE CancelsRepair
    <2> DEFINE t == BeginRepairCancellation(u.store, page.repairActive)
               p == [u EXCEPT !.store = t]
    <2>1. PageBecomes(p, toPage)
      BY <1>5 DEF CancelsRepair, UserDoes, u
    <2>2. SliceChanges(u, t, UnderWay)
      <3> HIDE DEF t, States
      <3> QED BY <1>1, <1>2, <1>4, RepairOperations DEF t, SliceChanges
    <2> HIDE DEF t
    <2>3. Current(p, UnderWay) /\ Offers(u, p)
      <3> HIDE DEF p
      <3> QED BY <1>3, <2>2, StoreSteps DEF p
    <2> HIDE DEF p
    <2> QED BY <1>3, <2>1, <2>3, OffersCompose, CurrentHandles
  <1>6. CASE DiscardsRepair
    <2> DEFINE t == ClearRepairCandidate(u.store)
               v == [u EXCEPT !.store = t]
               p == ReleaseRepairCandidate(v)
    <2>1. PageBecomes(p, toPage)
      BY <1>6 DEF DiscardsRepair, UserDoes, u
    <2>2. SliceChanges(u, t, UnderWay)
      <3>1. 0 \in Nat
        OBVIOUS
      <3> HIDE DEF t, States
      <3> QED BY <1>2, <1>4, <3>1, RepairOperations DEF t, SliceChanges
    <2> HIDE DEF t
    <2>3. Current(v, UnderWay) /\ Offers(u, v)
      <3> HIDE DEF v
      <3> QED BY <1>3, <2>2, StoreSteps DEF v
    <2> HIDE DEF v
    <2>4. Current(p, UnderWay) /\ Offers(v, p)
      <3> HIDE DEF p
      <3> QED BY <2>3, ReleasesRepair DEF p
    <2> HIDE DEF p
    <2> QED BY <1>3, <2>1, <2>3, <2>4, OffersCompose, CurrentHandles
  <1>7. ASSUME NEW state \in States
        PROVE  SliceChanges(page, BeginRepairChange(page.store, state), UnderWay)
    <2> DEFINE t == BeginRepairChange(page.store, state)
    <2>1. 0 \in Nat
      OBVIOUS
    <2> HIDE DEF t, States
    <2>2. ChangesRepair(page.store, t) /\ t.repairToken \in {0, page.store.repairToken}
      BY <1>4, <1>7, <2>1, RepairOperations DEF t
    <2> QED BY <2>2 DEF t, SliceChanges
  <1>8. CASE AppliesRepair
    <2> DEFINE c == page.store.repair.candidate
               t == BeginRepairChange(page.store, "applying")
               p == Post([page EXCEPT !.store = t], Request("commitRepair", 0, c.subject, 0, c.id))
    <2>1. PageBecomes(p, toPage)
      BY <1>8 DEF AppliesRepair, UserDoes
    <2>2. SliceChanges(page, t, UnderWay) /\ "commitRepair" \in Changes
      BY <1>2, <1>7 DEF Changes
    <2> HIDE DEF t
    <2>3. Current(p, UnderWay) /\ Offers(page, p)
      <3> HIDE DEF p, Changes
      <3> QED BY <2>2, Shows, Asks DEF p
    <2> HIDE DEF p
    <2> QED BY <2>1, <2>3, CurrentHandles
  <1>9. CASE UndoesRepair
    <2> DEFINE t == BeginRepairChange(page.store, "undoing")
               p == Post([page EXCEPT !.store = t],
                         Request("undoRepair", 0, Model(page), 0, page.store.repair.lastApplied))
    <2>1. PageBecomes(p, toPage)
      BY <1>9 DEF UndoesRepair, UserDoes
    <2>2. SliceChanges(page, t, UnderWay) /\ "undoRepair" \in Changes
      BY <1>2, <1>7 DEF Changes
    <2> HIDE DEF t
    <2>3. Current(p, UnderWay) /\ Offers(page, p)
      <3> HIDE DEF p, Changes
      <3> QED BY <1>1, <2>2, Shows, Asks DEF p
    <2> HIDE DEF p
    <2> QED BY <2>1, <2>3, CurrentHandles
  <1> QED BY <1>5, <1>6, <1>8, <1>9

LEMMA FillSelectionsHandle ==
    ASSUME Current(page, UnderWay), Bounded, SelectsOpening
    PROVE  \E p : PageBecomes(p, toPage) /\ Handles(p)
  <1>1. PICK opening \in page.setup.openings :
            /\ page.store.holeFill.rows # Nothing
            /\ UserDoes(ThenRejected(page, ReleaseFillCandidate(
                 [CancelFillSession(page) EXCEPT !.store = SelectBoundaryLoop(@, opening)],
                 IF page.store.holeFill.selected = opening THEN 0
                 ELSE page.store.holeFill.candidate.id)))
    BY DEF SelectsOpening
  <1> DEFINE u == CancelFillSession(page)
             t == SelectBoundaryLoop(u.store, opening)
             v == [u EXCEPT !.store = t]
             dropped == IF page.store.holeFill.selected = opening THEN 0
                        ELSE page.store.holeFill.candidate.id
             w == ReleaseFillCandidate(v, dropped)
             p == ThenRejected(page, w)
  <1>2. PageBecomes(p, toPage)
    BY <1>1 DEF UserDoes
  <1>3. opening \in Nat /\ dropped \in Nat /\ page.fillRun \in Nat
    <2>1. page.setup \in AllSetups
      BY DEF Current, PageInv, Pages
    <2> QED BY <1>1, <2>1, Shows, CurrentPage DEF AllSetups
  <1> HIDE DEF dropped, p, w, v, t, u
  <1>4. Current(u, UnderWay) /\ Offers(page, u) /\ u.store = page.store
    BY CancelsTheFillSession DEF u
  <1>5. SliceChanges(u, t, UnderWay)
    <2>1. StoreInv(u.store) /\ "idle" \in States /\ 0 \in Nat
      BY <1>4, CurrentPage DEF States
    <2> HIDE DEF States
    <2>2. ChangesHoleFill(u.store, t) /\ t.holeFillToken \in {0, u.store.holeFillToken}
      BY <1>1, <1>3, <1>4, <2>1, HoleFillOperations DEF t
    <2> QED BY <2>2 DEF SliceChanges
  <1>6. Current(v, UnderWay) /\ Offers(u, v)
    BY <1>4, <1>5, StoreSteps DEF v
  <1>7. Current(w, UnderWay) /\ Offers(v, w)
    BY <1>3, <1>6, ReleasesFill DEF w
  <1>8. Current(p, UnderWay) /\ Offers(w, p)
    BY <1>3, <1>7, RejectsCancelled DEF p
  <1> QED BY <1>2, <1>4, <1>6, <1>7, <1>8, OffersCompose, CurrentHandles

LEMMA DisposalPosts ==
    ASSUME NEW p \in Pages, NEW q, q = DisposeFill(p)
    PROVE  \A y \in Range(q.out) : y \in Range(p.out) \/ y.token = p.fillRun
  <1> DEFINE u == Stop(p, "fill", p.fillRun)
             v == [u EXCEPT !.fillRun = 0]
             r == Request("cancelFill", p.fillRun, Nothing, 0, 0)
             o == Append(v.out, r)
  <1>0. p.out \in Seq(Requests) /\ r.token = p.fillRun
    BY DEF Pages, Request
  <1>1. DOMAIN u = DOMAIN p /\ u.out = p.out /\ "out" \in DOMAIN p
    <2> HIDE DEF Stores, Requests, Subjects, AllSetups, Streams
    <2> QED BY DEF Stop, Pages
  <1> HIDE DEF u
  <1>2. v.out = p.out /\ "out" \in DOMAIN v
    BY <1>1
  <1> HIDE DEF v, r
  <1>3. CASE p.fillRun # 0
    <2>1. q.out = o
      BY <1>2, <1>3 DEF DisposeFill, Post, u, v, r
    <2>2. Range(o) \subseteq Range(p.out) \cup {r}
      <3> HIDE DEF Requests
      <3> QED BY <1>0, <1>2 DEF Range
    <2> QED BY <1>0, <2>1, <2>2
  <1> QED BY <1>3 DEF DisposeFill

LEMMA FillPreviewsHandle ==
    ASSUME Current(page, UnderWay), Bounded, PreviewsFill
    PROVE  \E p : PageBecomes(p, toPage) /\ Handles(p)
  <1> DEFINE u == ReleaseFillCandidate(page, page.fillLive)
             token == Fresh(u, "fill")
             v == DisposeFill(u)
             t == BeginHoleFillCandidate(v.store, token)
             w == [v EXCEPT !.store = t, !.fillActive = token, !.fillRun = token,
                            !.fillSession = token]
             opening == page.store.holeFill.selected
             r == Request("fill", token, Model(page), opening, 0)
             x == Post(w, r)
             p == IF page.fillRun = 0 THEN x ELSE FillRejected(x, page.fillRun)
  <1>1. PageBecomes(p, toPage) /\ opening # 0
    BY DEF PreviewsFill, UserDoes
  <1>2. opening \in Nat /\ page.fillLive \in Nat /\ page.fillRun \in Nat
    BY Shows, CurrentPage
  <1>4. Current(u, UnderWay) /\ Offers(page, u) /\ u.store = page.store
    <2> HIDE DEF u
    <2> QED BY <1>2, ReleasesFill DEF u
  <1>5. token \in Nat /\ Unused(token, "fill", u, UnderWay) /\ token # u.fillRun
    <2>1. token \in Nat /\ Unused(token, "fill", u, UnderWay)
      <3> HIDE DEF u
      <3> QED BY <1>4, CurrentPage, FreshToken DEF Bounded, Unused
    <2>2. token # u.fillRun
      <3> HIDE DEF u
      <3>1. token \notin Numbers(u, "fill")
        BY <1>4, CurrentPage, FreshToken DEF Bounded, token
      <3>2. u.fillRun \in Numbers(u, "fill")
        BY DEF Numbers
      <3> QED BY <3>1, <3>2
    <2> QED BY <2>1, <2>2
  <1> HIDE DEF token, u
  <1>6. Current(v, UnderWay) /\ Offers(u, v) /\ Model(v) = Model(u) /\ v.store = u.store
    <2> HIDE DEF v
    <2> QED BY <1>4, DisposesFill DEF v
  <1>7. Unused(token, "fill", v, UnderWay)
    <2> HIDE DEF v
    <2>1. \A y \in Range(v.out) : y \in Range(u.out) \/ y.token = u.fillRun
      BY <1>4, CurrentPage, DisposalPosts DEF v
    <2> QED BY <1>5, <2>1 DEF Unused
  <1> HIDE DEF v
  <1>8. SliceChanges(v, t, UnderWay)
    <2>1. StoreInv(v.store) /\ "idle" \in States
      BY <1>6, CurrentPage DEF States
    <2> HIDE DEF States, t
    <2>2. ChangesHoleFill(v.store, t) /\ t.holeFillToken = token
      BY <1>5, <2>1, HoleFillOperations DEF t
    <2> QED BY <1>7, <2>2 DEF SliceChanges
  <1> HIDE DEF t
  <1>9. Current(w, UnderWay) /\ Offers(v, w) /\ Model(w) = Model(page)
    <2>1. v \in Pages /\ t \in Stores
      BY <1>6, <1>8, CurrentPage, SlicesAreStores
    <2>2. w \in Pages /\ Beside(v, w) /\ w.store = t /\ w.out = v.out /\ w.stop = v.stop
      <3> HIDE DEF Stores, Requests, Subjects, AllSetups, Streams
      <3> QED BY <1>5, <2>1 DEF Pages, Beside
    <2> HIDE DEF w
    <2>3. Current(w, UnderWay) /\ Offers(v, w) /\ Model(w) = Model(v)
      BY <1>6, <1>8, <2>2, SliceSteps
    <2>4. Model(u) = Model(page)
      BY <1>4 DEF Model
    <2> QED BY <1>6, <2>3, <2>4
  <1> HIDE DEF w
  <1>10. RequestOf(r, w) /\ ListOf(r, w)
    <2>1. r = Request("fill", token, Model(w), opening, 0) /\ "fill" \in Slow
      BY <1>9 DEF Slow
    <2> HIDE DEF r, Slow, opening
    <2> QED BY <1>1, <1>2, <1>5, <1>9, <2>1, ModelRequests DEF Current
  <1> HIDE DEF r
  <1>11. Current(x, UnderWay) /\ Offers(w, x)
    <2> HIDE DEF x
    <2> QED BY <1>9, <1>10, Posts DEF Current, x
  <1> HIDE DEF x
  <1>12. Current(p, UnderWay) /\ Offers(x, p)
    <2>1. Offers(x, x)
      BY DEF Offers
    <2>2. \A y : y = FillRejected(x, page.fillRun) => Current(y, UnderWay) /\ Offers(x, y)
      BY <1>2, <1>11, RejectsFill
    <2> QED BY <1>11, <2>1, <2>2
  <1> HIDE DEF p
  <1>13. Offers(page, v)
    BY <1>4, <1>6, OffersCompose
  <1>14. Offers(page, x)
    BY <1>9, <1>11, <1>13, OffersCompose
  <1> QED BY <1>1, <1>12, <1>14, OffersCompose, CurrentHandles

LEMMA FillActionsHandle ==
    ASSUME Current(page, UnderWay), Bounded,
           \/ CancelsFillPreview \/ DiscardsFill \/ AppliesFill \/ UndoesFill \/ RetriesListing
    PROVE  \E p : PageBecomes(p, toPage) /\ Handles(p)
  <1>1. /\ PageInv(page, UnderWay) /\ page.fillActive \in Nat /\ page.fillRun \in Nat
        /\ Model(page) \in Subjects /\ Model(page).revision <= page.store.revision
        /\ StoreInv(page.store)
    BY CurrentPage
  <1>2. {"idle", "applying", "undoing"} \subseteq States
    BY DEF States
  <1>3. CASE CancelsFillPreview
    <2> DEFINE t == BeginHoleFillCancellation(page.store, page.fillActive)
               u == [page EXCEPT !.store = t]
               v == CancelFillSession(u)
               p == ThenRejected(page, v)
    <2>1. PageBecomes(p, toPage)
      BY <1>3 DEF CancelsFillPreview, UserDoes
    <2> HIDE DEF p, v, u, t
    <2>2. SliceChanges(page, t, UnderWay)
      <3> HIDE DEF States
      <3>1. ChangesHoleFill(page.store, t) /\ t.holeFillToken \in {0, page.store.holeFillToken}
        BY <1>1, <1>2, HoleFillOperations DEF t
      <3> QED BY <3>1 DEF SliceChanges
    <2>3. Current(u, UnderWay) /\ Offers(page, u)
      BY <2>2, StoreSteps DEF u
    <2>4. Current(v, UnderWay) /\ Offers(u, v)
      BY <2>3, CancelsTheFillSession DEF v
    <2>5. Current(p, UnderWay) /\ Offers(v, p)
      BY <1>1, <2>4, RejectsCancelled DEF p
    <2> QED BY <2>1, <2>3, <2>4, <2>5, OffersCompose, CurrentHandles
  <1>4. CASE DiscardsFill
    <2> DEFINE u == CancelFillSession(page)
               t == ClearHoleFillCandidate(u.store)
               v == [u EXCEPT !.store = t]
               w == ReleaseFillCandidate(v, page.store.holeFill.candidate.id)
               p == ThenRejected(page, w)
    <2>1. PageBecomes(p, toPage)
      BY <1>4 DEF DiscardsFill, UserDoes
    <2> HIDE DEF p, w, v, t, u
    <2>2. Current(u, UnderWay) /\ Offers(page, u) /\ u.store = page.store
      BY CancelsTheFillSession DEF u
    <2>3. SliceChanges(u, t, UnderWay)
      <3>1. StoreInv(u.store) /\ 0 \in Nat
        BY <1>1, <2>2
      <3> HIDE DEF States
      <3>2. ChangesHoleFill(u.store, t) /\ t.holeFillToken \in {0, u.store.holeFillToken}
        BY <1>2, <3>1, HoleFillOperations DEF t
      <3> QED BY <3>2 DEF SliceChanges
    <2>4. Current(v, UnderWay) /\ Offers(u, v)
      BY <2>2, <2>3, StoreSteps DEF v
    <2>5. Current(w, UnderWay) /\ Offers(v, w)
      BY <2>4, Shows, ReleasesFill DEF w
    <2>6. Current(p, UnderWay) /\ Offers(w, p)
      BY <1>1, <2>5, RejectsCancelled DEF p
    <2> QED BY <2>1, <2>2, <2>4, <2>5, <2>6, OffersCompose, CurrentHandles
  <1>5. ASSUME NEW state \in States
        PROVE  SliceChanges(page, BeginHoleFillChange(page.store, state), UnderWay)
    <2> DEFINE t == BeginHoleFillChange(page.store, state)
    <2>1. 0 \in Nat
      OBVIOUS
    <2> HIDE DEF t, States
    <2>2. ChangesHoleFill(page.store, t) /\ t.holeFillToken \in {0, page.store.holeFillToken}
      BY <1>1, <1>5, <2>1, HoleFillOperations DEF t
    <2> QED BY <2>2 DEF t, SliceChanges
  <1>6. CASE AppliesFill
    <2> DEFINE c == page.store.holeFill.candidate
               t == BeginHoleFillChange(page.store, "applying")
               p == Post([page EXCEPT !.store = t],
                         Request("commitFill", 0, c.subject, c.opening, c.id))
    <2>1. PageBecomes(p, toPage)
      BY <1>6 DEF AppliesFill, UserDoes
    <2>2. SliceChanges(page, t, UnderWay) /\ "commitFill" \in Changes
      BY <1>2, <1>5 DEF Changes
    <2> HIDE DEF t
    <2>3. Current(p, UnderWay) /\ Offers(page, p)
      <3> HIDE DEF p, Changes
      <3> QED BY <2>2, Shows, Asks DEF p
    <2> HIDE DEF p
    <2> QED BY <2>1, <2>3, CurrentHandles
  <1>7. CASE UndoesFill
    <2> DEFINE t == BeginHoleFillChange(page.store, "undoing")
               p == Post([page EXCEPT !.store = t],
                         Request("undoFill", 0, Model(page), 0, page.store.holeFill.lastApplied))
    <2>1. PageBecomes(p, toPage)
      BY <1>7 DEF UndoesFill, UserDoes
    <2>2. SliceChanges(page, t, UnderWay) /\ "undoFill" \in Changes
      BY <1>2, <1>5 DEF Changes
    <2> HIDE DEF t
    <2>3. Current(p, UnderWay) /\ Offers(page, p)
      <3> HIDE DEF p, Changes
      <3> QED BY <1>1, <2>2, Shows, Asks DEF p
    <2> HIDE DEF p
    <2> QED BY <2>1, <2>3, CurrentHandles
  <1>8. CASE RetriesListing
    <2> DEFINE p == ListOpenings(page)
    <2>1. /\ PageBecomes(p, toPage) /\ "fill" \in page.setup.tools
          /\ page.store.holeFill.inventory = "failed"
      BY <1>8 DEF RetriesListing, UserDoes
    <2>2. page.store.holeFill.candidate = NoCandidate
      BY <1>1, <2>1 DEF StoreInv, HoleFillOf
    <2> HIDE DEF p
    <2>3. Current(p, UnderWay) /\ Offers(page, p)
      BY <1>1, <2>1, <2>2, StartsListing DEF Current, p
    <2> QED BY <2>1, <2>3, CurrentHandles
  <1> QED BY <1>3, <1>4, <1>6, <1>7, <1>8

LEMMA TextureActionsHandle ==
    ASSUME Current(page, UnderWay), AppliesTexture \/ UndoesTexture
    PROVE  \E p : PageBecomes(p, toPage) /\ Handles(p)
  <1>1. /\ PageInv(page, UnderWay) /\ page \in Pages /\ IsFiniteSet(page.stop)
        /\ Model(page) \in Subjects /\ Model(page).revision <= page.store.revision
        /\ page.edit.record \in Nat /\ "commitEdit" \in Changes /\ "undoEdit" \in Changes
    BY CurrentPage, Shows DEF Changes
  <1>2. CASE AppliesTexture
    <2> DEFINE v == [page EXCEPT !.edit.applying = TRUE]
               r == Request("commitEdit", 0, Model(page), 0, 0)
               p == Post(v, r)
    <2>1. PageBecomes(p, toPage)
      BY <1>2 DEF AppliesTexture, UserDoes
    <2>2. /\ v \in Pages /\ Beside(page, v) /\ v.store = page.store /\ v.out = page.out
          /\ v.stop = page.stop
      <3> DEFINE e == [page.edit EXCEPT !.applying = TRUE]
      <3>1. /\ page.edit \in [applying : BOOLEAN, record : Nat, revision : Nat]
            /\ v = [page EXCEPT !.edit = e]
        <4> HIDE DEF Stores, Requests, Subjects, AllSetups, Streams
        <4> QED BY <1>1 DEF Pages
      <3>2. /\ e \in [applying : BOOLEAN, record : Nat, revision : Nat]
            /\ e.record = page.edit.record /\ e.revision = page.edit.revision
        BY <3>1
      <3> HIDE DEF e, v, Stores, Requests, Subjects, AllSetups, Streams
      <3> QED BY <1>1, <3>1, <3>2 DEF Pages, Beside
    <2> HIDE DEF v
    <2>3. Current(v, UnderWay) /\ Offers(page, v)
      BY <1>1, <2>2, PostsAndStops
    <2>4. RequestOf(r, v) /\ ListOf(r, v)
      <3> HIDE DEF Changes, r
      <3> QED BY <1>1, <2>2, <2>3, OtherRequests DEF Current, r
    <2> HIDE DEF r
    <2>5. Current(p, UnderWay) /\ Offers(v, p)
      <3> HIDE DEF p
      <3> QED BY <2>3, <2>4, Posts DEF Current, p
    <2> HIDE DEF p
    <2> QED BY <2>1, <2>3, <2>5, OffersCompose, CurrentHandles
  <1>3. CASE UndoesTexture
    <2> DEFINE r == Request("undoEdit", 0, Model(page), 0, page.edit.record)
               p == Post(page, r)
    <2>1. PageBecomes(p, toPage)
      BY <1>3 DEF UndoesTexture, UserDoes
    <2>2. RequestOf(r, page) /\ ListOf(r, page)
      <3> HIDE DEF Changes, r
      <3> QED BY <1>1, OtherRequests DEF r
    <2> HIDE DEF r
    <2>3. Current(p, UnderWay) /\ Offers(page, p)
      <3> HIDE DEF p
      <3> QED BY <1>1, <2>2, Posts DEF p
    <2> HIDE DEF p
    <2> QED BY <2>1, <2>3, CurrentHandles
  <1> QED BY <1>2, <1>3

LEMMA UserHandles ==
    ASSUME HandledInv, UserActs
    PROVE  \E p : PageBecomes(p, toPage) /\ Handles(p)
  <1>1. page.startedFor # Nothing
    BY DEF UserActs, UserDoes, UserMay, SelectsPart, RunsAnalysis, CancelsAnalysis, Replans,
        ChangesSelection, PreviewsRepair, CancelsRepair, DiscardsRepair, AppliesRepair,
        UndoesRepair, SelectsOpening, PreviewsFill, CancelsFillPreview, DiscardsFill,
        AppliesFill, UndoesFill, RetriesListing, AppliesTexture, UndoesTexture
  <1>2. Current(page, UnderWay) /\ Bounded
    BY <1>1, UnderWayIsBounded DEF HandledInv, ChannelInv, Current
  <1> QED BY <1>2, SelectsPartHandles, AnalysisActionsHandle, RepairPreviewsHandle,
        RepairActionsHandle, FillSelectionsHandle, FillPreviewsHandle, FillActionsHandle,
        TextureActionsHandle DEF UserActs
-----------------------------------------------------------------------------
(* The answers.                                                             *)

(* A hook notes or forgets a session, an attempt or a candidate.            *)
LEMMA Notes ==
    ASSUME NEW p, NEW R, Current(p, R), NEW n \in Nat,
           NEW q, \/ q = [p EXCEPT !.analysisSession = n]
                  \/ q = [p EXCEPT !.repairSession = n]
                  \/ q = [p EXCEPT !.repairActive = n]
                  \/ q = [p EXCEPT !.repairLive = n]
                  \/ q = [p EXCEPT !.fillSession = n]
                  \/ q = [p EXCEPT !.fillActive = n]
                  \/ q = [p EXCEPT !.fillLive = n]
                  \/ q = [p EXCEPT !.fillRun = n]
    PROVE  Current(q, R) /\ Offers(p, q) /\ Model(q) = Model(p) /\ q.store = p.store
  <1>0. p \in Pages /\ PageInv(p, R) /\ IsFiniteSet(p.stop)
    BY CurrentPage
  <1>1. q \in Pages /\ Beside(p, q) /\ q.store = p.store /\ q.out = p.out /\ q.stop = p.stop
    <2> USE DEF Pages, Beside
    <2> HIDE DEF Stores, Requests, Subjects, AllSetups, Streams
    <2>1. CASE q = [p EXCEPT !.analysisSession = n]
      BY <1>0, <2>1
    <2>2. CASE q = [p EXCEPT !.repairSession = n]
      BY <1>0, <2>2
    <2>3. CASE q = [p EXCEPT !.repairActive = n]
      BY <1>0, <2>3
    <2>4. CASE q = [p EXCEPT !.repairLive = n]
      BY <1>0, <2>4
    <2>5. CASE q = [p EXCEPT !.fillSession = n]
      BY <1>0, <2>5
    <2>6. CASE q = [p EXCEPT !.fillActive = n]
      BY <1>0, <2>6
    <2>7. CASE q = [p EXCEPT !.fillLive = n]
      BY <1>0, <2>7
    <2>8. CASE q = [p EXCEPT !.fillRun = n]
      BY <1>0, <2>8
    <2> QED BY <2>1, <2>2, <2>3, <2>4, <2>5, <2>6, <2>7, <2>8
  <1> QED BY <1>0, <1>1, PostsAndStops

LEMMA Hears ==
    ASSUME HandledInv, toPage # <<>>
    PROVE  /\ Current(page, UnderWay) /\ Bounded
           /\ Head(toPage) \in AnswersOf /\ Head(toPage) \in Range(toPage)
           /\ Tail(toPage) \in Seq(AnswersOf) /\ Range(Tail(toPage)) \subseteq Range(toPage)
           /\ Answered \in UnderWay /\ RequestOf(Answered, page) /\ ListOf(Answered, page)
           /\ Answered.token \in Nat /\ Answered.subject \in Subjects
           /\ Answered.opening \in Nat /\ Answered.id \in Nat
           /\ Answered.kind \in Kinds
  <1>1. /\ toPage \in Seq(AnswersOf) /\ PageInv(page, UnderWay) /\ ListsOf(page, UnderWay)
    BY DEF HandledInv, ChannelInv
  <1>2. /\ Head(toPage) \in AnswersOf /\ Head(toPage) \in Range(toPage)
        /\ Tail(toPage) \in Seq(AnswersOf) /\ Range(Tail(toPage)) \subseteq Range(toPage)
    <2> HIDE DEF AnswersOf
    <2>1. toPage[1] = Head(toPage) /\ 1 \in DOMAIN toPage
      BY <1>1
    <2>2. \A i \in 1 .. Len(Tail(toPage)) : Tail(toPage)[i] = toPage[i + 1] /\ i + 1 \in DOMAIN toPage
      BY <1>1
    <2>3. Tail(toPage) \in Seq(AnswersOf)
      BY <1>1
    <2>4. DOMAIN Tail(toPage) = 1 .. Len(Tail(toPage))
      BY <2>3
    <2> QED BY <1>1, <2>1, <2>2, <2>3, <2>4 DEF Range
  <1>3. Answered \in UnderWay /\ Answered \in Requests
    <2> HIDE DEF Requests
    <2> QED BY <1>2 DEF Answered, UnderWay, AnswersOf
  <1>4. Current(page, UnderWay) /\ Bounded
    BY <1>1, <1>3, UnderWayIsBounded DEF HandledInv, ChannelInv, Current
  <1>5. RequestOf(Answered, page) /\ ListOf(Answered, page)
    BY <1>1, <1>3 DEF PageInv, ListsOf
  <1>6. /\ Answered.token \in Nat /\ Answered.subject \in Subjects
        /\ Answered.opening \in Nat /\ Answered.id \in Nat /\ Answered.kind \in Kinds
    <2> HIDE DEF Subjects, Kinds
    <2> QED BY <1>3 DEF Requests
  <1> QED BY <1>2, <1>3, <1>4, <1>5, <1>6

LEMMA AnalysisAnswersHandle ==
    ASSUME HandledInv, ReceivesAnalysis
    PROVE  \E p : PageReceives(p) /\ Handles(p)
  <1> DEFINE r == Answered
             o == [page EXCEPT !.analysisSession = 0]
  <1>0. toPage # <<>>
    BY DEF ReceivesAnalysis, Receives
  <1>1. Current(o, UnderWay) /\ Offers(page, o)
    <2>1. 0 \in Nat
      OBVIOUS
    <2> HIDE DEF o
    <2> QED BY <1>0, <2>1, Hears, Notes DEF o
  <1> HIDE DEF o
  <1>2. PICK t : /\ PageReceives([o EXCEPT !.store = t])
                 /\ t \in {CommitAnalysis(o.store, r.token, r.subject),
                           FailAnalysis(o.store, r.token), CancelAnalysis(o.store, r.token)}
    BY DEF ReceivesAnalysis, o
  <1>3. SliceChanges(o, t, UnderWay)
    <2>1. r.token \in Nat /\ r.subject \in Subjects /\ StoreInv(o.store)
      BY <1>0, <1>1, Hears, CurrentPage
    <2> HIDE DEF r
    <2>2. ChangesAnalysis(o.store, t)
      BY <1>2, <2>1, AnalysisOperations
    <2> QED BY <2>2 DEF SliceChanges
  <1> DEFINE p == [o EXCEPT !.store = t]
  <1>4. Current(p, UnderWay) /\ Offers(o, p)
    <2> HIDE DEF p
    <2> QED BY <1>1, <1>3, StoreSteps DEF p
  <1>5. PageReceives(p)
    BY <1>2
  <1> HIDE DEF p
  <1> QED BY <1>1, <1>4, <1>5, OffersCompose, CurrentHandles

(* A plan is installed only by the token of the attempt that asked for it.  *)
LEMMA PlanAnswersHandle ==
    ASSUME HandledInv, ReceivesPlan
    PROVE  \E p : PageReceives(p) /\ Handles(p)
  <1> DEFINE r == Answered
             o == [page EXCEPT !.repairSession = 0]
  <1>0. toPage # <<>> /\ r.kind = "plan"
    BY DEF ReceivesPlan, Receives
  <1>1. Current(o, UnderWay) /\ Offers(page, o) /\ o.store = page.store /\ Model(o) = Model(page)
    <2>1. 0 \in Nat
      OBVIOUS
    <2> HIDE DEF o
    <2> QED BY <1>0, <2>1, Hears, Notes DEF o
  <1> HIDE DEF o
  <1>2. PICK t : /\ PageReceives([o EXCEPT !.store = t])
                 /\ t \in {CommitRepairPlan(o.store, r.token, r.subject),
                           FailRepairPlan(o.store, r.token)}
    BY DEF ReceivesPlan, o
  <1>3. SliceChanges(o, t, UnderWay)
    <2>1. /\ r.token \in Nat /\ r.subject \in Subjects /\ StoreInv(o.store)
          /\ "idle" \in States
      BY <1>0, <1>1, Hears, CurrentPage DEF States
    <2>2. IsCurrentRepair(o.store, r.token) => r.subject = Shown(o.store)
      BY <1>0, <1>1, Hears DEF RequestOf, IsCurrentRepair, Model
    <2> HIDE DEF r, States
    <2>3. ChangesRepair(o.store, t) /\ t.repairToken \in {0, o.store.repairToken}
      BY <1>2, <2>1, <2>2, RepairOperations
    <2> QED BY <2>3 DEF SliceChanges
  <1> DEFINE p == [o EXCEPT !.store = t]
  <1>4. Current(p, UnderWay) /\ Offers(o, p)
    <2> HIDE DEF p
    <2> QED BY <1>1, <1>3, StoreSteps DEF p
  <1>5. PageReceives(p)
    BY <1>2
  <1> HIDE DEF p
  <1> QED BY <1>1, <1>4, <1>5, OffersCompose, CurrentHandles

LEMMA ListAnswersHandle ==
    ASSUME HandledInv, ReceivesListing
    PROVE  \E p : PageReceives(p) /\ Handles(p)
  <1> DEFINE r == Answered
  <1>0. toPage # <<>> /\ r.kind = "list"
    BY DEF ReceivesListing, Receives
  <1>1. Current(page, UnderWay)
    BY <1>0, Hears
  <1>2. PICK t : /\ PageReceives([page EXCEPT !.store = t])
                 /\ t \in {CommitHoleFillListing(page.store, r.token, r.subject),
                           FailHoleFillListing(page.store, r.token)}
    BY DEF ReceivesListing
  <1>3. SliceChanges(page, t, UnderWay)
    <2>1. /\ r.token \in Nat /\ r.subject \in Subjects /\ StoreInv(page.store)
          /\ "idle" \in States
      BY <1>0, <1>1, Hears, CurrentPage DEF States
    <2>2. IsCurrentHoleFill(page.store, r.token) =>
            r.subject = Shown(page.store) /\ page.store.holeFill.inventory # "ready"
      BY <1>0, <1>1, Hears DEF ListOf, IsCurrentHoleFill, Model
    <2> HIDE DEF r, States
    <2>3. ChangesHoleFill(page.store, t) /\ t.holeFillToken \in {0, page.store.holeFillToken}
      BY <1>2, <2>1, <2>2, HoleFillOperations
    <2> QED BY <2>3 DEF SliceChanges
  <1> DEFINE p == [page EXCEPT !.store = t]
  <1>4. Current(p, UnderWay) /\ Offers(page, p)
    <2> HIDE DEF p
    <2> QED BY <1>1, <1>3, StoreSteps DEF p
  <1>5. PageReceives(p)
    BY <1>2
  <1> HIDE DEF p
  <1> QED BY <1>4, <1>5, CurrentHandles

LEMMA PostsDiscard ==
    ASSUME NEW p, NEW R, Current(p, R), NEW kind \in Discards, NEW id \in Nat,
           NEW q, q = Post(p, Request(kind, 0, Nothing, 0, id))
    PROVE  Current(q, R) /\ Offers(p, q)
  <1> DEFINE r == Request(kind, 0, Nothing, 0, id)
  <1>1. RequestOf(r, p) /\ ListOf(r, p)
    <2> HIDE DEF Discards, r
    <2> QED BY Nothings, OtherRequests DEF Current, r
  <1> HIDE DEF r
  <1> QED BY <1>1, Posts DEF Current, r

LEMMA RepairCandidatesHandle ==
    ASSUME HandledInv, ReceivesRepairCandidate
    PROVE  \E p : PageReceives(p) /\ Handles(p)
  <1> DEFINE r == Answered
             c == Candidate(r.token, r.subject, 0)
             o == [page EXCEPT !.repairSession = 0]
             x == [o EXCEPT !.repairActive = 0]
             discard == Request("discardRepair", 0, Nothing, 0, c.id)
  <1>0. toPage # <<>> /\ r.kind = "build"
    BY DEF ReceivesRepairCandidate, Receives
  <1>1. Current(o, UnderWay) /\ Offers(page, o) /\ o.store = page.store /\ Model(o) = Model(page)
    <2>1. 0 \in Nat
      OBVIOUS
    <2> HIDE DEF o
    <2> QED BY <1>0, <2>1, Hears, Notes DEF o
  <1>2. Current(x, UnderWay) /\ Offers(page, x) /\ x.store = page.store
    <2>1. 0 \in Nat
      OBVIOUS
    <2> HIDE DEF o, x
    <2>2. Current(x, UnderWay) /\ Offers(o, x) /\ x.store = o.store
      BY <1>1, <2>1, Notes DEF x
    <2> QED BY <1>1, <2>2, OffersCompose
  <1>3. /\ r.token \in Nat /\ r.subject \in Subjects /\ c \in Candidates
        /\ c.subject = r.subject /\ c.id = r.token /\ "discardRepair" \in Discards
    <2> HIDE DEF r, Subjects
    <2> QED BY <1>0, Hears DEF Candidate, Candidates, Discards, r
  <1>4. IsCurrentRepair(page.store, r.token) => r.subject = Shown(page.store)
    BY <1>0, Hears DEF RequestOf, IsCurrentRepair, Model
  <1>5. \/ /\ MayInstallRepair(page.store, r.token, c)
           /\ PageReceives([[o EXCEPT !.store = CommitRepairCandidate(o.store, c)]
                              EXCEPT !.repairLive = c.id])
        \/ PageReceives(Post(o, discard))
        \/ \E state \in {"cancelled", "failed"} :
             LET p == [x EXCEPT !.store = EndRepairCandidate(x.store, r.token, state)]
             IN  PageReceives(p) \/ PageReceives(Post(p, discard))
    <2>1. CASE Receives({"build"}, "result")
               /\ PageReceives(
                    IF MayInstallRepair(page.store, r.token, c)
                    THEN [o EXCEPT !.store = CommitRepairCandidate(@, c), !.repairLive = c.id]
                    ELSE Post(o, discard))
      <3>1. CASE MayInstallRepair(page.store, r.token, c)
        <4>1. PageReceives([o EXCEPT !.store = CommitRepairCandidate(@, c), !.repairLive = c.id])
          BY <2>1, <3>1
        <4> HIDE DEF c, discard, x, r
        <4>2. PageReceives([[o EXCEPT !.store = CommitRepairCandidate(o.store, c)]
                              EXCEPT !.repairLive = c.id])
          BY <4>1
        <4> QED BY <3>1, <4>2
      <3>2. CASE ~MayInstallRepair(page.store, r.token, c)
        BY <2>1, <3>2
      <3> QED BY <3>1, <3>2
    <2>2. CASE \/ Receives({"build"}, "cancelled")
                  /\ PageReceives(
                       IF Head(toPage).outcome = "result"
                       THEN Post([x EXCEPT !.store = EndRepairCandidate(@, r.token, "cancelled")],
                                 discard)
                       ELSE [x EXCEPT !.store = EndRepairCandidate(@, r.token, "cancelled")])
               \/ Receives({"build"}, "failed")
                  /\ PageReceives([x EXCEPT !.store = EndRepairCandidate(@, r.token, "failed")])
      <3> HIDE DEF x, discard, r
      <3> QED BY <2>2
    <2> QED BY <2>1, <2>2 DEF ReceivesRepairCandidate
  <1> HIDE DEF o, x, discard, r, c
  <1>6. CASE /\ MayInstallRepair(page.store, r.token, c)
             /\ PageReceives([[o EXCEPT !.store = CommitRepairCandidate(o.store, c)]
                                EXCEPT !.repairLive = c.id])
    <2> DEFINE t == CommitRepairCandidate(o.store, c)
               u == [o EXCEPT !.store = t]
               p == [u EXCEPT !.repairLive = c.id]
    <2>1. PageReceives(p)
      BY <1>6
    <2> HIDE DEF p, u, t
    <2>2. SliceChanges(o, t, UnderWay)
      <3>1. c.subject = Shown(o.store)
        BY <1>1, <1>3, <1>4, <1>6 DEF MayInstallRepair
      <3>2. "idle" \in States /\ StoreInv(o.store) /\ 0 \in Nat
        BY <1>1, CurrentPage DEF States
      <3> HIDE DEF States, Candidates
      <3>3. ChangesRepair(o.store, t) /\ t.repairToken = o.store.repairToken
        BY <1>3, <3>1, <3>2, RepairOperations DEF t
      <3> QED BY <3>3 DEF SliceChanges
    <2>3. Current(u, UnderWay) /\ Offers(o, u)
      BY <1>1, <2>2, StoreSteps DEF u
    <2>4. Current(p, UnderWay) /\ Offers(u, p)
      <3>1. c.id \in Nat
        BY <1>3
      <3> QED BY <2>3, <3>1, Notes DEF p
    <2> QED BY <1>1, <2>1, <2>3, <2>4, OffersCompose, CurrentHandles
  <1>7. CASE PageReceives(Post(o, discard))
    <2>1. Current(Post(o, discard), UnderWay) /\ Offers(o, Post(o, discard))
      BY <1>1, <1>3, PostsDiscard DEF discard
    <2> QED BY <1>1, <1>7, <2>1, OffersCompose, CurrentHandles
  <1>8. ASSUME NEW state \in {"cancelled", "failed"}, NEW p,
               p = [x EXCEPT !.store = EndRepairCandidate(x.store, r.token, state)],
               PageReceives(p) \/ PageReceives(Post(p, discard))
        PROVE  \E q : PageReceives(q) /\ Handles(q)
    <2> DEFINE t == EndRepairCandidate(x.store, r.token, state)
    <2> HIDE DEF t
    <2>1. SliceChanges(x, t, UnderWay)
      <3>1. state \in States /\ StoreInv(x.store)
        BY <1>2, <1>8, CurrentPage DEF States
      <3> HIDE DEF States
      <3>2. ChangesRepair(x.store, t) /\ t.repairToken \in {0, x.store.repairToken}
        BY <1>3, <3>1, RepairOperations DEF t
      <3> QED BY <3>2 DEF SliceChanges
    <2>2. Current(p, UnderWay) /\ Offers(x, p)
      BY <1>2, <1>8, <2>1, StoreSteps DEF t
    <2>3. Offers(page, p)
      BY <1>2, <2>2, OffersCompose
    <2>4. CASE PageReceives(p)
      BY <2>2, <2>3, <2>4, CurrentHandles
    <2>5. CASE PageReceives(Post(p, discard))
      <3>1. Current(Post(p, discard), UnderWay) /\ Offers(p, Post(p, discard))
        BY <1>3, <2>2, PostsDiscard DEF discard
      <3> QED BY <2>3, <2>5, <3>1, OffersCompose, CurrentHandles
    <2> QED BY <1>8, <2>4, <2>5
  <1> QED BY <1>5, <1>6, <1>7, <1>8

LEMMA FillAnswersHandle ==
    ASSUME HandledInv, ReceivesFill
    PROVE  \E p : PageReceives(p) /\ Handles(p)
  <1> DEFINE r == Answered
             c == Candidate(r.token, r.subject, r.opening)
             o == [[page EXCEPT !.fillRun = 0] EXCEPT !.fillSession = 0]
             x == [o EXCEPT !.fillActive = 0]
  <1>0. toPage # <<>> /\ r.kind = "fill"
    BY DEF ReceivesFill
  <1>1. Current(o, UnderWay) /\ Offers(page, o) /\ o.store = page.store
    <2> DEFINE n == [page EXCEPT !.fillRun = 0]
    <2>1. 0 \in Nat
      OBVIOUS
    <2>2. o = [n EXCEPT !.fillSession = 0]
      OBVIOUS
    <2> HIDE DEF o, n
    <2>3. Current(n, UnderWay) /\ Offers(page, n) /\ n.store = page.store
      BY <1>0, <2>1, Hears, Notes DEF n
    <2>4. Current(o, UnderWay) /\ Offers(n, o) /\ o.store = n.store
      BY <2>1, <2>2, <2>3, Notes
    <2> QED BY <2>3, <2>4, OffersCompose
  <1>2. Current(x, UnderWay) /\ Offers(page, x) /\ x.store = page.store
    <2>1. 0 \in Nat
      OBVIOUS
    <2> HIDE DEF o, x
    <2>2. Current(x, UnderWay) /\ Offers(o, x) /\ x.store = o.store
      BY <1>1, <2>1, Notes DEF x
    <2> QED BY <1>1, <2>2, OffersCompose
  <1>3. /\ r.token \in Nat /\ c \in Candidates /\ c.id \in Nat /\ c.opening # 0
    <2>1. /\ r.token \in Nat /\ r.subject \in Subjects /\ r.opening \in Nat /\ r.opening # 0
      BY <1>0, Hears DEF RequestOf
    <2> HIDE DEF r, Subjects
    <2> QED BY <2>1 DEF Candidate, Candidates
  <1>4. \/ PageReceives(page)
        \/ /\ MayInstallFill(page.store, r.token, c)
           /\ PageReceives([[o EXCEPT !.store = CommitHoleFillCandidate(o.store, c)]
                              EXCEPT !.fillLive = c.id])
        \/ PageReceives(ReleaseFillCandidate(o, c.id))
        \/ PageReceives([x EXCEPT !.store = EndHoleFillCandidate(x.store, r.token, "failed")])
    <2> HIDE DEF r, c
    <2>1. CASE PageReceives(
                 IF MayInstallFill(page.store, r.token, c)
                 THEN [o EXCEPT !.store = CommitHoleFillCandidate(@, c), !.fillLive = c.id]
                 ELSE ReleaseFillCandidate(o, c.id))
      <3>1. CASE MayInstallFill(page.store, r.token, c)
        <4>1. PageReceives([o EXCEPT !.store = CommitHoleFillCandidate(@, c), !.fillLive = c.id])
          BY <2>1, <3>1
        <4> HIDE DEF x
        <4>2. PageReceives([[o EXCEPT !.store = CommitHoleFillCandidate(o.store, c)]
                              EXCEPT !.fillLive = c.id])
          BY <4>1
        <4> QED BY <3>1, <4>2
      <3> HIDE DEF o, x
      <3>2. CASE ~MayInstallFill(page.store, r.token, c)
        BY <2>1, <3>2
      <3> QED BY <3>1, <3>2
    <2>2. CASE PageReceives([x EXCEPT !.store = EndHoleFillCandidate(@, r.token, "failed")])
      <3> HIDE DEF x
      <3> QED BY <2>2
    <2> QED BY <2>1, <2>2 DEF ReceivesFill, r, c
  <1> HIDE DEF o, x, r, c
  <1>5. CASE PageReceives(page)
    <2>1. Current(page, UnderWay) /\ Offers(page, page)
      BY <1>0, Hears DEF Offers
    <2> QED BY <1>5, <2>1, CurrentHandles
  <1>6. CASE /\ MayInstallFill(page.store, r.token, c)
             /\ PageReceives([[o EXCEPT !.store = CommitHoleFillCandidate(o.store, c)]
                                EXCEPT !.fillLive = c.id])
    <2> DEFINE t == CommitHoleFillCandidate(o.store, c)
               u == [o EXCEPT !.store = t]
               p == [u EXCEPT !.fillLive = c.id]
    <2>1. PageReceives(p)
      BY <1>6
    <2> HIDE DEF p, u, t
    <2>2. SliceChanges(o, t, UnderWay)
      <3>1. "idle" \in States /\ StoreInv(o.store) /\ MayInstallFill(o.store, r.token, c)
        BY <1>1, <1>6, CurrentPage DEF States
      <3> HIDE DEF States, Candidates
      <3>2. ChangesHoleFill(o.store, t) /\ t.holeFillToken = 0
        BY <1>3, <3>1, HoleFillOperations DEF t
      <3> QED BY <3>2 DEF SliceChanges
    <2>3. Current(u, UnderWay) /\ Offers(o, u)
      BY <1>1, <2>2, StoreSteps DEF u
    <2>4. Current(p, UnderWay) /\ Offers(u, p)
      <3>1. c.id \in Nat
        BY <1>3
      <3> QED BY <2>3, <3>1, Notes DEF p
    <2> QED BY <1>1, <2>1, <2>3, <2>4, OffersCompose, CurrentHandles
  <1>7. CASE PageReceives(ReleaseFillCandidate(o, c.id))
    <2> DEFINE p == ReleaseFillCandidate(o, c.id)
    <2>1. PageReceives(p)
      BY <1>7
    <2> HIDE DEF p
    <2>2. Current(p, UnderWay) /\ Offers(o, p)
      BY <1>1, <1>3, ReleasesFill DEF p
    <2> QED BY <1>1, <2>1, <2>2, OffersCompose, CurrentHandles
  <1>8. CASE PageReceives([x EXCEPT !.store = EndHoleFillCandidate(x.store, r.token, "failed")])
    <2> DEFINE t == EndHoleFillCandidate(x.store, r.token, "failed")
               p == [x EXCEPT !.store = t]
    <2>1. PageReceives(p)
      BY <1>8
    <2> HIDE DEF p, t
    <2>2. SliceChanges(x, t, UnderWay)
      <3>1. "failed" \in States /\ StoreInv(x.store)
        BY <1>2, CurrentPage DEF States
      <3> HIDE DEF States
      <3>2. ChangesHoleFill(x.store, t) /\ t.holeFillToken \in {0, x.store.holeFillToken}
        BY <1>3, <3>1, HoleFillOperations DEF t
      <3> QED BY <3>2 DEF SliceChanges
    <2>3. Current(p, UnderWay) /\ Offers(x, p)
      BY <1>2, <2>2, StoreSteps DEF p
    <2> QED BY <1>2, <2>1, <2>3, OffersCompose, CurrentHandles
  <1> QED BY <1>4, <1>5, <1>6, <1>7, <1>8
-----------------------------------------------------------------------------
(* The changes of the document.                                             *)

(* The answer of a change that moved the document.                          *)
Moves(a) == a.request.kind \in Changes /\ a.outcome = "result"

Commits == {"commitRepair", "commitFill", "commitEdit"}

(* It moved by one revision, from the one on screen, and is the last thing  *)
(* the worker can undo unless it was an undo.                               *)
MoveOf(a) ==
    /\ a.revision = resident.revision /\ resident.revision = page.store.revision + 1
    /\ a.request.subject.revision = page.store.revision
    /\ resident.undoable = IF a.request.kind \in Commits THEN resident.revision ELSE 0

OffersUndo(p) ==
    \/ p.store.repair.lastApplied # 0 \/ p.store.holeFill.lastApplied # 0
    \/ TextureUndoOffered(p)

(* The page shows the resident revision, or the one before it while the     *)
(* answer of one change is on its way.                                      *)
VersionInv ==
    /\ resident.revision \in Nat /\ resident.revision <= page.setup.revisions
    /\ resident.undoable \in {0, resident.revision}
    /\ page.store.revision <= resident.revision
    /\ \A i \in 1 .. Len(toPage) : Moves(toPage[i]) => MoveOf(toPage[i])
    /\ \A i, j \in 1 .. Len(toPage) : Moves(toPage[i]) /\ Moves(toPage[j]) => i = j
    /\ page.store.revision # resident.revision => \E i \in 1 .. Len(toPage) : Moves(toPage[i])
    /\ page.store.revision = resident.revision /\ OffersUndo(page)
         => resident.undoable = resident.revision

(* Another revision is put on screen.                                       *)
Installs(p, a) ==
    /\ PageInv(p, UnderWay) /\ ~Settled(p) /\ p.setup = page.setup
    /\ p.store.revision = a.revision
    /\ a.request.kind \notin Commits => ~OffersUndo(p)

LEMMA ChangeRefused ==
    ASSUME HandledInv, toPage # <<>>, ~Moves(Head(toPage)),
           ReceivesRepairChange \/ ReceivesFillChange \/ ReceivesTextureChange
    PROVE  \E p : PageReceives(p) /\ Handles(p)
  <1>1. /\ Current(page, UnderWay) /\ StoreInv(page.store) /\ Offers(page, page)
        /\ 0 \in Nat /\ "idle" \in States /\ page.store.holeFill.candidate.id \in Nat
    BY Hears, CurrentPage, Shows DEF States
  <1>2. ASSUME NEW kinds \in SUBSET Changes, Receives(kinds, "result")
        PROVE  FALSE
    <2>1. Head(toPage).request.kind \in Changes /\ Outcome = "result"
      BY <1>2 DEF Receives, Answered
    <2>2. Head(toPage).outcome = "result"
      BY <2>1 DEF Outcome
    <2> QED BY <2>1, <2>2 DEF Moves
  <1>3. /\ {"commitRepair"} \in SUBSET Changes /\ {"undoRepair"} \in SUBSET Changes
        /\ {"commitFill"} \in SUBSET Changes /\ {"undoFill"} \in SUBSET Changes
        /\ {"commitEdit"} \in SUBSET Changes /\ {"undoEdit"} \in SUBSET Changes
    BY DEF Changes
  <1>4. CASE ReceivesRepairChange
    <2> DEFINE t == FailRepairChange(page.store)
               p == [page EXCEPT !.store = t]
    <2>1. PageReceives(p)
      BY <1>2, <1>3, <1>4 DEF ReceivesRepairChange
    <2> HIDE DEF p, t, States
    <2>2. ChangesRepair(page.store, t) /\ t.repairToken \in {0, page.store.repairToken}
      BY <1>1, RepairOperations DEF t
    <2>3. SliceChanges(page, t, UnderWay)
      BY <2>2 DEF SliceChanges
    <2>4. Current(p, UnderWay) /\ Offers(page, p)
      BY <1>1, <2>3, StoreSteps DEF p
    <2> QED BY <2>1, <2>4, CurrentHandles
  <1>5. CASE ReceivesFillChange
    <2> DEFINE t == FailHoleFillChange(page.store)
               u == [page EXCEPT !.store = t]
               s == ClearHoleFillCandidate(u.store)
               v == [u EXCEPT !.store = s]
               p == ReleaseFillCandidate(v, page.store.holeFill.candidate.id)
    <2>1. PageReceives(p) \/ PageReceives(u)
      BY <1>2, <1>3, <1>5 DEF ReceivesFillChange
    <2> HIDE DEF p, v, s, u, t, States
    <2>2. ChangesHoleFill(page.store, t) /\ t.holeFillToken \in {0, page.store.holeFillToken}
      BY <1>1, HoleFillOperations DEF t
    <2>3. SliceChanges(page, t, UnderWay)
      BY <2>2 DEF SliceChanges
    <2>4. Current(u, UnderWay) /\ Offers(page, u)
      BY <1>1, <2>3, StoreSteps DEF u
    <2>5. ChangesHoleFill(u.store, s) /\ s.holeFillToken \in {0, u.store.holeFillToken}
      BY <1>1, <2>4, CurrentPage, HoleFillOperations DEF s
    <2>6. SliceChanges(u, s, UnderWay)
      BY <2>5 DEF SliceChanges
    <2>7. Current(v, UnderWay) /\ Offers(u, v)
      BY <2>4, <2>6, StoreSteps DEF v
    <2>8. Current(p, UnderWay) /\ Offers(v, p)
      BY <1>1, <2>7, ReleasesFill DEF p
    <2> QED BY <2>1, <2>4, <2>7, <2>8, OffersCompose, CurrentHandles
  <1>6. CASE ReceivesTextureChange
    <2> DEFINE p == [page EXCEPT !.edit.applying = FALSE]
    <2>1. PageReceives(p) \/ PageReceives(page)
      BY <1>2, <1>3, <1>6 DEF ReceivesTextureChange
    <2>2. p \in Pages /\ Beside(page, p) /\ p.store = page.store /\ p.out = page.out
          /\ p.stop = page.stop
      <3> DEFINE e == [page.edit EXCEPT !.applying = FALSE]
      <3>0. page \in Pages
        BY <1>1, CurrentPage
      <3>1. /\ page.edit \in [applying : BOOLEAN, record : Nat, revision : Nat]
            /\ p = [page EXCEPT !.edit = e]
        <4> HIDE DEF Stores, Requests, Subjects, AllSetups, Streams
        <4> QED BY <3>0 DEF Pages
      <3>2. /\ e \in [applying : BOOLEAN, record : Nat, revision : Nat]
            /\ e.record = page.edit.record /\ e.revision = page.edit.revision
        BY <3>1
      <3> HIDE DEF e, p, Stores, Requests, Subjects, AllSetups, Streams
      <3> QED BY <3>0, <3>1, <3>2 DEF Pages, Beside
    <2> HIDE DEF p
    <2>3. Current(p, UnderWay) /\ Offers(page, p)
      BY <1>1, <2>2, CurrentPage, PostsAndStops
    <2> QED BY <1>1, <2>1, <2>3, CurrentHandles
  <1> QED BY <1>4, <1>5, <1>6

LEMMA StoreInstalled ==
    ASSUME Current(page, UnderWay), NEW revision, revision = page.store.revision + 1,
           NEW q \in Pages,
           q.store \in {ApplyRepairResult(page.store, revision),
                        ApplyUndoResult(page.store, revision),
                        ApplyHoleFillResult(page.store, revision),
                        ApplyGeometryEditResult(page.store, revision)},
           q.setup = page.setup, q.startedFor = page.startedFor, q.out = page.out,
           q.stop = page.stop, q.edit.record \in {0, q.edit.revision},
           q.edit.revision \in {page.edit.revision, revision}
    PROVE  /\ PageInv(q, UnderWay) /\ ~Settled(q) /\ q.store.revision = revision
           /\ q.store = ApplyUndoResult(page.store, revision)
                /\ q.edit.revision = page.edit.revision => ~OffersUndo(q)
  <1>1. /\ StoreInv(page.store) /\ page.store.revision \in Nat /\ page \in Pages
        /\ Model(page).revision = page.store.revision
        /\ Settled(page) /\ PageInv(page, UnderWay)
    BY CurrentPage DEF Current
  <1>2. revision \in Nat /\ revision \in Nat \ {0}
    BY <1>1
  <1>3. /\ StoreInv(q.store) /\ q.store.revision = revision /\ q.store.part = page.store.part
        /\ q.store.repairToken = 0 /\ q.store.holeFill.candidate = NoCandidate
        /\ q.store = ApplyUndoResult(page.store, revision) =>
             q.store.repair.lastApplied = 0 /\ q.store.holeFill.lastApplied = 0
    BY <1>1, <1>2, InstallEffect
  <1>4. ~Settled(q)
    <2>1. Model(q).revision = revision
      BY <1>3 DEF Model, Shown, Subject
    <2>2. Model(q) # Model(page)
      BY <1>1, <1>2, <2>1
    <2> QED BY <1>1, <2>2 DEF Settled
  <1>5. \A r : RequestOf(r, page) => RequestOf(r, q)
    <2> SUFFICES ASSUME NEW r, RequestOf(r, page) PROVE RequestOf(r, q)
      OBVIOUS
    <2>1. r.kind \in Changes => r.subject.revision <= revision
      <3>1. r.subject \in Subjects
        <4> HIDE DEF Subjects, Kinds
        <4> QED BY DEF RequestOf, Requests
      <3>2. r.subject.revision \in Nat
        BY <3>1 DEF Subjects
      <3> QED BY <1>1, <1>2, <3>2 DEF RequestOf
    <2> QED BY <1>3, <2>1 DEF RequestOf
  <1>6. page.edit.revision <= page.store.revision /\ page.edit.revision \in Nat
    <2> HIDE DEF Stores, Requests, Subjects, AllSetups, Streams
    <2> QED BY <1>1 DEF PageInv, Pages
  <1>7. PageInv(q, UnderWay)
    <2>1. q.edit.revision <= revision
      BY <1>1, <1>2, <1>6
    <2> QED BY <1>1, <1>3, <1>5, <2>1 DEF PageInv
  <1>8. q.edit.revision = page.edit.revision => ~TextureUndoOffered(q)
    BY <1>1, <1>2, <1>3, <1>6 DEF TextureUndoOffered
  <1> QED BY <1>3, <1>4, <1>7, <1>8 DEF OffersUndo

(* What the texture hook puts on screen and remembers.                      *)
WithEdit(p, s, e) == [[p EXCEPT !.store = s] EXCEPT !.edit = e]

LEMMA ChangeInstalled ==
    ASSUME HandledInv, VersionInv, toPage # <<>>, Moves(Head(toPage)),
           ReceivesRepairChange \/ ReceivesFillChange \/ ReceivesTextureChange
    PROVE  \E p : PageReceives(p) /\ Installs(p, Head(toPage))
  <1> DEFINE revision == Head(toPage).revision
             store == page.store
             Edits == [applying : BOOLEAN, record : Nat, revision : Nat]
  <1>1. /\ Current(page, UnderWay) /\ StoreInv(store) /\ page \in Pages
        /\ page.store.revision \in Nat /\ PageInv(page, UnderWay)
    BY Hears, CurrentPage
  <1>2. /\ MoveOf(Head(toPage)) /\ revision = store.revision + 1
        /\ revision \in Nat /\ revision \in Nat \ {0}
    <2>1. toPage \in Seq(AnswersOf)
      BY DEF HandledInv, ChannelInv
    <2>2. 1 \in 1 .. Len(toPage) /\ Head(toPage) = toPage[1]
      <3> HIDE DEF AnswersOf
      <3> QED BY <2>1
    <2>3. MoveOf(Head(toPage))
      BY <2>2 DEF VersionInv
    <2> QED BY <1>1, <2>3 DEF MoveOf
  <1>3. ASSUME NEW q \in Pages, PageReceives(q),
               \/ Answered.kind = "commitRepair" /\ q.store = ApplyRepairResult(store, revision)
               \/ Answered.kind \notin Commits /\ q.store = ApplyUndoResult(store, revision)
                    /\ q.edit.revision = page.edit.revision
               \/ Answered.kind = "commitFill" /\ q.store = ApplyHoleFillResult(store, revision)
               \/ Answered.kind = "commitEdit"
                    /\ q.store = ApplyGeometryEditResult(store, revision),
               q.setup = page.setup, q.startedFor = page.startedFor, q.out = page.out,
               q.stop = page.stop, q.edit.record \in {0, q.edit.revision},
               q.edit.revision \in {page.edit.revision, revision}
        PROVE  \E p : PageReceives(p) /\ Installs(p, Head(toPage))
    <2>1. /\ PageInv(q, UnderWay) /\ ~Settled(q) /\ q.store.revision = revision
          /\ q.store = ApplyUndoResult(store, revision)
               /\ q.edit.revision = page.edit.revision => ~OffersUndo(q)
      BY <1>1, <1>2, <1>3, StoreInstalled
    <2>2. Installs(q, Head(toPage))
      BY <1>3, <2>1 DEF Installs, Commits, Answered
    <2> QED BY <1>3, <2>2
  <1>4. \A s : s \in {ApplyRepairResult(store, revision), ApplyUndoResult(store, revision),
                      ApplyHoleFillResult(store, revision),
                      ApplyGeometryEditResult(store, revision)} => s \in Stores
    <2> HIDE DEF revision, store
    <2> QED BY <1>1, <1>2, InstallEffect DEF StoreInv
  <1>5. /\ page.edit \in Edits
        /\ page.edit.record \in {0, page.edit.revision}
    <2> HIDE DEF Stores, Requests, Subjects, AllSetups, Streams
    <2> QED BY <1>1 DEF Pages, PageInv
  <1>6. ASSUME NEW s \in Stores, NEW q,
               \/ q = [page EXCEPT !.store = s]
               \/ q = [[page EXCEPT !.store = s] EXCEPT !.repairLive = 0]
               \/ q = [[page EXCEPT !.store = s] EXCEPT !.fillLive = 0]
        PROVE  /\ q \in Pages /\ q.store = s /\ q.setup = page.setup
               /\ q.startedFor = page.startedFor /\ q.out = page.out /\ q.stop = page.stop
               /\ q.edit = page.edit
    <2> HIDE DEF Stores, Requests, Subjects, AllSetups, Streams
    <2> USE <1>1 DEF Pages
    <2>1. CASE q = [page EXCEPT !.store = s]
      BY <2>1
    <2>2. CASE q = [[page EXCEPT !.store = s] EXCEPT !.repairLive = 0]
      BY <2>2
    <2>3. CASE q = [[page EXCEPT !.store = s] EXCEPT !.fillLive = 0]
      BY <2>3
    <2> QED BY <1>6, <2>1, <2>2, <2>3
  <1>7. ASSUME NEW s \in Stores, NEW e \in Edits
        PROVE  LET q == WithEdit(page, s, e) IN
               /\ q \in Pages /\ q.store = s /\ q.setup = page.setup
               /\ q.startedFor = page.startedFor /\ q.out = page.out /\ q.stop = page.stop
               /\ q.edit = e
    <2> HIDE DEF Stores, Requests, Subjects, AllSetups, Streams
    <2> QED BY <1>1, <1>7 DEF Pages, WithEdit
  <1>8. ASSUME NEW kinds, Receives(kinds, "failed")
        PROVE  FALSE
    <2>1. Outcome = "failed" /\ Head(toPage).outcome = "result"
      BY <1>8 DEF Receives, Moves
    <2> QED BY <2>1 DEF Outcome
  <1>9. CASE ReceivesRepairChange
    <2> DEFINE s == ApplyRepairResult(store, revision)
               p == [[page EXCEPT !.store = s] EXCEPT !.repairLive = 0]
               t == ApplyUndoResult(store, revision)
               u == [page EXCEPT !.store = t]
    <2>1. \/ Answered.kind = "commitRepair" /\ PageReceives(p)
          \/ Answered.kind = "undoRepair" /\ PageReceives(u)
      BY <1>8, <1>9 DEF ReceivesRepairChange, Receives
    <2>2. s \in Stores /\ t \in Stores
      BY <1>4
    <2> HIDE DEF p, u, s, t, revision, store
    <2>3. CASE Answered.kind = "commitRepair" /\ PageReceives(p)
      <3>1. /\ p \in Pages /\ p.store = s /\ p.setup = page.setup
            /\ p.startedFor = page.startedFor /\ p.out = page.out /\ p.stop = page.stop
            /\ p.edit = page.edit
        BY <1>6, <2>2 DEF p
      <3> QED BY <1>3, <1>5, <2>3, <3>1 DEF s
    <2>4. CASE Answered.kind = "undoRepair" /\ PageReceives(u)
      <3>1. /\ u \in Pages /\ u.store = t /\ u.setup = page.setup
            /\ u.startedFor = page.startedFor /\ u.out = page.out /\ u.stop = page.stop
            /\ u.edit = page.edit
        BY <1>6, <2>2 DEF u
      <3> QED BY <1>3, <1>5, <2>4, <3>1 DEF t, Commits
    <2> QED BY <2>1, <2>3, <2>4
  <1>10. CASE ReceivesFillChange
    <2> DEFINE s == ApplyHoleFillResult(store, revision)
               p == [[page EXCEPT !.store = s] EXCEPT !.fillLive = 0]
               t == ApplyUndoResult(store, revision)
               u == [page EXCEPT !.store = t]
    <2>1. \/ Answered.kind = "commitFill" /\ PageReceives(p)
          \/ Answered.kind = "undoFill" /\ PageReceives(u)
      BY <1>8, <1>10 DEF ReceivesFillChange, Receives
    <2>2. s \in Stores /\ t \in Stores
      BY <1>4
    <2> HIDE DEF p, u, s, t, revision, store
    <2>3. CASE Answered.kind = "commitFill" /\ PageReceives(p)
      <3>1. /\ p \in Pages /\ p.store = s /\ p.setup = page.setup
            /\ p.startedFor = page.startedFor /\ p.out = page.out /\ p.stop = page.stop
            /\ p.edit = page.edit
        BY <1>6, <2>2 DEF p
      <3> QED BY <1>3, <1>5, <2>3, <3>1 DEF s
    <2>4. CASE Answered.kind = "undoFill" /\ PageReceives(u)
      <3>1. /\ u \in Pages /\ u.store = t /\ u.setup = page.setup
            /\ u.startedFor = page.startedFor /\ u.out = page.out /\ u.stop = page.stop
            /\ u.edit = page.edit
        BY <1>6, <2>2 DEF u
      <3> QED BY <1>3, <1>5, <2>4, <3>1 DEF t, Commits
    <2> QED BY <2>1, <2>3, <2>4
  <1>11. CASE ReceivesTextureChange
    <2> DEFINE s == ApplyGeometryEditResult(store, revision)
               e == [[[page.edit EXCEPT !.applying = FALSE] EXCEPT !.record = revision]
                       EXCEPT !.revision = revision]
               p == WithEdit(page, s, e)
               t == ApplyUndoResult(store, revision)
               f == [page.edit EXCEPT !.record = 0]
               u == WithEdit(page, t, f)
               o == [page EXCEPT !.edit.applying = FALSE]
    <2>1. MayInstallEdit(page.store, Answered.subject.revision)
      BY <1>2 DEF MayInstallEdit, MoveOf, Answered
    <2>2. \/ /\ Answered.kind = "commitEdit"
             /\ PageReceives([o EXCEPT !.store = ApplyGeometryEditResult(@, revision),
                                       !.edit.record = revision, !.edit.revision = revision])
          \/ /\ Answered.kind = "undoEdit"
             /\ PageReceives([page EXCEPT !.store = ApplyUndoResult(@, revision),
                                          !.edit.record = 0])
      BY <1>8, <1>11, <2>1 DEF ReceivesTextureChange, Receives
    <2>3. [o EXCEPT !.store = ApplyGeometryEditResult(@, revision),
                    !.edit.record = revision, !.edit.revision = revision] = p
      <3> HIDE DEF revision, Stores, Requests, Subjects, AllSetups, Streams
      <3> QED BY <1>1 DEF Pages, WithEdit
    <2>4. [page EXCEPT !.store = ApplyUndoResult(@, revision), !.edit.record = 0] = u
      <3> HIDE DEF revision, Stores, Requests, Subjects, AllSetups, Streams
      <3> QED BY <1>1 DEF Pages, WithEdit
    <2>5. s \in Stores /\ t \in Stores
      BY <1>4
    <2>6. /\ e \in Edits
          /\ e.record = revision /\ e.revision = revision
          /\ f \in Edits
          /\ f.record = 0 /\ f.revision = page.edit.revision
      <3> HIDE DEF revision
      <3> QED BY <1>2, <1>5
    <2> HIDE DEF p, u, s, t, e, f, o, revision, store, Edits
    <2>7. CASE Answered.kind = "commitEdit" /\ PageReceives(p)
      <3>1. /\ p \in Pages /\ p.store = s /\ p.setup = page.setup
            /\ p.startedFor = page.startedFor /\ p.out = page.out /\ p.stop = page.stop
            /\ p.edit = e
        BY <1>7, <2>5, <2>6 DEF p
      <3>2. p.edit.record \in {0, p.edit.revision} /\ p.edit.revision = revision
        BY <2>6, <3>1
      <3>3. p.store = ApplyGeometryEditResult(store, revision)
        BY <3>1 DEF s
      <3> QED BY <1>3, <2>7, <3>1, <3>2, <3>3
    <2>8. CASE Answered.kind = "undoEdit" /\ PageReceives(u)
      <3>1. /\ u \in Pages /\ u.store = t /\ u.setup = page.setup
            /\ u.startedFor = page.startedFor /\ u.out = page.out /\ u.stop = page.stop
            /\ u.edit = f
        BY <1>7, <2>5, <2>6 DEF u
      <3> QED BY <1>3, <2>6, <2>8, <3>1 DEF t, Commits
    <2> QED BY <2>2, <2>3, <2>4, <2>7, <2>8
  <1> QED BY <1>9, <1>10, <1>11
-----------------------------------------------------------------------------
(* The imported document.                                                   *)

LEMMA ImportedStores ==
    ASSUME NEW part \in Parts, NEW s, s = ImportedStore(part)
    PROVE  /\ StoreInv(s) /\ s.revision = 1 /\ s.part = part
           /\ s.repair.lastApplied = 0 /\ s.holeFill.lastApplied = 0
           /\ s.holeFill.candidate = NoCandidate
  <1> DEFINE m == Subject(1, part)
  <1>1. /\ s.revision = 1 /\ s.part = part /\ s.repairToken = 0 /\ s.analysisToken = 0
        /\ s.holeFillToken = 0 /\ s.analysis = EmptyAnalysis(m) /\ s.repair = EmptyRepair
        /\ s.holeFill = EmptyHoleFill
        /\ DOMAIN s = {"revision", "part", "analysis", "analysisToken", "repair",
                       "repairToken", "holeFill", "holeFillToken"}
    BY DEF ImportedStore
  <1>2. m \in Subjects /\ m.revision = 1
    BY DEF Subject, Subjects
  <1>3. AnalysisOf(EmptyAnalysis(m), m)
    BY <1>2, Nothings DEF AnalysisOf, Analyses, EmptyAnalysis, States
  <1>4. RepairOf(EmptyRepair, m) /\ EmptyRepair.lastApplied = 0
    <2> HIDE DEF Candidates, NoCandidate, Subjects, Nothing, m
    <2> QED BY <1>2, Nothings DEF RepairOf, Repairs, EmptyRepair, States
  <1>5. /\ HoleFillOf(EmptyHoleFill, m) /\ EmptyHoleFill.lastApplied = 0
        /\ EmptyHoleFill.candidate = NoCandidate
    <2> HIDE DEF Candidates, NoCandidate, Subjects, Nothing, m
    <2> QED BY <1>2, Nothings DEF HoleFillOf, HoleFills, EmptyHoleFill, States
  <1>6. s \in Stores
    <2>1. /\ EmptyAnalysis(m) \in Analyses /\ EmptyRepair \in Repairs
          /\ EmptyHoleFill \in HoleFills
      BY <1>3, <1>4, <1>5 DEF AnalysisOf, RepairOf, HoleFillOf
    <2> HIDE DEF Analyses, Repairs, HoleFills, EmptyRepair, EmptyHoleFill, EmptyAnalysis
    <2> QED BY <2>1 DEF Stores, ImportedStore
  <1>7. Shown(s) = m
    BY <1>1 DEF Shown
  <1> HIDE DEF m
  <1> QED BY <1>1, <1>3, <1>4, <1>5, <1>6, <1>7 DEF StoreInv

LEMMA ImportedPages ==
    ASSUME NEW setup \in AllSetups, NEW part \in setup.parts, 0 \notin Parts,
           NEW p, p = NewPage(setup, part)
    PROVE  /\ PageInv(p, {}) /\ ListsOf(p, {}) /\ p.out = <<>> /\ p.stop = {}
           /\ p.startedFor = Nothing /\ p.store.revision = 1 /\ p.setup = setup
           /\ ~OffersUndo(p)
  <1> DEFINE s == ImportedStore(part)
             e == [applying |-> FALSE, record |-> 0, revision |-> 0]
             none == <<>>
             nobody == {}
  <1>1. part \in Parts /\ setup.parts \subseteq Parts
    BY DEF AllSetups
  <1>2. /\ StoreInv(s) /\ s.revision = 1 /\ s.part = part
        /\ s.repair.lastApplied = 0 /\ s.holeFill.lastApplied = 0
        /\ s.holeFill.candidate = NoCandidate
    <2> HIDE DEF s
    <2> QED BY <1>1, ImportedStores DEF s
  <1>3. s \in Stores
    BY <1>2 DEF StoreInv
  <1>4. /\ e \in [applying : BOOLEAN, record : Nat, revision : Nat]
        /\ e.record = 0 /\ e.revision = 0
    OBVIOUS
  <1>5. none \in Seq(Requests) /\ nobody \in SUBSET (Streams \X Nat)
    OBVIOUS
  <1> HIDE DEF s, e, none, nobody
  <1>6. p = [setup |-> setup, store |-> s, out |-> none, stop |-> nobody,
             startedFor |-> Nothing, plannedFor |-> Nothing, analysisSession |-> 0,
             repairSession |-> 0, repairActive |-> 0, repairLive |-> 0,
             fillSession |-> 0, fillActive |-> 0, fillLive |-> 0, fillRun |-> 0, edit |-> e]
    BY DEF NewPage, s, e, none, nobody
  <1>7. /\ p.setup = setup /\ p.store = s /\ p.out = none /\ p.stop = nobody /\ p.edit = e
        /\ p.startedFor = Nothing
    BY <1>6
  <1>8. p \in Pages
    <2> HIDE DEF Stores, Requests, Subjects, AllSetups, Streams, Nothing
    <2> QED BY <1>3, <1>4, <1>5, <1>6, Nothings DEF Pages
  <1>9. Range(p.out) = {} /\ IsFiniteSet(p.stop)
    BY <1>7, FS_EmptySet DEF Range, none, nobody
  <1>10. PageInv(p, {}) /\ ListsOf(p, {})
    BY <1>2, <1>4, <1>7, <1>8, <1>9 DEF PageInv, ListsOf
  <1>11. ~OffersUndo(p)
    BY <1>2, <1>4, <1>7 DEF OffersUndo, TextureUndoOffered
  <1> QED BY <1>2, <1>7, <1>10, <1>11 DEF none, nobody

LEMMA InitHolds ==
    ASSUME Init PROVE HandledInv /\ VersionInv
  <1>1. PICK setup \in Setups : \E part \in setup.parts : page = NewPage(setup, part)
    BY DEF Init
  <1>2. PICK part \in setup.parts : page = NewPage(setup, part)
    BY <1>1
  <1>3. setup \in AllSetups /\ 0 \notin Parts /\ setup.revisions \in Nat \ {0}
    BY PageAssumption DEF AllSetups
  <1>4. /\ PageInv(page, {}) /\ ListsOf(page, {}) /\ page.out = <<>> /\ page.stop = {}
        /\ page.startedFor = Nothing /\ page.store.revision = 1 /\ page.setup = setup
        /\ ~OffersUndo(page)
    BY <1>2, <1>3, ImportedPages
  <1>5. /\ toWorker = <<>> /\ toPage = <<>> /\ serving = {} /\ words = {}
        /\ resident.revision = 1 /\ resident.undoable = 0
    BY DEF Init
  <1>6. UnderWay = {}
    BY <1>5 DEF UnderWay, Range
  <1>7. ChannelInv
    <2>1. <<>> \in Seq(Requests) /\ <<>> \in Seq(AnswersOf)
      <3> HIDE DEF Requests, AnswersOf
      <3> QED OBVIOUS
    <2> QED BY <1>4, <1>5, <1>6, <2>1, FS_EmptySet DEF ChannelInv
  <1>8. VersionInv
    BY <1>3, <1>4, <1>5 DEF VersionInv
  <1> QED BY <1>4, <1>6, <1>7, <1>8 DEF HandledInv
-----------------------------------------------------------------------------
(* What the page does keeps the invariants.                                 *)

LEMMA NothingMoreToUndo ==
    ASSUME NEW p, NEW q, Offers(p, q)
    PROVE  OffersUndo(q) => OffersUndo(p)
  BY DEF Offers, OffersUndo, TextureUndoOffered

(* The answers that remain, when the first has been heard or none was.      *)
LEMMA AnswersLeft ==
    ASSUME toPage \in Seq(AnswersOf), toPage # <<>>
    PROVE  /\ Head(toPage) = toPage[1] /\ 1 \in 1 .. Len(toPage)
           /\ \A i \in 1 .. Len(Tail(toPage)) :
                i + 1 \in 1 .. Len(toPage) /\ Tail(toPage)[i] = toPage[i + 1]
           /\ \A j \in 1 .. Len(toPage) :
                j # 1 => \E i \in 1 .. Len(Tail(toPage)) : j = i + 1
  <1> HIDE DEF AnswersOf
  <1>1. /\ Len(toPage) \in Nat /\ Len(toPage) # 0 /\ Len(Tail(toPage)) = Len(toPage) - 1
        /\ Head(toPage) = toPage[1]
    OBVIOUS
  <1>2. \A i \in 1 .. Len(Tail(toPage)) : Tail(toPage)[i] = toPage[i + 1]
    OBVIOUS
  <1>3. \A i \in 1 .. Len(Tail(toPage)) : i + 1 \in 1 .. Len(toPage)
    BY <1>1
  <1>4. ASSUME NEW j \in 1 .. Len(toPage), j # 1
        PROVE  \E i \in 1 .. Len(Tail(toPage)) : j = i + 1
    <2>1. j - 1 \in 1 .. Len(Tail(toPage)) /\ j = (j - 1) + 1
      BY <1>1, <1>4
    <2> QED BY <2>1
  <1> QED BY <1>1, <1>2, <1>3, <1>4

LEMMA VersionsStay ==
    ASSUME VersionInv, HandledInv, Offers(page, page'), resident' = resident,
           toPage' = toPage \/ (toPage # <<>> /\ toPage' = Tail(toPage) /\ ~Moves(Head(toPage)))
    PROVE  VersionInv'
  <1>1. /\ page'.store.revision = page.store.revision /\ page'.setup = page.setup
        /\ OffersUndo(page') => OffersUndo(page)
    BY NothingMoreToUndo DEF Offers
  <1>2. toPage \in Seq(AnswersOf)
    BY DEF HandledInv, ChannelInv
  <1>3. \A a : MoveOf(a)' <=> MoveOf(a)
    BY <1>1 DEF MoveOf
  <1>4. CASE toPage' = toPage
    BY <1>1, <1>3, <1>4 DEF VersionInv
  <1>5. CASE toPage # <<>> /\ toPage' = Tail(toPage) /\ ~Moves(Head(toPage))
    <2>1. /\ \A i \in 1 .. Len(toPage') : i + 1 \in 1 .. Len(toPage) /\ toPage'[i] = toPage[i + 1]
          /\ \A j \in 1 .. Len(toPage) :
               Moves(toPage[j]) => \E i \in 1 .. Len(toPage') : j = i + 1
          /\ \A i \in 1 .. Len(toPage') : i \in Nat
      BY <1>2, <1>5, AnswersLeft
    <2>2. \A i \in 1 .. Len(toPage') : Moves(toPage'[i]) => MoveOf(toPage'[i])
      BY <2>1 DEF VersionInv
    <2>3. ASSUME NEW i \in 1 .. Len(toPage'), NEW j \in 1 .. Len(toPage'),
                 Moves(toPage'[i]), Moves(toPage'[j])
          PROVE  i = j
      <3>1. i + 1 = j + 1
        BY <2>1, <2>3 DEF VersionInv
      <3> QED BY <2>1, <3>1
    <2>4. ASSUME NEW j \in 1 .. Len(toPage), Moves(toPage[j])
          PROVE  \E i \in 1 .. Len(toPage') : Moves(toPage'[i])
      <3>1. PICK i \in 1 .. Len(toPage') : j = i + 1
        BY <2>1, <2>4
      <3>2. toPage'[i] = toPage[j]
        BY <2>1, <3>1
      <3> QED BY <2>4, <3>2
    <2> QED BY <1>1, <1>3, <2>2, <2>3, <2>4 DEF VersionInv
  <1> QED BY <1>4, <1>5

LEMMA VersionMoves ==
    ASSUME VersionInv, HandledInv, toPage # <<>>, Moves(Head(toPage)),
           NEW p, Installs(p, Head(toPage)), Offers(p, page'), resident' = resident,
           toPage' = Tail(toPage)
    PROVE  VersionInv'
  <1>1. /\ page'.store.revision = Head(toPage).revision /\ page'.setup = page.setup
        /\ OffersUndo(page') => OffersUndo(p)
    BY NothingMoreToUndo DEF Offers, Installs
  <1>2. toPage \in Seq(AnswersOf)
    BY DEF HandledInv, ChannelInv
  <1>3. /\ 1 \in 1 .. Len(toPage) /\ Head(toPage) = toPage[1]
        /\ \A i \in 1 .. Len(toPage') : i + 1 \in 1 .. Len(toPage) /\ toPage'[i] = toPage[i + 1]
        /\ \A i \in 1 .. Len(toPage') : i \in 1 .. Len(toPage') /\ i + 1 # 1
    BY <1>2, AnswersLeft
  <1>4. \A i \in 1 .. Len(toPage') : ~Moves(toPage'[i])
    BY <1>3 DEF VersionInv
  <1>5. MoveOf(Head(toPage))
    BY <1>3 DEF VersionInv
  <1>6. page'.store.revision = resident.revision
    BY <1>1, <1>5 DEF MoveOf
  <1>7. OffersUndo(page') => Head(toPage).request.kind \in Commits
    BY <1>1 DEF Installs
  <1> QED BY <1>1, <1>4, <1>5, <1>6, <1>7 DEF VersionInv, MoveOf

LEMMA PageActs ==
    ASSUME HandledInv, VersionInv, UserActs \/ PageHears
    PROVE  HandledInv' /\ VersionInv'
  <1>1. ChannelInv /\ toPage \in Seq(AnswersOf) /\ Range(toPage) \subseteq Range(toPage)
    BY DEF HandledInv, ChannelInv
  <1>2. ASSUME NEW p, PageBecomes(p, toPage), Handles(p)
        PROVE  HandledInv' /\ VersionInv'
    <2>1. HandledInv' /\ Offers(p, page')
      BY <1>1, <1>2, HandlerEnds DEF Handles
    <2>2. Offers(page, page')
      BY <1>2, <2>1, OffersCompose DEF Handles
    <2>3. toPage' = toPage /\ resident' = resident
      BY <1>2 DEF PageBecomes
    <2> QED BY <2>1, <2>2, <2>3, VersionsStay
  <1>3. ASSUME toPage # <<>>, NEW p, PageReceives(p),
               \/ ~Moves(Head(toPage)) /\ Handles(p)
               \/ Moves(Head(toPage)) /\ Installs(p, Head(toPage))
        PROVE  HandledInv' /\ VersionInv'
    <2>1. Tail(toPage) \in Seq(AnswersOf) /\ Range(Tail(toPage)) \subseteq Range(toPage)
      BY <1>3, Hears
    <2>2. /\ PageBecomes(p, Tail(toPage)) /\ PageInv(p, UnderWay)
          /\ Settled(p) => ListsOf(p, UnderWay)
      BY <1>3 DEF PageReceives, Handles, Installs
    <2>3. HandledInv' /\ Offers(p, page')
      BY <1>1, <2>1, <2>2, HandlerEnds
    <2>4. toPage' = Tail(toPage) /\ resident' = resident
      BY <2>2 DEF PageBecomes
    <2>5. CASE ~Moves(Head(toPage)) /\ Handles(p)
      <3>1. Offers(page, page')
        BY <2>3, <2>5, OffersCompose DEF Handles
      <3> QED BY <1>3, <2>3, <2>4, <2>5, <3>1, VersionsStay
    <2>6. CASE Moves(Head(toPage)) /\ Installs(p, Head(toPage))
      BY <1>3, <2>3, <2>4, <2>6, VersionMoves
    <2> QED BY <1>3, <2>5, <2>6
  <1>4. CASE UserActs
    BY <1>2, <1>4, UserHandles
  <1>5. CASE Imported
    <2>1. PageBecomes(page, toPage)
      BY <1>5 DEF Imported
    <2>2. Handles(page)
      BY DEF HandledInv, Handles, Offers
    <2> QED BY <1>2, <2>1, <2>2
  <1>6. CASE ReceivesAnalysis
    <2>1. toPage # <<>> /\ ~Moves(Head(toPage))
      BY <1>6 DEF ReceivesAnalysis, Receives, Answered, Moves, Changes
    <2> QED BY <1>3, <1>6, <2>1, AnalysisAnswersHandle
  <1>7. CASE ReceivesPlan
    <2>1. toPage # <<>> /\ ~Moves(Head(toPage))
      BY <1>7 DEF ReceivesPlan, Receives, Answered, Moves, Changes
    <2> QED BY <1>3, <1>7, <2>1, PlanAnswersHandle
  <1>8. CASE ReceivesRepairCandidate
    <2>1. toPage # <<>> /\ ~Moves(Head(toPage))
      BY <1>8 DEF ReceivesRepairCandidate, Receives, Answered, Moves, Changes
    <2> QED BY <1>3, <1>8, <2>1, RepairCandidatesHandle
  <1>9. CASE ReceivesListing
    <2>1. toPage # <<>> /\ ~Moves(Head(toPage))
      BY <1>9 DEF ReceivesListing, Receives, Answered, Moves, Changes
    <2> QED BY <1>3, <1>9, <2>1, ListAnswersHandle
  <1>10. CASE ReceivesFill
    <2>1. toPage # <<>> /\ ~Moves(Head(toPage))
      BY <1>10 DEF ReceivesFill, Answered, Moves, Changes
    <2> QED BY <1>3, <1>10, <2>1, FillAnswersHandle
  <1>11. CASE ReceivesRepairChange \/ ReceivesFillChange \/ ReceivesTextureChange
    <2>1. toPage # <<>>
      BY <1>11 DEF ReceivesRepairChange, ReceivesFillChange, ReceivesTextureChange, Receives
    <2>2. CASE Moves(Head(toPage))
      BY <1>3, <1>11, <2>1, <2>2, ChangeInstalled
    <2>3. CASE ~Moves(Head(toPage))
      BY <1>3, <1>11, <2>1, <2>3, ChangeRefused
    <2> QED BY <2>2, <2>3
  <1> QED BY <1>4, <1>5, <1>6, <1>7, <1>8, <1>9, <1>10, <1>11 DEF PageHears
-----------------------------------------------------------------------------
(* What the worker does keeps them too.                                     *)

Residents ==
    [revision : Nat, undoable : Nat, repairCandidate : Candidates, fillCandidate : Candidates]

PageIInv == HandledInv /\ VersionInv /\ resident \in Residents

LEMMA RequestsUnderWay ==
    ASSUME HandledInv, NEW r \in UnderWay
    PROVE  /\ r \in Requests /\ RequestOf(r, page) /\ r.kind \in Kinds /\ r.token \in Nat
           /\ r.subject \in Subjects /\ r.subject.revision \in Nat /\ r.opening \in Nat
           /\ r.id \in Nat
  <1>1. RequestOf(r, page) /\ r \in Requests
    BY DEF HandledInv, PageInv, RequestOf
  <1>2. /\ r.kind \in Kinds /\ r.token \in Nat /\ r.subject \in Subjects /\ r.opening \in Nat
        /\ r.id \in Nat
    <2> HIDE DEF Subjects, Kinds
    <2> QED BY <1>1 DEF Requests
  <1> QED BY <1>1, <1>2 DEF Subjects

LEMMA RequestsAreTaken ==
    ASSUME HandledInv, NEW r, TakesRequest(r)
    PROVE  /\ r \in UnderWay /\ toWorker' \in Seq(Requests)
           /\ Range(toWorker') \subseteq Range(toWorker)
  <1> HIDE DEF Requests
  <1>1. toWorker \in Seq(Requests) /\ toWorker # <<>> /\ r = Head(toWorker)
        /\ toWorker' = Tail(toWorker)
    BY DEF HandledInv, ChannelInv, TakesRequest
  <1>2. /\ 1 \in DOMAIN toWorker /\ Head(toWorker) = toWorker[1]
        /\ toWorker' \in Seq(Requests) /\ DOMAIN toWorker' = 1 .. Len(toWorker')
    BY <1>1
  <1>3. \A i \in 1 .. Len(toWorker') : toWorker'[i] = toWorker[i + 1] /\ i + 1 \in DOMAIN toWorker
    BY <1>1
  <1> QED BY <1>1, <1>2, <1>3 DEF Range, UnderWay

LEMMA AnswersArrive ==
    ASSUME HandledInv, NEW r \in UnderWay, NEW outcome \in Outcomes, NEW n \in Nat,
           NEW a, a = Answer(r, outcome, n)
    PROVE  /\ Append(toPage, a) \in Seq(AnswersOf) /\ a.request = r /\ a.outcome = outcome
           /\ a.revision = n
           /\ Range(Append(toPage, a)) = Range(toPage) \cup {a}
           /\ Len(Append(toPage, a)) = Len(toPage) + 1 /\ Len(toPage) \in Nat
           /\ Append(toPage, a)[Len(toPage) + 1] = a
           /\ \A i \in 1 .. Len(toPage) : Append(toPage, a)[i] = toPage[i]
  <1>1. toPage \in Seq(AnswersOf) /\ r \in Requests
    BY RequestsUnderWay DEF HandledInv, ChannelInv
  <1>2. a \in AnswersOf /\ a.request = r /\ a.outcome = outcome /\ a.revision = n
    <2> HIDE DEF Requests, Outcomes
    <2> QED BY <1>1 DEF AnswersOf, Answer
  <1> HIDE DEF AnswersOf
  <1>3. /\ Append(toPage, a) \in Seq(AnswersOf) /\ Len(toPage) \in Nat
        /\ Len(Append(toPage, a)) = Len(toPage) + 1
        /\ Append(toPage, a)[Len(toPage) + 1] = a
        /\ \A i \in 1 .. Len(toPage) : Append(toPage, a)[i] = toPage[i]
    BY <1>1, <1>2
  <1>4. Range(Append(toPage, a)) = Range(toPage) \cup {a}
    <2> DEFINE last == <<a>>
    <2>1. Append(toPage, a) = toPage \o last /\ last \in Seq(AnswersOf)
      BY <1>1, <1>2
    <2>2. Range(last) = {a}
      BY DEF Range
    <2> HIDE DEF last
    <2>3. Range(toPage \o last) = Range(toPage) \cup Range(last)
      BY <1>1, <2>1, RangeConcatenation
    <2> QED BY <2>1, <2>2, <2>3
  <1> QED BY <1>2, <1>3, <1>4

LEMMA WorkerHandles ==
    ASSUME HandledInv, page' = page, words' = words,
           toWorker' \in Seq(Requests), Range(toWorker') \subseteq Range(toWorker),
           NEW r \in UnderWay, serving' \subseteq serving \cup {r},
           r.kind \in Slow \/ serving' \subseteq serving,
           NEW outcome \in Outcomes, NEW n \in Nat,
           toPage' = toPage \/ toPage' = Append(toPage, Answer(r, outcome, n))
    PROVE  HandledInv'
  <1>1. /\ toPage' \in Seq(AnswersOf)
        /\ {a.request : a \in Range(toPage')} \subseteq {a.request : a \in Range(toPage)} \cup {r}
    <2>1. CASE toPage' = toPage
      BY <2>1 DEF HandledInv, ChannelInv
    <2>2. CASE toPage' = Append(toPage, Answer(r, outcome, n))
      BY <2>2, AnswersArrive
    <2> QED BY <2>1, <2>2
  <1>2. UnderWay' \subseteq UnderWay
    BY <1>1 DEF UnderWay
  <1>3. IsFiniteSet(serving') /\ \A q \in serving' : q.kind \in Slow
    <2>1. IsFiniteSet(serving \cup {r})
      BY FS_AddElement DEF HandledInv, ChannelInv
    <2> QED BY <2>1, FS_Subset DEF HandledInv, ChannelInv
  <1>4. PageInv(page, UnderWay') /\ ListsOf(page, UnderWay')
    BY <1>2 DEF HandledInv, PageInv, ListsOf
  <1>5. (page.startedFor = Nothing /\ UnderWay = {}) => UnderWay' = {}
    BY <1>2
  <1>6. ChannelInv'
    BY <1>1, <1>3, <1>5 DEF HandledInv, ChannelInv
  <1> QED BY <1>4, <1>6 DEF HandledInv

LEMMA WorkerKeepsVersions ==
    ASSUME HandledInv, VersionInv, page' = page, resident'.revision = resident.revision,
           resident'.undoable = resident.undoable,
           NEW r \in UnderWay, NEW outcome \in Outcomes, NEW n \in Nat,
           r.kind \in Changes => outcome = "failed",
           toPage' = toPage \/ toPage' = Append(toPage, Answer(r, outcome, n))
    PROVE  VersionInv'
  <1>1. \A a : MoveOf(a)' <=> MoveOf(a)
    BY DEF MoveOf
  <1>2. CASE toPage' = toPage
    BY <1>1, <1>2 DEF VersionInv
  <1>3. CASE toPage' = Append(toPage, Answer(r, outcome, n))
    <2> DEFINE a == Answer(r, outcome, n)
    <2>1. /\ Len(toPage') = Len(toPage) + 1 /\ Len(toPage) \in Nat
          /\ toPage'[Len(toPage) + 1] = a /\ a.request = r /\ a.outcome = outcome
          /\ \A i \in 1 .. Len(toPage) : toPage'[i] = toPage[i]
      <3> HIDE DEF a
      <3> QED BY <1>3, AnswersArrive DEF a
    <2>2. ~Moves(a)
      BY <2>1 DEF Moves
    <2> HIDE DEF a
    <2>3. \A i \in 1 .. Len(toPage') : Moves(toPage'[i]) =>
             i \in 1 .. Len(toPage) /\ toPage'[i] = toPage[i]
      BY <2>1, <2>2
    <2>4. \A i \in 1 .. Len(toPage) : i \in 1 .. Len(toPage') /\ toPage'[i] = toPage[i]
      BY <2>1
    <2> QED BY <1>1, <2>3, <2>4 DEF VersionInv
  <1> QED BY <1>2, <1>3

(* An accepted change was made to the revision on screen, so that no other  *)
(* change is on its way to the page.                                        *)
LEMMA WorkerMoves ==
    ASSUME HandledInv, VersionInv, page' = page, NEW r \in UnderWay, r.kind \in Changes,
           r.subject.revision = resident.revision,
           resident.revision < page.setup.revisions,
           resident'.revision = resident.revision + 1,
           resident'.undoable = IF r.kind \in Commits THEN resident.revision + 1 ELSE 0,
           toPage' = Append(toPage, Answer(r, "result", resident.revision + 1))
    PROVE  VersionInv'
  <1> DEFINE a == Answer(r, "result", resident.revision + 1)
  <1>1. /\ page \in Pages /\ page.store.revision \in Nat /\ page.setup.revisions \in Nat
        /\ r.subject.revision <= page.store.revision /\ resident.revision \in Nat
    <2>1. page \in Pages /\ r.subject.revision <= page.store.revision /\ page.store \in Stores
      BY RequestsUnderWay DEF HandledInv, PageInv, RequestOf, StoreInv
    <2>2. page.store.revision \in Nat
      BY <2>1 DEF Stores
    <2>3. page.setup \in AllSetups
      <3> HIDE DEF Stores, Requests, Subjects, AllSetups, Streams
      <3> QED BY <2>1 DEF Pages
    <2>4. page.setup.revisions \in Nat
      BY <2>3 DEF AllSetups
    <2> QED BY <2>1, <2>2, <2>4 DEF VersionInv
  <1>2. page.store.revision = resident.revision
    BY <1>1 DEF VersionInv
  <1>3. \A i \in 1 .. Len(toPage) : ~Moves(toPage[i])
    BY <1>1, <1>2 DEF VersionInv, MoveOf
  <1>4. /\ Len(toPage') = Len(toPage) + 1 /\ Len(toPage) \in Nat
        /\ toPage'[Len(toPage) + 1] = a /\ a.request = r /\ a.outcome = "result"
        /\ a.revision = resident.revision + 1
        /\ \A i \in 1 .. Len(toPage) : toPage'[i] = toPage[i]
    <2>1. "result" \in Outcomes /\ resident.revision + 1 \in Nat
      BY <1>1 DEF Outcomes
    <2> HIDE DEF a
    <2> QED BY <2>1, AnswersArrive DEF a
  <1> HIDE DEF a
  <1>5. /\ Moves(a) /\ a.revision = resident'.revision
        /\ resident'.revision = page'.store.revision + 1
        /\ a.request.subject.revision = page'.store.revision
        /\ resident'.undoable = IF a.request.kind \in Commits THEN resident'.revision ELSE 0
    BY <1>1, <1>2, <1>4 DEF Moves
  <1>6. \A i \in 1 .. Len(toPage') : Moves(toPage'[i]) => i = Len(toPage) + 1
    BY <1>3, <1>4
  <1>7. \A i \in 1 .. Len(toPage') : Moves(toPage'[i]) => toPage'[i] = a
    BY <1>4, <1>6
  <1>8. Len(toPage) + 1 \in 1 .. Len(toPage') /\ Moves(toPage'[Len(toPage) + 1])
    BY <1>4, <1>5
  <1>9. /\ resident'.revision \in Nat /\ resident'.revision <= page'.setup.revisions
        /\ resident'.undoable \in {0, resident'.revision}
        /\ page'.store.revision <= resident'.revision
        /\ page'.store.revision # resident'.revision
    BY <1>1, <1>2
  <1>10. \A i, j \in 1 .. Len(toPage') : Moves(toPage'[i]) /\ Moves(toPage'[j]) => i = j
    BY <1>6
  <1> QED BY <1>5, <1>7, <1>8, <1>9, <1>10 DEF VersionInv, MoveOf

LEMMA WorkerActsKeep ==
    ASSUME PageIInv, WorkerActs
    PROVE  PageIInv'
  <1>1. HandledInv /\ VersionInv /\ resident \in Residents /\ NoCandidate \in Candidates
        /\ "failed" \in Outcomes /\ "cancelled" \in Outcomes /\ "result" \in Outcomes /\ 0 \in Nat
    BY Nothings DEF PageIInv, Outcomes
  <1>2. toWorker \in Seq(Requests)
    BY <1>1 DEF HandledInv, ChannelInv
  <1>3. \A r \in serving : r \in UnderWay /\ r.kind \in Slow
    BY <1>1 DEF HandledInv, ChannelInv, UnderWay
  <1>4. \A kind \in Slow \cup {"list", "cancelFill"} \cup Discards : kind \notin Changes
    BY DEF Slow, Discards, Changes
  <1>5. ASSUME page' = page, words' = words,
               toWorker' = toWorker \/ \E q : TakesRequest(q),
               NEW r \in UnderWay, serving' \subseteq serving \cup {r},
               r.kind \in Slow \/ serving' \subseteq serving,
               NEW outcome \in Outcomes, r.kind \in Changes => outcome = "failed",
               toPage' = toPage \/ toPage' = Append(toPage, Answer(r, outcome, 0)),
               resident' \in Residents,
               resident'.revision = resident.revision, resident'.undoable = resident.undoable
        PROVE  PageIInv'
    <2>1. toWorker' \in Seq(Requests) /\ Range(toWorker') \subseteq Range(toWorker)
      BY <1>1, <1>2, <1>5, RequestsAreTaken
    <2>2. HandledInv'
      BY <1>1, <1>5, <2>1, WorkerHandles
    <2>3. VersionInv'
      BY <1>1, <1>5, WorkerKeepsVersions
    <2> QED BY <1>5, <2>2, <2>3 DEF PageIInv
  <1>6. ASSUME NEW c \in Candidates, NEW v,
               \/ v = [resident EXCEPT !.repairCandidate = c]
               \/ v = [resident EXCEPT !.fillCandidate = c]
        PROVE  /\ v \in Residents /\ v.revision = resident.revision
               /\ v.undoable = resident.undoable
    <2> HIDE DEF Candidates
    <2>1. CASE v = [resident EXCEPT !.repairCandidate = c]
      BY <1>1, <2>1 DEF Residents
    <2>2. CASE v = [resident EXCEPT !.fillCandidate = c]
      BY <1>1, <2>2 DEF Residents
    <2> QED BY <1>6, <2>1, <2>2
  <1>7. \A r \in UnderWay : Candidate(r.token, r.subject, 0) \in Candidates
                            /\ Candidate(r.token, r.subject, r.opening) \in Candidates
    <2> HIDE DEF Subjects
    <2> QED BY <1>1, RequestsUnderWay DEF Candidates, Candidate
  <1>8. \A r : TakesRequest(r) => r \in UnderWay
    BY <1>1, RequestsAreTaken
  <1>9. CASE Refuses
    <2>1. PICK r : /\ TakesRequest(r) /\ r.kind \in Slow \cup {"list"}
                   /\ Answers(r, IF SeesWord(r) THEN "cancelled" ELSE "failed", 0)
                   /\ UNCHANGED <<page, serving, words, resident>>
      BY <1>9 DEF Refuses
    <2>2. (IF SeesWord(r) THEN "cancelled" ELSE "failed") \in Outcomes
      BY <1>1
    <2> QED BY <1>1, <1>4, <1>5, <1>8, <2>1, <2>2 DEF Answers
  <1>10. CASE BeginsServing
    <2>1. PICK r : /\ TakesRequest(r) /\ r.kind \in Slow /\ serving' = serving \cup {r}
                   /\ UNCHANGED <<page, toPage, words, resident>>
      BY <1>10 DEF BeginsServing
    <2> QED BY <1>1, <1>5, <1>8, <2>1
  <1>11. CASE ListsOpenings
    <2>1. PICK r : /\ TakesRequest(r) /\ r.kind = "list" /\ Answers(r, "result", 0)
                   /\ UNCHANGED <<page, serving, words, resident>>
      BY <1>11 DEF ListsOpenings
    <2> QED BY <1>1, <1>4, <1>5, <1>8, <2>1 DEF Answers
  <1>12. CASE DiscardsCandidate
    <2>1. PICK r : /\ TakesRequest(r)
                   /\ resident' \in {[resident EXCEPT !.repairCandidate = NoCandidate],
                                     [resident EXCEPT !.fillCandidate = NoCandidate], resident}
                   /\ UNCHANGED <<page, toPage, serving, words>>
      BY <1>12 DEF DiscardsCandidate
    <2>2. /\ resident' \in Residents /\ resident'.revision = resident.revision
          /\ resident'.undoable = resident.undoable
      <3> HIDE DEF NoCandidate, Residents
      <3> QED BY <1>1, <1>6, <2>1
    <2> QED BY <1>1, <1>5, <1>8, <2>1, <2>2
  <1>13. CASE StopsFill
    <2>1. PICK r : /\ TakesRequest(r) /\ serving' \subseteq serving
                   /\ toPage' = toPage \/ \E q \in serving : q.kind = "fill" /\ Answers(q, "cancelled", 0)
                   /\ UNCHANGED <<page, words, resident>>
      BY <1>13 DEF StopsFill
    <2>2. CASE toPage' = toPage
      BY <1>1, <1>5, <1>8, <2>1, <2>2
    <2>3. ASSUME NEW q \in serving, q.kind = "fill", Answers(q, "cancelled", 0)
          PROVE  PageIInv'
      BY <1>1, <1>3, <1>4, <1>5, <2>1, <2>3 DEF Answers
    <2> QED BY <2>1, <2>2, <2>3
  <1>14. CASE ChangesDocument
    <2>1. PICK r : /\ TakesRequest(r) /\ r.kind \in Changes
                   /\ UNCHANGED <<page, serving, words>>
                   /\ \/ Answers(r, "failed", 0) /\ UNCHANGED resident
                      \/ /\ Acceptable(r) /\ resident.revision < page.setup.revisions
                         /\ resident' =
                              [revision |-> resident.revision + 1,
                               undoable |-> IF r.kind \in Commits
                                            THEN resident.revision + 1 ELSE 0,
                               repairCandidate |-> IF r.kind \in {"commitRepair", "commitEdit"}
                                            THEN NoCandidate ELSE resident.repairCandidate,
                               fillCandidate |-> NoCandidate]
                         /\ Answers(r, "result", resident.revision + 1)
      BY <1>14 DEF ChangesDocument, Commits
    <2>2. CASE Answers(r, "failed", 0) /\ UNCHANGED resident
      BY <1>1, <1>5, <1>8, <2>1, <2>2 DEF Answers
    <2>3. ASSUME Acceptable(r), resident.revision < page.setup.revisions,
                 resident' =
                   [revision |-> resident.revision + 1,
                    undoable |-> IF r.kind \in Commits THEN resident.revision + 1 ELSE 0,
                    repairCandidate |-> IF r.kind \in {"commitRepair", "commitEdit"}
                                        THEN NoCandidate ELSE resident.repairCandidate,
                    fillCandidate |-> NoCandidate],
                 Answers(r, "result", resident.revision + 1)
          PROVE  PageIInv'
      <3>1. /\ resident'.revision = resident.revision + 1
            /\ resident'.undoable = IF r.kind \in Commits THEN resident.revision + 1 ELSE 0
            /\ resident.revision \in Nat /\ resident.revision + 1 \in Nat
        BY <1>1, <2>3 DEF Residents
      <3>2. resident' \in Residents
        <4> HIDE DEF Candidates, NoCandidate, Commits
        <4> QED BY <1>1, <2>3 DEF Residents
      <3>3. toPage' = Append(toPage, Answer(r, "result", resident.revision + 1))
        BY <2>3 DEF Answers
      <3>4. r \in UnderWay /\ r.subject.revision = resident.revision
        BY <1>8, <2>1, <2>3 DEF Acceptable
      <3>5. VersionInv'
        BY <1>1, <2>1, <2>3, <3>1, <3>3, <3>4, WorkerMoves
      <3>6. HandledInv'
        BY <1>1, <2>1, <3>1, <3>3, <3>4, RequestsAreTaken, WorkerHandles
      <3> QED BY <3>2, <3>5, <3>6 DEF PageIInv
    <2> QED BY <2>1, <2>2, <2>3
  <1>15. ASSUME NEW r \in serving,
                ServingFails(r) \/ ReportsOrPlans(r) \/ BuildsFill(r) \/ RegistersRepair(r)
                  \/ BuildsRepair(r)
         PROVE  PageIInv'
    <2>1. r \in UnderWay /\ r.kind \in Slow /\ r.kind \notin Changes
      BY <1>3, <1>4
    <2>2. /\ (IF SeesWord(r) THEN "cancelled" ELSE "failed") \in Outcomes
          /\ (IF Cancelled(r) THEN "cancelled" ELSE "result") \in Outcomes
      BY <1>1
    <2>3. CASE ServingFails(r)
      BY <1>1, <1>5, <2>1, <2>2, <2>3 DEF ServingFails, Answers
    <2>4. CASE ReportsOrPlans(r)
      BY <1>1, <1>5, <2>1, <2>4 DEF ReportsOrPlans, Answers
    <2>5. CASE BuildsRepair(r)
      BY <1>1, <1>5, <2>1, <2>2, <2>5 DEF BuildsRepair, Answers
    <2>6. CASE BuildsFill(r)
      <3>1. /\ resident' \in Residents /\ resident'.revision = resident.revision
            /\ resident'.undoable = resident.undoable
        <4> HIDE DEF Residents
        <4> QED BY <1>6, <1>7, <2>1, <2>6 DEF BuildsFill
      <3> QED BY <1>1, <1>5, <2>1, <2>6, <3>1 DEF BuildsFill, Answers
    <2>7. CASE RegistersRepair(r)
      <3>1. /\ resident' \in Residents /\ resident'.revision = resident.revision
            /\ resident'.undoable = resident.undoable
        <4> HIDE DEF Residents
        <4> QED BY <1>6, <1>7, <2>1, <2>7 DEF RegistersRepair
      <3> QED BY <1>1, <1>5, <2>1, <2>7, <3>1 DEF RegistersRepair
    <2> QED BY <1>15, <2>3, <2>4, <2>5, <2>6, <2>7
  <1> QED BY <1>9, <1>10, <1>11, <1>12, <1>13, <1>14, <1>15 DEF WorkerActs

LEMMA PageActsLeaveTheWorker ==
    ASSUME UserActs \/ PageHears
    PROVE  resident' = resident
  <1>1. \A p, answers : PageBecomes(p, answers) => resident' = resident
    BY DEF PageBecomes
  <1>2. CASE UserActs
    <2>1. \A p : UserDoes(p) => resident' = resident
      BY <1>1 DEF UserDoes
    <2> HIDE DEF UserDoes, PageBecomes
    <2> QED BY <1>2, <2>1 DEF UserActs, SelectsPart, RunsAnalysis, CancelsAnalysis, Replans,
        ChangesSelection, PreviewsRepair, CancelsRepair, DiscardsRepair, AppliesRepair,
        UndoesRepair, SelectsOpening, PreviewsFill, CancelsFillPreview, DiscardsFill,
        AppliesFill, UndoesFill, RetriesListing, AppliesTexture, UndoesTexture
  <1>3. CASE PageHears
    <2>1. \A p : PageReceives(p) => resident' = resident
      BY <1>1 DEF PageReceives
    <2> QED BY <1>1, <1>3, <2>1 DEF PageHears, Imported, ReceivesAnalysis, ReceivesPlan,
        ReceivesRepairCandidate, ReceivesListing, ReceivesFill, ReceivesRepairChange,
        ReceivesFillChange, ReceivesTextureChange
  <1> QED BY <1>2, <1>3
-----------------------------------------------------------------------------
(* The theorems.                                                            *)

LEMMA PageInvariant == Spec => []PageIInv
  <1>1. Init => PageIInv
    <2> SUFFICES ASSUME Init PROVE PageIInv
      OBVIOUS
    <2>1. resident = [revision |-> 1, undoable |-> 0,
                      repairCandidate |-> NoCandidate, fillCandidate |-> NoCandidate]
      BY DEF Init
    <2>2. resident \in Residents
      <3> HIDE DEF Candidates, NoCandidate
      <3> QED BY <2>1, Nothings DEF Residents
    <2> QED BY <2>2, InitHolds DEF PageIInv
  <1>2. PageIInv /\ [Next]_vars => PageIInv'
    <2> SUFFICES ASSUME PageIInv, [Next]_vars PROVE PageIInv'
      OBVIOUS
    <2>1. CASE UserActs \/ PageHears
      <3>1. resident' = resident
        BY <2>1, PageActsLeaveTheWorker
      <3>2. HandledInv' /\ VersionInv'
        BY <2>1, PageActs DEF PageIInv
      <3> QED BY <3>1, <3>2 DEF PageIInv
    <2>2. CASE WorkerActs
      BY <2>2, WorkerActsKeep
    <2>3. CASE UNCHANGED vars
      <3>1. HandledInv'
        BY <2>3 DEF vars, PageIInv, HandledInv, PageInv, ListsOf, ChannelInv, UnderWay
      <3>2. VersionInv'
        BY <2>3 DEF vars, PageIInv, VersionInv, MoveOf
      <3> QED BY <2>3, <3>1, <3>2 DEF vars, PageIInv
    <2> QED BY <2>1, <2>2, <2>3 DEF Next
  <1> QED BY <1>1, <1>2, PTL DEF Spec

(* The revision that the page shows is never ahead of the worker's, the     *)
(* sessions and attempts its hooks remember are numbers, what a handler     *)
(* posted and cancelled has left the page when it returns, and only the     *)
(* slow handlers of the worker await.                                       *)
THEOREM PageTypes == Spec => []TypeOK
  <1>1. PageIInv => TypeOK
    <2> SUFFICES ASSUME PageIInv PROVE TypeOK
      OBVIOUS
    <2>1. /\ PageInv(page, UnderWay) /\ page \in Pages /\ page.store \in Stores
          /\ page.store.part \in page.setup.parts /\ page.out = <<>> /\ page.stop = {}
          /\ \A r \in serving : r.kind \in Slow
      BY DEF PageIInv, HandledInv, PageInv, StoreInv, ChannelInv
    <2>2. /\ {page.repairSession, page.repairActive, page.repairLive, page.fillSession,
              page.fillActive, page.fillLive, page.fillRun, page.analysisSession} \subseteq Nat
          /\ page.setup \in AllSetups
      <3> HIDE DEF Stores, Requests, Subjects, AllSetups, Streams
      <3> QED BY <2>1 DEF Pages
    <2>3. page.setup.revisions \in Nat /\ page.store.revision \in Nat \ {0}
      BY <2>1, <2>2 DEF AllSetups, Stores
    <2>4. /\ resident.revision \in Nat /\ resident.revision <= page.setup.revisions
          /\ resident.undoable \in {0, resident.revision}
          /\ page.store.revision <= resident.revision
      BY DEF PageIInv, VersionInv
    <2>5. /\ page.store.revision \in 1 .. resident.revision
          /\ resident.revision \in 1 .. page.setup.revisions
          /\ resident.undoable \in 0 .. resident.revision
      BY <2>3, <2>4
    <2> QED BY <2>1, <2>2, <2>5 DEF TypeOK
  <1> QED BY <1>1, PageInvariant, PTL

(* Whatever the order of the answers, of the clicks and of the worker's     *)
(* steps: the report, the plan, the list of openings and both previews on   *)
(* screen are of the revision and the part on screen.                       *)
THEOREM ThePageDescribesItsModel == Spec => []DescribesTheModel
  <1>1. PageIInv => DescribesTheModel
    <2> SUFFICES ASSUME PageIInv PROVE DescribesTheModel
      OBVIOUS
    <2>1. /\ AnalysisOf(page.store.analysis, Model(page))
          /\ RepairOf(page.store.repair, Model(page))
          /\ HoleFillOf(page.store.holeFill, Model(page))
      BY DEF PageIInv, HandledInv, PageInv, StoreInv, Model
    <2> HIDE DEF NoCandidate, Nothing
    <2> QED BY <2>1 DEF AnalysisOf, RepairOf, HoleFillOf, DescribesTheModel
  <1> QED BY <1>1, PageInvariant, PTL

LEMMA MovesAreUnderWay ==
    ASSUME PageIInv, ~ChangeUnderWay
    PROVE  page.store.revision = resident.revision
  <1>1. SUFFICES ASSUME page.store.revision # resident.revision PROVE FALSE
    OBVIOUS
  <1>2. PICK i \in 1 .. Len(toPage) : Moves(toPage[i])
    BY <1>1 DEF PageIInv, VersionInv
  <1>3. toPage[i] \in Range(toPage)
    <2> HIDE DEF AnswersOf
    <2>1. toPage \in Seq(AnswersOf)
      BY DEF PageIInv, HandledInv, ChannelInv
    <2>2. i \in DOMAIN toPage
      BY <2>1
    <2> QED BY <2>2 DEF Range
  <1>4. toPage[i].request \in UnderWay /\ toPage[i].request.kind \in Changes
    BY <1>2, <1>3 DEF Moves, UnderWay
  <1> QED BY <1>4 DEF ChangeUnderWay, OfKind

(* No answer that moved the document is ever dropped by the page, so that   *)
(* its next request is not refused as stale.                                *)
THEOREM ThePageFollowsTheWorker == Spec => []ShowsTheResidentRevision
  <1>1. PageIInv => ShowsTheResidentRevision
    BY MovesAreUnderWay DEF ShowsTheResidentRevision
  <1> QED BY <1>1, PageInvariant, PTL

(* Of the Undo buttons of the three tools, one that is offered while no     *)
(* change is under way is for the change the worker can still reverse.      *)
THEOREM UndoIsOfTheLastChange == Spec => []OfferedUndoIsTheLastChange
  <1>1. PageIInv => OfferedUndoIsTheLastChange
    <2> SUFFICES ASSUME PageIInv, ~ChangeUnderWay
                 PROVE  /\ page.store.repair.lastApplied \in {0, resident.undoable}
                        /\ page.store.holeFill.lastApplied \in {0, resident.undoable}
                        /\ TextureUndoOffered(page) => page.edit.record = resident.undoable
      BY DEF OfferedUndoIsTheLastChange
    <2>1. page.store.revision = resident.revision
      BY MovesAreUnderWay
    <2>2. /\ page.store \in Stores /\ page.edit.record \in {0, page.edit.revision}
          /\ page.store.repair.lastApplied \in {0, Shown(page.store).revision}
          /\ page.store.holeFill.lastApplied \in {0, Shown(page.store).revision}
      BY DEF PageIInv, HandledInv, PageInv, StoreInv, RepairOf, HoleFillOf
    <2>3. Shown(page.store).revision = page.store.revision
      BY <2>2, ShownIs
    <2>4. OffersUndo(page) => resident.undoable = resident.revision
      BY <2>1 DEF PageIInv, VersionInv
    <2> QED BY <2>1, <2>2, <2>3, <2>4 DEF OffersUndo, TextureUndoOffered
  <1> QED BY <1>1, PageInvariant, PTL
-----------------------------------------------------------------------------
(* The fills: what the page runs, what the worker does and holds.           *)

IsFill(r) == r.kind = "fill"

IsStop(r) == r.kind = "cancelFill"

StopsIt(x, r) == IsStop(x) /\ x.token = r.token

(* The fills that wait in w and that the worker serves, of which the page   *)
(* runs the one with the token run. Any other is stopped by a message, and  *)
(* a fill waits behind the stop of every fill before it.                    *)
Queue(w, S, run) ==
    /\ \A i \in 1 .. Len(w) : IsStop(w[i]) => w[i].token # run /\ w[i].token # 0
    /\ \A i \in 1 .. Len(w) : IsFill(w[i]) => w[i].token # 0
    /\ \A q \in S : IsFill(q) => q.token # 0
    /\ \A q, r \in S : IsFill(q) /\ IsFill(r) => q = r
    /\ \A q \in S : IsFill(q) /\ q.token # run => \E j \in 1 .. Len(w) : StopsIt(w[j], q)
    /\ \A k \in 1 .. Len(w) : IsFill(w[k]) /\ w[k].token # run =>
         \E j \in 1 .. Len(w) : k < j /\ StopsIt(w[j], w[k])
    /\ \A i \in 1 .. Len(w) : \A q \in S : IsFill(w[i]) /\ IsFill(q) =>
         \E j \in 1 .. Len(w) : j < i /\ StopsIt(w[j], q)
    /\ \A i, k \in 1 .. Len(w) : IsFill(w[i]) /\ IsFill(w[k]) /\ k < i =>
         \E j \in 1 .. Len(w) : k < j /\ j < i /\ StopsIt(w[j], w[k])

NoFill(w, S) == (\A i \in 1 .. Len(w) : ~IsFill(w[i])) /\ \A q \in S : ~IsFill(q)

(* The worker reads a message. A fill is refused or begun.                  *)
LEMMA QueueIsRead ==
    ASSUME NEW T, NEW w \in Seq(T), w # <<>>, NEW S, NEW run, Queue(w, S, run),
           NEW v, v = Tail(w), NEW R,
           \/ ~IsFill(w[1]) /\ ~IsStop(w[1]) /\ R \subseteq S
           \/ IsFill(w[1]) /\ R \subseteq S
           \/ IsFill(w[1]) /\ R = S \cup {w[1]}
           \/ IsStop(w[1]) /\ R \subseteq S /\ \A q \in R : IsFill(q) => q.token # w[1].token,
           \A q \in R : q \in S \/ q = w[1]
    PROVE  /\ Queue(v, R, run)
           /\ IsFill(w[1]) /\ w[1].token = run => NoFill(v, S)
  <1> DEFINE n == Len(v)
  <1>1. /\ n \in Nat /\ Len(w) = n + 1 /\ \A i \in 1 .. n : v[i] = w[i + 1]
    BY DEF n
  <1>2. v \in Seq(T)
    OBVIOUS
  <1> HIDE DEF n
  <1>3. n = Len(v)
    BY DEF n
  <1>4. \A j \in 1 .. n + 1 : j = 1 \/ (j - 1 \in 1 .. n /\ w[j] = v[j - 1])
    BY <1>1
  <1>5. IsFill(w[1]) => ~IsStop(w[1])
    BY DEF IsFill, IsStop
  <1>6. 1 \in 1 .. n + 1 /\ \A i \in 1 .. n : i + 1 \in 1 .. n + 1
    BY <1>1
  <1>7. IsFill(w[1]) => \A q \in S : ~IsFill(q)
    <2> SUFFICES ASSUME IsFill(w[1]), NEW q \in S, IsFill(q) PROVE FALSE
      OBVIOUS
    <2>1. \E j \in 1 .. n + 1 : j < 1
      BY <1>1, <1>6 DEF Queue
    <2> QED BY <1>1, <2>1
  <1>8. /\ \A i \in 1 .. n : IsStop(v[i]) => v[i].token # run /\ v[i].token # 0
        /\ \A i \in 1 .. n : IsFill(v[i]) => v[i].token # 0
        /\ \A q \in R : IsFill(q) => q.token # 0
        /\ \A q, r \in R : IsFill(q) /\ IsFill(r) => q = r
    BY <1>1, <1>6, <1>7 DEF Queue
  <1>9. \A q \in R : IsFill(q) /\ q.token # run => \E j \in 1 .. n : StopsIt(v[j], q)
    <2> SUFFICES ASSUME NEW q \in R, IsFill(q), q.token # run
                 PROVE  \E j \in 1 .. n : StopsIt(v[j], q)
      OBVIOUS
    <2>1. CASE q = w[1]
      <3>1. PICK k \in 1 .. Len(w) : k = 1
        BY <1>1, <1>6
      <3>2. IsFill(w[k]) /\ w[k].token # run
        BY <2>1, <3>1
      <3>3. PICK j \in 1 .. Len(w) : k < j /\ StopsIt(w[j], w[k])
        BY <3>2 DEF Queue
      <3> QED BY <1>1, <1>4, <2>1, <3>1, <3>3
    <2>2. CASE q \in S /\ ~IsFill(w[1])
      <3>1. PICK j \in 1 .. n + 1 : StopsIt(w[j], q)
        BY <1>1, <2>2 DEF Queue
      <3>2. j # 1
        BY <2>2, <3>1 DEF StopsIt
      <3> QED BY <1>4, <3>1, <3>2
    <2> QED BY <1>7, <2>1, <2>2
  <1>10. \A k \in 1 .. n : IsFill(v[k]) /\ v[k].token # run =>
            \E j \in 1 .. n : k < j /\ StopsIt(v[j], v[k])
    <2> SUFFICES ASSUME NEW k \in 1 .. n, IsFill(v[k]), v[k].token # run
                 PROVE  \E j \in 1 .. n : k < j /\ StopsIt(v[j], v[k])
      OBVIOUS
    <2>1. PICK j \in 1 .. n + 1 : k + 1 < j /\ StopsIt(w[j], w[k + 1])
      BY <1>1, <1>6 DEF Queue
    <2>2. k < j - 1 /\ j # 1
      BY <1>1, <2>1
    <2> QED BY <1>1, <1>4, <2>1, <2>2
  <1>11. \A i \in 1 .. n : \A q \in R : IsFill(v[i]) /\ IsFill(q) =>
            \E j \in 1 .. n : j < i /\ StopsIt(v[j], q)
    <2> SUFFICES ASSUME NEW i \in 1 .. n, NEW q \in R, IsFill(v[i]), IsFill(q)
                 PROVE  \E j \in 1 .. n : j < i /\ StopsIt(v[j], q)
      OBVIOUS
    <2>1. CASE q = w[1]
      <3>1. PICK j \in 1 .. n + 1 : 1 < j /\ j < i + 1 /\ StopsIt(w[j], w[1])
        BY <1>1, <1>6, <2>1 DEF Queue
      <3>2. j - 1 < i /\ j # 1
        BY <1>1, <3>1
      <3> QED BY <1>4, <2>1, <3>1, <3>2
    <2>2. CASE q \in S /\ ~IsFill(w[1])
      <3>1. PICK j \in 1 .. n + 1 : j < i + 1 /\ StopsIt(w[j], q)
        BY <1>1, <1>6, <2>2 DEF Queue
      <3>2. j # 1 /\ j - 1 < i
        BY <1>1, <2>2, <3>1 DEF StopsIt
      <3> QED BY <1>4, <3>1, <3>2
    <2> QED BY <1>7, <2>1, <2>2
  <1>12. \A i, k \in 1 .. n : IsFill(v[i]) /\ IsFill(v[k]) /\ k < i =>
            \E j \in 1 .. n : k < j /\ j < i /\ StopsIt(v[j], v[k])
    <2> SUFFICES ASSUME NEW i \in 1 .. n, NEW k \in 1 .. n, IsFill(v[i]), IsFill(v[k]), k < i
                 PROVE  \E j \in 1 .. n : k < j /\ j < i /\ StopsIt(v[j], v[k])
      OBVIOUS
    <2>1. PICK j \in 1 .. n + 1 : k + 1 < j /\ j < i + 1 /\ StopsIt(w[j], w[k + 1])
      <3>1. k + 1 < i + 1
        BY <1>1
      <3> QED BY <1>1, <1>6, <3>1 DEF Queue
    <2>2. k < j - 1 /\ j - 1 < i /\ j # 1
      BY <1>1, <2>1
    <2> QED BY <1>1, <1>4, <2>1, <2>2
  <1>13. IsFill(w[1]) /\ w[1].token = run => NoFill(v, S)
    <2> SUFFICES ASSUME IsFill(w[1]), w[1].token = run, NEW i \in 1 .. n, IsFill(v[i])
                 PROVE  FALSE
      BY <1>3, <1>7 DEF NoFill
    <2>1. PICK j \in 1 .. n + 1 : StopsIt(w[j], w[1])
      <3>1. 1 < i + 1
        BY <1>1
      <3> QED BY <1>1, <1>6, <3>1 DEF Queue
    <2> QED BY <1>1, <2>1 DEF Queue, StopsIt
  <1>14. Queue(v, R, run)
    <2>1. /\ \A i \in 1 .. Len(v) : IsStop(v[i]) => v[i].token # run /\ v[i].token # 0
          /\ \A i \in 1 .. Len(v) : IsFill(v[i]) => v[i].token # 0
      BY <1>3, <1>8
    <2> QED BY <1>3, <1>8, <1>9, <1>10, <1>11, <1>12, <2>1 DEF Queue
  <1> QED BY <1>13, <1>14

LEMMA QueueIsServed ==
    ASSUME NEW w, NEW S, NEW run, Queue(w, S, run),
           NEW R, \A q \in R : IsFill(q) => q \in S
    PROVE  /\ Queue(w, R, run)
           /\ \A r \in S : IsFill(r) /\ r.token = run => NoFill(w, S \ {r})
           /\ NoFill(w, S) => NoFill(w, R)
  <1>1. Queue(w, R, run)
    BY DEF Queue
  <1>2. ASSUME NEW r \in S, IsFill(r), r.token = run PROVE NoFill(w, S \ {r})
    <2>1. \A q \in S \ {r} : ~IsFill(q)
      BY <1>2 DEF Queue
    <2>2. ASSUME NEW i \in 1 .. Len(w), IsFill(w[i]) PROVE FALSE
      <3>1. PICK j \in 1 .. Len(w) : StopsIt(w[j], r)
        BY <1>2, <2>2 DEF Queue
      <3> QED BY <1>2, <3>1 DEF Queue, StopsIt
    <2> QED BY <2>1, <2>2 DEF NoFill
  <1>3. NoFill(w, S) => NoFill(w, R)
    BY DEF NoFill
  <1> QED BY <1>1, <1>2, <1>3

LEMMA QueueRunEnds ==
    ASSUME NEW w, NEW S, NEW run, Queue(w, S, run), NoFill(w, S)
    PROVE  Queue(w, S, 0)
  BY DEF Queue, NoFill

(* The page posts a message. A stop is of the fill it runs; a fill is       *)
(* posted while it runs none.                                               *)
LEMMA QueueIsPosted ==
    ASSUME NEW T, NEW w \in Seq(T), NEW x \in T, NEW S, NEW run, Queue(w, S, run), NEW now,
           \/ ~IsFill(x) /\ ~IsStop(x) /\ now = run
           \/ IsStop(x) /\ x.token = run /\ run # 0 /\ now = 0
           \/ /\ IsFill(x) /\ x.token = now /\ run = 0 /\ now # 0
              /\ \A i \in 1 .. Len(w) : IsStop(w[i]) => w[i].token # now,
           NEW v, v = Append(w, x)
    PROVE  /\ Queue(v, S, now)
           /\ ~IsFill(x) /\ NoFill(w, S) => NoFill(v, S)
  <1> DEFINE n == Len(w)
  <1>1. /\ n \in Nat /\ Len(v) = n + 1 /\ v[n + 1] = x /\ \A i \in 1 .. n : v[i] = w[i]
    BY DEF n
  <1>2. \A i \in 1 .. n + 1 : i = n + 1 \/ i \in 1 .. n
    BY <1>1
  <1>3. \A i \in 1 .. n : i \in 1 .. n + 1 /\ i < n + 1
    BY <1>1
  <1>4. n + 1 \in 1 .. n + 1
    BY <1>1
  <1>5. /\ \A i \in 1 .. n : IsStop(w[i]) => w[i].token # run /\ w[i].token # 0
        /\ \A i \in 1 .. n : IsFill(w[i]) => w[i].token # 0
        /\ \A q \in S : IsFill(q) => q.token # 0
        /\ \A q, r \in S : IsFill(q) /\ IsFill(r) => q = r
        /\ \A q \in S : IsFill(q) /\ q.token # run => \E j \in 1 .. n : StopsIt(w[j], q)
        /\ \A k \in 1 .. n : IsFill(w[k]) /\ w[k].token # run =>
             \E j \in 1 .. n : k < j /\ StopsIt(w[j], w[k])
        /\ \A i \in 1 .. n : \A q \in S : IsFill(w[i]) /\ IsFill(q) =>
             \E j \in 1 .. n : j < i /\ StopsIt(w[j], q)
        /\ \A i, k \in 1 .. n : IsFill(w[i]) /\ IsFill(w[k]) /\ k < i =>
             \E j \in 1 .. n : k < j /\ j < i /\ StopsIt(w[j], w[k])
    BY DEF Queue
  <1> HIDE DEF n
  <1>6. /\ IsFill(x) => ~IsStop(x)
        /\ IsFill(x) => run = 0 /\ x.token = now /\ now # 0
        /\ IsStop(x) => now = 0 /\ x.token = run /\ run # 0
        /\ ~IsFill(x) /\ ~IsStop(x) => now = run
        /\ IsFill(x) => \A i \in 1 .. n : IsStop(w[i]) => w[i].token # now
    BY DEF IsFill, IsStop, n
  <1>7. /\ \A i \in 1 .. n + 1 : IsStop(v[i]) => v[i].token # now /\ v[i].token # 0
        /\ \A i \in 1 .. n + 1 : IsFill(v[i]) => v[i].token # 0
    BY <1>1, <1>2, <1>5, <1>6
  <1>8. \A q \in S : IsFill(q) /\ q.token # now => \E j \in 1 .. n + 1 : StopsIt(v[j], q)
    <2> SUFFICES ASSUME NEW q \in S, IsFill(q), q.token # now
                 PROVE  \E j \in 1 .. n + 1 : StopsIt(v[j], q)
      OBVIOUS
    <2>1. CASE q.token # run
      BY <1>1, <1>3, <1>5, <2>1
    <2>2. CASE q.token = run
      BY <1>1, <1>4, <1>5, <1>6, <2>2 DEF StopsIt
    <2> QED BY <2>1, <2>2
  <1>9. \A k \in 1 .. n + 1 : IsFill(v[k]) /\ v[k].token # now =>
           \E j \in 1 .. n + 1 : k < j /\ StopsIt(v[j], v[k])
    <2> SUFFICES ASSUME NEW k \in 1 .. n, IsFill(w[k]), w[k].token # now
                 PROVE  \E j \in 1 .. n + 1 : k < j /\ StopsIt(v[j], w[k])
      BY <1>1, <1>2, <1>6
    <2>1. CASE w[k].token # run
      BY <1>1, <1>3, <1>5, <2>1
    <2>2. CASE w[k].token = run
      BY <1>1, <1>3, <1>4, <1>5, <1>6, <2>2 DEF StopsIt
    <2> QED BY <2>1, <2>2
  <1>10. \A i \in 1 .. n + 1 : \A q \in S : IsFill(v[i]) /\ IsFill(q) =>
            \E j \in 1 .. n + 1 : j < i /\ StopsIt(v[j], q)
    <2> SUFFICES ASSUME NEW i \in 1 .. n + 1, NEW q \in S, IsFill(v[i]), IsFill(q)
                 PROVE  \E j \in 1 .. n + 1 : j < i /\ StopsIt(v[j], q)
      OBVIOUS
    <2>1. CASE i \in 1 .. n
      BY <1>1, <1>3, <1>5, <2>1
    <2>2. CASE i = n + 1
      BY <1>1, <1>3, <1>5, <1>6, <2>2
    <2> QED BY <1>2, <2>1, <2>2
  <1>11. \A i, k \in 1 .. n + 1 : IsFill(v[i]) /\ IsFill(v[k]) /\ k < i =>
            \E j \in 1 .. n + 1 : k < j /\ j < i /\ StopsIt(v[j], v[k])
    <2> SUFFICES ASSUME NEW i \in 1 .. n + 1, NEW k \in 1 .. n + 1,
                        IsFill(v[i]), IsFill(v[k]), k < i
                 PROVE  \E j \in 1 .. n + 1 : k < j /\ j < i /\ StopsIt(v[j], v[k])
      OBVIOUS
    <2>0. k \in 1 .. n
      BY <1>1
    <2>1. CASE i \in 1 .. n
      BY <1>1, <1>3, <1>5, <2>0, <2>1
    <2>2. CASE i = n + 1
      <3>1. IsFill(w[k]) /\ w[k].token # run
        BY <1>1, <1>5, <1>6, <2>0, <2>2
      <3>2. PICK j \in 1 .. n : k < j /\ StopsIt(w[j], w[k])
        BY <1>5, <2>0, <3>1
      <3> QED BY <1>1, <1>3, <2>0, <2>2, <3>2
    <2> QED BY <1>2, <2>1, <2>2
  <1>12. ~IsFill(x) /\ NoFill(w, S) => NoFill(v, S)
    BY <1>1, <1>2 DEF NoFill, n
  <1>13. /\ \A q \in S : IsFill(q) => q.token # 0
         /\ \A q, r \in S : IsFill(q) /\ IsFill(r) => q = r
    BY <1>5
  <1> QED BY <1>1, <1>7, <1>8, <1>9, <1>10, <1>11, <1>12, <1>13 DEF Queue

(* The worker holds the candidate c, or a change it made is not yet seen.   *)
Held(c, held, A) == held = c \/ \E i \in 1 .. Len(A) : Moves(A[i])

Previewed(h, run, w, S, A, held) ==
    /\ h.workState = "ready" <=> h.candidate # NoCandidate
    /\ h.workState = "ready" =>
         h.candidate.id # 0 /\ run = 0 /\ NoFill(w, S) /\ Held(h.candidate, held, A)

(* No candidate is discarded that is shown, or may yet be.                  *)
Discarded(h, run, live, w) ==
    /\ \A i \in 1 .. Len(w) : w[i].kind = "discardFill" =>
         w[i].id # 0 /\ w[i].id # run /\ w[i].id # h.candidate.id
    /\ live # 0 => live # run

(* The fill that the page runs is over for the worker.                      *)
Returned(run, revision, w, S, A, held) ==
    \A i \in 1 .. Len(A) : IsFill(A[i].request) /\ A[i].request.token = run =>
        /\ NoFill(w, S)
        /\ A[i].outcome = "result" /\ A[i].request.subject.revision = revision
             => Held(Candidate(run, A[i].request.subject, A[i].request.opening), held, A)

AskedBefore(R, revision) ==
    \A r \in R : IsFill(r) => r.token # 0 /\ r.subject.revision <= revision

(* w are the messages to the worker, those included that the handler posts, *)
(* S the handlers of the worker that await, A the answers, held the fill    *)
(* candidate that the worker holds, R the requests.                         *)
FillsOf(p, w, S, A, held, R) ==
    /\ Queue(w, S, p.fillRun)
    /\ Previewed(p.store.holeFill, p.fillRun, w, S, A, held)
    /\ Discarded(p.store.holeFill, p.fillRun, p.fillLive, w)
    /\ Returned(p.fillRun, p.store.revision, w, S, A, held)
    /\ AskedBefore(R, p.store.revision)
    /\ p.store.revision \in Nat

(* The page shows the fill it showed, or none any more.                     *)
KeepsFill(p, q) ==
    LET h == p.store.holeFill
        g == q.store.holeFill
    IN
    /\ q.fillRun = p.fillRun /\ q.fillLive \in {0, p.fillLive}
    /\ q.store.revision = p.store.revision
    /\ \/ g.workState = h.workState /\ g.candidate = h.candidate
       \/ g.workState # "ready" /\ g.candidate = NoCandidate

LEMMA FillsKept ==
    ASSUME NEW p, NEW w, NEW S, NEW A, NEW held, NEW R, FillsOf(p, w, S, A, held, R),
           NEW q, KeepsFill(p, q)
    PROVE  FillsOf(q, w, S, A, held, R)
  <1>1. NoCandidate.id = 0
    BY Nothings
  <1>2. Previewed(q.store.holeFill, q.fillRun, w, S, A, held)
    BY DEF FillsOf, Previewed, KeepsFill
  <1>3. Discarded(q.store.holeFill, q.fillRun, q.fillLive, w)
    BY <1>1 DEF FillsOf, Discarded, KeepsFill
  <1> QED BY <1>2, <1>3 DEF FillsOf, KeepsFill

(* A message that is neither a fill nor the stop of one.                    *)
LEMMA FillsPosted ==
    ASSUME NEW T, NEW w \in Seq(T), NEW S, NEW A, NEW held, NEW R,
           NEW p, FillsOf(p, w, S, A, held, R),
           NEW x \in T, ~IsFill(x), ~IsStop(x),
           x.kind = "discardFill" =>
             x.id # 0 /\ x.id # p.fillRun /\ x.id # p.store.holeFill.candidate.id
    PROVE  FillsOf(p, Append(w, x), S, A, held, R \cup {x})
  <1> DEFINE v == Append(w, x)
  <1>1. Queue(v, S, p.fillRun) /\ (NoFill(w, S) => NoFill(v, S))
    BY QueueIsPosted DEF FillsOf
  <1>2. \A i \in 1 .. Len(v) : v[i] = x \/ \E j \in 1 .. Len(w) : v[i] = w[j]
    OBVIOUS
  <1> HIDE DEF v
  <1>3. Previewed(p.store.holeFill, p.fillRun, v, S, A, held)
    BY <1>1 DEF FillsOf, Previewed
  <1>4. Discarded(p.store.holeFill, p.fillRun, p.fillLive, v)
    BY <1>2 DEF FillsOf, Discarded
  <1>5. Returned(p.fillRun, p.store.revision, v, S, A, held)
    BY <1>1 DEF FillsOf, Returned
  <1>6. AskedBefore(R \cup {x}, p.store.revision)
    BY DEF FillsOf, AskedBefore
  <1>7. FillsOf(p, v, S, A, held, R \cup {x})
    BY <1>1, <1>3, <1>4, <1>5, <1>6 DEF FillsOf
  <1> QED BY <1>7 DEF v

(* The fill that runs is stopped, and nothing is shown in its place.        *)
LEMMA FillsStopped ==
    ASSUME NEW T, NEW w \in Seq(T), NEW S, NEW A, NEW held, NEW R,
           NEW p, FillsOf(p, w, S, A, held, R), p.fillRun # 0,
           NEW x \in T, IsStop(x), x.token = p.fillRun,
           NEW q, q.store = p.store, q.fillRun = 0, q.fillLive = p.fillLive,
           \A i \in 1 .. Len(A) : A[i].request \in R
    PROVE  FillsOf(q, Append(w, x), S, A, held, R \cup {x})
  <1> DEFINE v == Append(w, x)
  <1>1. Queue(v, S, 0)
    BY QueueIsPosted DEF FillsOf
  <1>2. \A i \in 1 .. Len(v) : v[i] = x \/ \E j \in 1 .. Len(w) : v[i] = w[j]
    OBVIOUS
  <1> HIDE DEF v
  <1>3. ~IsFill(x) /\ x.kind # "discardFill"
    BY DEF IsFill, IsStop
  <1>4. Previewed(p.store.holeFill, 0, v, S, A, held)
    BY DEF FillsOf, Previewed
  <1>5. Discarded(p.store.holeFill, 0, p.fillLive, v)
    BY <1>2, <1>3 DEF FillsOf, Discarded
  <1>6. Returned(0, p.store.revision, v, S, A, held)
    BY DEF FillsOf, Returned, AskedBefore
  <1>7. AskedBefore(R \cup {x}, p.store.revision)
    BY <1>3 DEF FillsOf, AskedBefore
  <1>8. FillsOf(q, v, S, A, held, R \cup {x})
    BY <1>1, <1>4, <1>5, <1>6, <1>7 DEF FillsOf
  <1> QED BY <1>8 DEF v

(* A fill is asked for, under a token that nothing has.                     *)
LEMMA FillsBegun ==
    ASSUME NEW T, NEW w \in Seq(T), NEW S, NEW A, NEW held, NEW R,
           NEW p, FillsOf(p, w, S, A, held, R), p.fillRun = 0,
           NEW token, token # 0, \A r \in R : r.kind \in {"fill", "cancelFill", "discardFill"}
                                   => r.token # token /\ r.id # token,
           \A i \in 1 .. Len(A) : A[i].request \in R, \A i \in 1 .. Len(w) : w[i] \in R,
           NEW x \in T, IsFill(x), x.token = token, x.subject.revision = p.store.revision,
           NEW q, q.store.revision = p.store.revision, q.store.holeFill.workState # "ready",
           q.store.holeFill.candidate = NoCandidate,
           q.fillRun = token, q.fillLive = p.fillLive, p.fillLive # token
    PROVE  FillsOf(q, Append(w, x), S, A, held, R \cup {x})
  <1> DEFINE v == Append(w, x)
  <1>0. NoCandidate.id = 0
    BY Nothings
  <1>1. Queue(v, S, token)
    <2>1. \A i \in 1 .. Len(w) : IsStop(w[i]) => w[i].token # token
      BY DEF IsStop
    <2> QED BY <2>1, QueueIsPosted DEF FillsOf
  <1>2. \A i \in 1 .. Len(v) : v[i] = x \/ \E j \in 1 .. Len(w) : v[i] = w[j]
    OBVIOUS
  <1> HIDE DEF v
  <1>3. x.kind # "discardFill"
    BY DEF IsFill
  <1>4. Previewed(q.store.holeFill, token, v, S, A, held)
    BY DEF Previewed
  <1>5. Discarded(q.store.holeFill, token, p.fillLive, v)
    BY <1>0, <1>2, <1>3 DEF FillsOf, Discarded
  <1>6. Returned(token, p.store.revision, v, S, A, held)
    BY DEF Returned, IsFill
  <1>7. AskedBefore(R \cup {x}, p.store.revision)
    BY DEF FillsOf, AskedBefore
  <1>8. FillsOf(q, v, S, A, held, R \cup {x})
    BY <1>1, <1>4, <1>5, <1>6, <1>7 DEF FillsOf
  <1> QED BY <1>8 DEF v

(* The page hears an answer that is not of a change.                        *)
LEMMA FillsHeard ==
    ASSUME NEW T, NEW A \in Seq(T), A # <<>>, ~Moves(A[1]),
           NEW p, NEW w, NEW S, NEW held, NEW R, FillsOf(p, w, S, A, held, R)
    PROVE  /\ FillsOf(p, w, S, Tail(A), held, R)
           /\ \A c : Held(c, held, A) => Held(c, held, Tail(A))
  <1> DEFINE B == Tail(A)
  <1>1. /\ Len(A) \in Nat /\ Len(B) = Len(A) - 1
        /\ \A i \in 1 .. Len(B) : i + 1 \in 1 .. Len(A) /\ B[i] = A[i + 1]
        /\ \A i \in 1 .. Len(A) : i = 1 \/ (i - 1 \in 1 .. Len(B) /\ A[i] = B[i - 1])
    OBVIOUS
  <1> HIDE DEF B
  <1>2. \A c : Held(c, held, A) => Held(c, held, B)
    BY <1>1 DEF Held
  <1>3. Previewed(p.store.holeFill, p.fillRun, w, S, B, held)
    BY <1>2 DEF FillsOf, Previewed
  <1>4. Returned(p.fillRun, p.store.revision, w, S, B, held)
    BY <1>1, <1>2 DEF FillsOf, Returned
  <1>5. FillsOf(p, w, S, B, held, R)
    BY <1>3, <1>4 DEF FillsOf
  <1> QED BY <1>2, <1>5 DEF B

(* A change is put on screen: the fills asked for are of an earlier         *)
(* revision.                                                                *)
LEMMA FillsInstalled ==
    ASSUME NEW T, NEW A \in Seq(T), A # <<>>,
           NEW p, NEW w, NEW S, NEW held, NEW R, FillsOf(p, w, S, A, held, R),
           \A i \in 1 .. Len(A) : A[i].request \in R,
           \A r \in R : r.subject.revision \in Nat,
           NEW q, q.store.revision \in Nat, q.store.revision > p.store.revision,
           q.store.holeFill.workState # "ready", q.store.holeFill.candidate = NoCandidate,
           q.fillRun = p.fillRun, q.fillLive \in {0, p.fillLive}
    PROVE  FillsOf(q, w, S, Tail(A), held, R)
  <1> DEFINE B == Tail(A)
  <1>1. /\ Len(A) \in Nat /\ Len(B) = Len(A) - 1
        /\ \A i \in 1 .. Len(B) : i + 1 \in 1 .. Len(A) /\ B[i] = A[i + 1]
    OBVIOUS
  <1> HIDE DEF B
  <1>2. Previewed(q.store.holeFill, q.fillRun, w, S, B, held)
    BY DEF Previewed
  <1>3. Discarded(q.store.holeFill, q.fillRun, q.fillLive, w)
    BY Nothings DEF FillsOf, Discarded
  <1>4. AskedBefore(R, q.store.revision)
    <2> SUFFICES ASSUME NEW r \in R, IsFill(r)
                 PROVE  r.token # 0 /\ r.subject.revision <= q.store.revision
      BY DEF AskedBefore
    <2>1. r.token # 0 /\ r.subject.revision <= p.store.revision
      BY DEF FillsOf, AskedBefore
    <2> QED BY <2>1 DEF FillsOf
  <1>5. Returned(q.fillRun, q.store.revision, w, S, B, held)
    <2> SUFFICES ASSUME NEW i \in 1 .. Len(B), IsFill(B[i].request),
                        B[i].request.token = p.fillRun
                 PROVE  NoFill(w, S) /\ B[i].request.subject.revision # q.store.revision
      BY DEF Returned
    <2>1. NoFill(w, S) /\ B[i].request \in R
      BY <1>1 DEF FillsOf, Returned
    <2>2. /\ B[i].request.subject.revision <= p.store.revision
          /\ B[i].request.subject.revision \in Nat
      BY <2>1 DEF FillsOf, AskedBefore
    <2> QED BY <2>1, <2>2 DEF FillsOf
  <1>6. FillsOf(q, w, S, B, held, R)
    BY <1>2, <1>3, <1>4, <1>5 DEF FillsOf
  <1> QED BY <1>6 DEF B

(* The answer of the fill that the page runs. The candidate is shown, or    *)
(* it is not.                                                               *)
LEMMA FillsReturned ==
    ASSUME NEW T, NEW A \in Seq(T), A # <<>>, IsFill(A[1].request),
           NEW p, NEW w, NEW S, NEW held, NEW R, FillsOf(p, w, S, A, held, R),
           A[1].request.token = p.fillRun, \A i \in 1 .. Len(A) : A[i].request \in R,
           NEW q, q.fillRun = 0, q.store.revision = p.store.revision,
           \/ q.store.holeFill = p.store.holeFill /\ q.fillLive \in {0, p.fillLive}
           \/ /\ q.store.holeFill.workState # "ready" /\ q.fillLive \in {0, p.fillLive}
              /\ q.store.holeFill.candidate = NoCandidate
           \/ /\ q.store.holeFill.workState = "ready" /\ q.fillLive = p.fillRun
              /\ A[1].outcome = "result" /\ A[1].request.subject.revision = p.store.revision
              /\ q.store.holeFill.candidate
                   = Candidate(p.fillRun, A[1].request.subject, A[1].request.opening)
    PROVE  FillsOf(q, w, S, Tail(A), held, R) /\ p.fillRun # 0
  <1> DEFINE B == Tail(A)
             c == Candidate(p.fillRun, A[1].request.subject, A[1].request.opening)
  <1>1. /\ 1 \in 1 .. Len(A) /\ ~Moves(A[1])
        /\ \A i \in 1 .. Len(B) : i + 1 \in 1 .. Len(A) /\ B[i] = A[i + 1]
    BY DEF Moves, IsFill, Changes
  <1>2. p.fillRun # 0
    BY <1>1 DEF FillsOf, AskedBefore
  <1>3. /\ FillsOf(p, w, S, B, held, R)
        /\ \A x : Held(x, held, A) => Held(x, held, B)
    BY <1>1, FillsHeard
  <1> HIDE DEF B
  <1>4. /\ NoFill(w, S)
        /\ A[1].outcome = "result" /\ A[1].request.subject.revision = p.store.revision
             => Held(c, held, B)
    BY <1>1, <1>3 DEF FillsOf, Returned
  <1>5. Queue(w, S, 0)
    BY <1>4, QueueRunEnds DEF FillsOf
  <1>6. c.id = p.fillRun /\ c # NoCandidate /\ NoCandidate.id = 0
    BY <1>2, Nothings DEF Candidate
  <1> HIDE DEF c
  <1>7. Previewed(q.store.holeFill, 0, w, S, B, held)
    BY <1>2, <1>3, <1>4, <1>6 DEF FillsOf, Previewed, c
  <1>8. Discarded(q.store.holeFill, 0, q.fillLive, w)
    BY <1>2, <1>3, <1>6 DEF FillsOf, Discarded, c
  <1>9. Returned(0, p.store.revision, w, S, B, held)
    BY <1>1 DEF FillsOf, Returned, AskedBefore
  <1>10. FillsOf(q, w, S, B, held, R)
    BY <1>5, <1>7, <1>8, <1>9 DEF FillsOf
  <1> QED BY <1>2, <1>10 DEF B
-----------------------------------------------------------------------------
(* The fills inside a handler.                                              *)

PageFields ==
    {"setup", "store", "out", "stop", "startedFor", "plannedFor", "analysisSession",
     "repairSession", "repairActive", "repairLive", "fillSession", "fillActive",
     "fillLive", "fillRun", "edit"}

StoreFields ==
    {"revision", "part", "analysis", "analysisToken", "repair", "repairToken",
     "holeFill", "holeFillToken"}

HoleFillFields ==
    {"inventory", "rows", "selected", "workState", "candidate", "commitState", "lastApplied"}

ShapedStore(s) == DOMAIN s = StoreFields /\ DOMAIN s.holeFill = HoleFillFields

Shaped(p) == DOMAIN p = PageFields /\ ShapedStore(p.store)

(* What an operation on the store does to the fill it shows.                *)
SameFill(s, t) ==
    /\ t.holeFill.workState = s.holeFill.workState
    /\ t.holeFill.candidate = s.holeFill.candidate

DropsFill(t) == t.holeFill.workState # "ready" /\ t.holeFill.candidate = NoCandidate

ShownFill(s, t) ==
    ShapedStore(t) /\ t.revision = s.revision /\ (SameFill(s, t) \/ DropsFill(t))

LEMMA OtherSlices ==
    ASSUME NEW s, ShapedStore(s), NEW token, NEW subject, NEW state, NEW c,
           NEW t \in {BeginAnalysis(s, token), CommitAnalysis(s, token, subject),
                      FailAnalysis(s, token), CancelAnalysis(s, token),
                      BeginRepairPlan(s, token), CommitRepairPlan(s, token, subject),
                      FailRepairPlan(s, token), SetRepairSelection(s),
                      BeginRepairCandidate(s, token), CommitRepairCandidate(s, c),
                      EndRepairCandidate(s, token, state), BeginRepairCancellation(s, token),
                      ClearRepairCandidate(s), BeginRepairChange(s, state),
                      FailRepairChange(s)}
    PROVE  ShownFill(s, t)
  <1> USE DEF ShownFill, SameFill, ShapedStore, StoreFields
  <1>1. t \in {BeginAnalysis(s, token), CommitAnalysis(s, token, subject),
               FailAnalysis(s, token), CancelAnalysis(s, token)} => ShownFill(s, t)
    BY DEF BeginAnalysis, CommitAnalysis, FailAnalysis, CancelAnalysis
  <1>2. t \in {BeginRepairPlan(s, token), CommitRepairPlan(s, token, subject),
               FailRepairPlan(s, token), SetRepairSelection(s)} => ShownFill(s, t)
    BY DEF BeginRepairPlan, CommitRepairPlan, FailRepairPlan, SetRepairSelection
  <1>3. t \in {BeginRepairCandidate(s, token), CommitRepairCandidate(s, c),
               EndRepairCandidate(s, token, state), BeginRepairCancellation(s, token)}
          => ShownFill(s, t)
    BY DEF BeginRepairCandidate, CommitRepairCandidate, EndRepairCandidate,
        BeginRepairCancellation
  <1>4. t \in {ClearRepairCandidate(s), BeginRepairChange(s, state), FailRepairChange(s)}
          => ShownFill(s, t)
    BY DEF ClearRepairCandidate, BeginRepairChange, FailRepairChange
  <1> QED BY <1>1, <1>2, <1>3, <1>4

LEMMA FillSlice ==
    ASSUME NEW s, ShapedStore(s), NEW token, NEW subject, NEW state, state # "ready", NEW opening,
           s.holeFill.workState # "ready" => s.holeFill.candidate = NoCandidate
    PROVE  /\ \A t \in {BeginHoleFillListing(s, token), CommitHoleFillListing(s, token, subject),
                        FailHoleFillListing(s, token), SelectBoundaryLoop(s, opening),
                        BeginHoleFillCancellation(s, token),
                        EndHoleFillCandidate(s, token, state), ClearHoleFillCandidate(s),
                        BeginHoleFillChange(s, state), FailHoleFillChange(s)} : ShownFill(s, t)
           /\ \A t \in {BeginHoleFillCandidate(s, token), ClearHoleFillCandidate(s)} :
                ShownFill(s, t) /\ DropsFill(t)
           /\ s.holeFill.selected # opening => DropsFill(SelectBoundaryLoop(s, opening))
           /\ \A c : LET t == CommitHoleFillCandidate(s, c)
                     IN  /\ ShapedStore(t) /\ t.revision = s.revision
                         /\ t.holeFill.workState = "ready" /\ t.holeFill.candidate = c
  <1> HIDE DEF NoCandidate
  <1> USE DEF ShownFill, SameFill, DropsFill, ShapedStore, StoreFields, HoleFillFields,
              WithoutFillCandidate
  <1>1. \A t : t = BeginHoleFillListing(s, token) => ShownFill(s, t)
    <2> DEFINE h == [s.holeFill EXCEPT !.inventory = "listing", !.rows = Nothing, !.selected = 0]
               t == BeginHoleFillListing(s, token)
    <2>1. t = WithHoleFill(s, token, h)
      BY DEF BeginHoleFillListing, WithHoleFill
    <2>2. /\ DOMAIN h = HoleFillFields /\ h.workState = s.holeFill.workState
          /\ h.candidate = s.holeFill.candidate
      OBVIOUS
    <2> HIDE DEF h, t
    <2> QED BY <2>1, <2>2 DEF WithHoleFill, t
  <1>2. \A t : t = CommitHoleFillListing(s, token, subject) => ShownFill(s, t)
    BY DEF CommitHoleFillListing
  <1>3. \A t : t = FailHoleFillListing(s, token) => ShownFill(s, t)
    BY DEF FailHoleFillListing
  <1>4. /\ \A t : t = SelectBoundaryLoop(s, opening) => ShownFill(s, t)
        /\ s.holeFill.selected # opening => DropsFill(SelectBoundaryLoop(s, opening))
    BY ZenonT(30) DEF SelectBoundaryLoop
  <1>5. \A t : t = BeginHoleFillCancellation(s, token) => ShownFill(s, t)
    BY DEF BeginHoleFillCancellation
  <1>6. \A t : t = EndHoleFillCandidate(s, token, state) => ShownFill(s, t)
    BY DEF EndHoleFillCandidate
  <1>7. \A t : t = ClearHoleFillCandidate(s) => ShownFill(s, t) /\ DropsFill(t)
    BY DEF ClearHoleFillCandidate
  <1>8. \A t : t = BeginHoleFillChange(s, state) \/ t = FailHoleFillChange(s) => ShownFill(s, t)
    BY DEF BeginHoleFillChange, FailHoleFillChange
  <1>9. \A t : t = BeginHoleFillCandidate(s, token) => ShownFill(s, t) /\ DropsFill(t)
    BY ZenonT(30) DEF BeginHoleFillCandidate
  <1>10. \A c, t : t = CommitHoleFillCandidate(s, c) =>
            /\ ShapedStore(t) /\ t.revision = s.revision
            /\ t.holeFill.workState = "ready" /\ t.holeFill.candidate = c
    <2> SUFFICES ASSUME NEW c
                 PROVE  LET t == CommitHoleFillCandidate(s, c)
                        IN  /\ ShapedStore(t) /\ t.revision = s.revision
                            /\ t.holeFill.workState = "ready" /\ t.holeFill.candidate = c
      OBVIOUS
    <2> DEFINE h == [s.holeFill EXCEPT !.workState = "ready", !.candidate = c]
               t == CommitHoleFillCandidate(s, c)
    <2>1. t = WithHoleFill(s, 0, h)
      BY DEF CommitHoleFillCandidate, WithHoleFill
    <2>2. DOMAIN h = HoleFillFields /\ h.workState = "ready" /\ h.candidate = c
      OBVIOUS
    <2> HIDE DEF h, t
    <2> QED BY <2>1, <2>2 DEF WithHoleFill, t
  <1> QED BY <1>1, <1>2, <1>3, <1>4, <1>5, <1>6, <1>7, <1>8, <1>9, <1>10

(* Another model is shown, and no fill.                                     *)
LEMMA FillsOfAnotherModel ==
    ASSUME NEW s, ShapedStore(s), NEW part, NEW revision
    PROVE  /\ ShownFill(s, SelectPart(s, part)) /\ DropsFill(SelectPart(s, part))
           /\ \A t \in {ApplyRepairResult(s, revision), ApplyUndoResult(s, revision),
                        ApplyHoleFillResult(s, revision), ApplyGeometryEditResult(s, revision)} :
                ShapedStore(t) /\ t.revision = revision /\ DropsFill(t)
  <1> HIDE DEF NoCandidate, EmptyAnalysis, EmptyRepair
  <1> USE DEF ShownFill, SameFill, DropsFill, ShapedStore, StoreFields, HoleFillFields,
              EmptyHoleFill
  <1>1. \A t : t = SelectPart(s, part) => ShownFill(s, t) /\ DropsFill(t)
    BY DEF SelectPart
  <1>2. \A t : t = Install(s, revision) =>
            ShapedStore(t) /\ t.revision = revision /\ t.holeFill = EmptyHoleFill
    BY DEF Install
  <1>3. \A t : t = ApplyRepairResult(s, revision) =>
            ShapedStore(t) /\ t.revision = revision /\ DropsFill(t)
    BY <1>2 DEF ApplyRepairResult
  <1>4. \A t : t = ApplyUndoResult(s, revision) =>
            ShapedStore(t) /\ t.revision = revision /\ DropsFill(t)
    BY <1>2 DEF ApplyUndoResult
  <1>5. \A t : t = ApplyHoleFillResult(s, revision) =>
            ShapedStore(t) /\ t.revision = revision /\ DropsFill(t)
    BY <1>2 DEF ApplyHoleFillResult
  <1>6. \A t : t = ApplyGeometryEditResult(s, revision) =>
            ShapedStore(t) /\ t.revision = revision /\ DropsFill(t)
    BY <1>2 DEF ApplyGeometryEditResult
  <1> QED BY <1>1, <1>3, <1>4, <1>5, <1>6

(* In a handler that has yet to post what p.out holds, and leaves the       *)
(* answers A.                                                               *)
FillsIn(p, A) ==
    /\ Shaped(p)
    /\ \E T : toWorker \in Seq(T) /\ p.out \in Seq(T)
    /\ \A i \in 1 .. Len(A) : A[i].request \in UnderWay
    /\ FillsOf(p, toWorker \o p.out, serving, A, resident.fillCandidate,
               UnderWay \cup Range(p.out))

LEMMA InKept ==
    ASSUME NEW p, NEW A, FillsIn(p, A), NEW q, Shaped(q), q.out = p.out, KeepsFill(p, q)
    PROVE  FillsIn(q, A)
  BY FillsKept DEF FillsIn

(* An operation on the store, and what the hooks remember.                  *)
LEMMA InStored ==
    ASSUME NEW p, NEW A, FillsIn(p, A), NEW q, DOMAIN q = PageFields, q.out = p.out,
           q.fillRun = p.fillRun, q.fillLive \in {0, p.fillLive}, ShownFill(p.store, q.store)
    PROVE  FillsIn(q, A)
  BY InKept DEF Shaped, KeepsFill, ShownFill, SameFill, DropsFill

LEMMA SentOnce ==
    ASSUME NEW T, NEW w \in Seq(T), NEW o \in Seq(T), NEW x
    PROVE  /\ w \o Append(o, x) = Append(w \o o, x)
           /\ Range(Append(o, x)) = Range(o) \cup {x}
           /\ Append(o, x) \in Seq(T \cup {x}) /\ w \in Seq(T \cup {x})
           /\ w \o o \in Seq(T \cup {x})
  <1>1. w \in Seq(T \cup {x}) /\ o \in Seq(T \cup {x}) /\ x \in T \cup {x}
    OBVIOUS
  <1>2. Append(o, x) \in Seq(T \cup {x}) /\ w \o o \in Seq(T \cup {x})
    BY <1>1
  <1>3. w \o Append(o, x) = Append(w \o o, x)
    BY <1>1
  <1>4. Range(Append(o, x)) = Range(o) \cup {x}
    <2>1. /\ Len(o) \in Nat /\ DOMAIN o = 1 .. Len(o)
          /\ DOMAIN Append(o, x) = 1 .. (Len(o) + 1)
          /\ Append(o, x)[Len(o) + 1] = x
          /\ \A i \in 1 .. Len(o) : Append(o, x)[i] = o[i]
      OBVIOUS
    <2>2. \A i \in 1 .. (Len(o) + 1) : i \in 1 .. Len(o) \/ i = Len(o) + 1
      BY <2>1
    <2>3. Len(o) + 1 \in 1 .. (Len(o) + 1) /\ \A i \in 1 .. Len(o) : i \in 1 .. (Len(o) + 1)
      BY <2>1
    <2> QED BY <2>1, <2>2, <2>3 DEF Range
  <1> QED BY <1>1, <1>2, <1>3, <1>4

LEMMA InPosted ==
    ASSUME NEW p, NEW A, FillsIn(p, A), NEW x, ~IsFill(x), ~IsStop(x),
           x.kind = "discardFill" =>
             x.id # 0 /\ x.id # p.fillRun /\ x.id # p.store.holeFill.candidate.id,
           NEW q, q = Post(p, x)
    PROVE  FillsIn(q, A) /\ q.store = p.store /\ q.fillRun = p.fillRun
  <1>1. PICK T : toWorker \in Seq(T) /\ p.out \in Seq(T)
    BY DEF FillsIn
  <1> DEFINE o == Append(p.out, x)
             w == toWorker \o p.out
  <1>2. /\ toWorker \o o = Append(w, x) /\ Range(o) = Range(p.out) \cup {x}
        /\ o \in Seq(T \cup {x}) /\ toWorker \in Seq(T \cup {x}) /\ w \in Seq(T \cup {x})
    <2>1. \A b \in Seq(T) : \A c \in Seq(T) :
            /\ b \o Append(c, x) = Append(b \o c, x)
            /\ Range(Append(c, x)) = Range(c) \cup {x}
            /\ Append(c, x) \in Seq(T \cup {x}) /\ b \in Seq(T \cup {x})
            /\ b \o c \in Seq(T \cup {x})
      BY SentOnce
    <2> QED BY <1>1, <2>1, Zenon
  <1>3. /\ DOMAIN q = PageFields /\ q.out = o /\ q.store = p.store /\ q.fillRun = p.fillRun
        /\ q.fillLive = p.fillLive
    <2> HIDE DEF o
    <2> QED BY DEF Post, FillsIn, Shaped, PageFields, o
  <1> HIDE DEF o, w
  <1>4. FillsOf(p, Append(w, x), serving, A, resident.fillCandidate,
                (UnderWay \cup Range(p.out)) \cup {x})
    <2>1. x \in T \cup {x}
      OBVIOUS
    <2> QED BY <1>2, <2>1, FillsPosted DEF FillsIn, w
  <1>5. KeepsFill(p, q) /\ Shaped(q)
    BY <1>3 DEF KeepsFill, Shaped, FillsIn
  <1>6. FillsOf(q, toWorker \o o, serving, A, resident.fillCandidate, UnderWay \cup Range(o))
    <2>1. UnderWay \cup Range(o) = (UnderWay \cup Range(p.out)) \cup {x}
      BY <1>2
    <2> QED BY <1>2, <1>4, <1>5, <2>1, FillsKept
  <1> QED BY <1>2, <1>3, <1>5, <1>6 DEF FillsIn

(* What the handlers do about a fill that runs or is shown.                 *)
LEMMA InDisposed ==
    ASSUME NEW p, NEW A, FillsIn(p, A), NEW q, q = DisposeFill(p)
    PROVE  /\ FillsIn(q, A) /\ q.store = p.store /\ q.fillRun = 0 /\ q.fillLive = p.fillLive
           /\ q.fillSession = p.fillSession
           /\ \A y \in Range(q.out) :
                y \in Range(p.out) \/ (y.token = p.fillRun /\ y.id = 0)
  <1>1. CASE p.fillRun = 0
    BY <1>1 DEF DisposeFill
  <1>2. CASE p.fillRun # 0
    <2> DEFINE x == Request("cancelFill", p.fillRun, Nothing, 0, 0)
               o == Append(p.out, x)
               w == toWorker \o p.out
    <2>1. PICK T : toWorker \in Seq(T) /\ p.out \in Seq(T)
      BY DEF FillsIn
    <2>2. /\ toWorker \o o = Append(w, x) /\ Range(o) = Range(p.out) \cup {x}
          /\ o \in Seq(T \cup {x}) /\ toWorker \in Seq(T \cup {x}) /\ w \in Seq(T \cup {x})
      <3>1. \A y : \A b \in Seq(T) : \A c \in Seq(T) :
              /\ b \o Append(c, y) = Append(b \o c, y)
              /\ Range(Append(c, y)) = Range(c) \cup {y}
              /\ Append(c, y) \in Seq(T \cup {y}) /\ b \in Seq(T \cup {y})
              /\ b \o c \in Seq(T \cup {y})
        BY SentOnce
      <3> HIDE DEF x
      <3> QED BY <2>1, <3>1, Zenon
    <2>3. IsStop(x) /\ x.token = p.fillRun /\ x.id = 0
      BY DEF IsStop, Request
    <2> HIDE DEF x
    <2>4. /\ DOMAIN q = PageFields /\ q.out = o /\ q.store = p.store /\ q.fillRun = 0
          /\ q.fillLive = p.fillLive /\ q.fillSession = p.fillSession
      <3> DEFINE n == p.stop \cup ({<<"fill", p.fillRun>>} \ {<<"fill", 0>>})
                 u == [p EXCEPT !.stop = n]
                 v == [u EXCEPT !.fillRun = 0]
      <3>1. /\ DOMAIN u = PageFields /\ u.out = p.out /\ u.store = p.store
            /\ u.fillLive = p.fillLive /\ u.fillSession = p.fillSession
        <4> HIDE DEF n
        <4> QED BY DEF FillsIn, Shaped, PageFields
      <3>2. q = Post(v, x)
        BY <1>2 DEF DisposeFill, Stop, x
      <3> HIDE DEF u
      <3>3. /\ DOMAIN v = PageFields /\ v.out = p.out /\ v.store = p.store /\ v.fillRun = 0
            /\ v.fillLive = p.fillLive /\ v.fillSession = p.fillSession
        BY <3>1 DEF PageFields
      <3> HIDE DEF v, o
      <3> QED BY <3>2, <3>3 DEF Post, PageFields, o
    <2> HIDE DEF o, w
    <2>5. \A i \in 1 .. Len(A) : A[i].request \in UnderWay \cup Range(p.out)
      BY DEF FillsIn
    <2>6. FillsOf(q, Append(w, x), serving, A, resident.fillCandidate,
                  (UnderWay \cup Range(p.out)) \cup {x})
      <3>1. x \in T \cup {x} /\ FillsOf(p, w, serving, A, resident.fillCandidate,
                                       UnderWay \cup Range(p.out))
        BY DEF FillsIn, w
      <3> QED BY <1>2, <2>2, <2>3, <2>4, <2>5, <3>1, FillsStopped, ZenonT(30)
    <2>7. UnderWay \cup Range(o) = (UnderWay \cup Range(p.out)) \cup {x}
      BY <2>2
    <2>8. FillsOf(q, toWorker \o q.out, serving, A, resident.fillCandidate,
                  UnderWay \cup Range(q.out))
      BY <2>2, <2>4, <2>6, <2>7
    <2>9. Shaped(q)
      BY <2>4 DEF FillsIn, Shaped
    <2>10. FillsIn(q, A)
      <3>1. toWorker \in Seq(T \cup {x}) /\ q.out \in Seq(T \cup {x})
        BY <2>2, <2>4
      <3> QED BY <2>8, <2>9, <3>1 DEF FillsIn
    <2> QED BY <2>2, <2>3, <2>4, <2>10
  <1> QED BY <1>1, <1>2

LEMMA InReleased ==
    ASSUME NEW p, NEW A, FillsIn(p, A), NEW id,
           id # 0 => id # p.fillRun /\ id # p.store.holeFill.candidate.id,
           NEW q, q = ReleaseFillCandidate(p, id)
    PROVE  /\ FillsIn(q, A) /\ q.store = p.store /\ q.fillRun = p.fillRun
           /\ p.fillLive = id => q.fillLive = 0
  <1>1. CASE id = 0
    BY <1>1 DEF ReleaseFillCandidate
  <1>2. CASE id # 0
    <2> DEFINE n == IF p.fillLive = id THEN 0 ELSE p.fillLive
               v == [p EXCEPT !.fillLive = n]
               x == Request("discardFill", 0, Nothing, 0, id)
    <2>1. /\ DOMAIN v = PageFields /\ v.out = p.out /\ v.store = p.store
          /\ v.fillRun = p.fillRun /\ v.fillLive = n
      <3> HIDE DEF n
      <3> QED BY DEF FillsIn, Shaped, PageFields
    <2>2. q = Post(v, x)
      <3>1. v = [p EXCEPT !.fillLive = IF @ = id THEN 0 ELSE @]
        BY DEF FillsIn, Shaped, PageFields
      <3> QED BY <1>2, <3>1 DEF ReleaseFillCandidate
    <2>3. ~IsFill(x) /\ ~IsStop(x) /\ x.id = id
      BY DEF IsFill, IsStop, Request
    <2>4. n \in {0, p.fillLive} /\ (p.fillLive = id => n = 0)
      OBVIOUS
    <2> HIDE DEF v, x, n
    <2>5. FillsIn(v, A)
      <3>1. Shaped(v) /\ KeepsFill(p, v)
        BY <2>1, <2>4 DEF FillsIn, Shaped, KeepsFill
      <3> QED BY <2>1, <3>1, InKept
    <2>6. q.fillLive = v.fillLive
      <3> DEFINE o == Append(v.out, x)
      <3>1. q = [v EXCEPT !.out = o]
        BY <2>2 DEF Post
      <3> HIDE DEF o
      <3> QED BY <2>1, <3>1 DEF PageFields
    <2>7. FillsIn(q, A) /\ q.store = v.store /\ q.fillRun = v.fillRun
      BY <1>2, <2>1, <2>2, <2>3, <2>5, InPosted
    <2> QED BY <2>1, <2>4, <2>6, <2>7
  <1> QED BY <1>1, <1>2

LEMMA InSession ==
    ASSUME NEW p, NEW A, FillsIn(p, A), NEW q, q = CancelFillSession(p)
    PROVE  /\ FillsIn(q, A) /\ q.store = p.store /\ q.fillRun \in {0, p.fillRun}
           /\ p.fillRun = 0 => q.fillRun = 0
  <1>1. ASSUME NEW u, FillsIn(u, A), NEW v, v = [u EXCEPT !.fillSession = 0]
        PROVE  FillsIn(v, A) /\ v.store = u.store /\ v.fillRun = u.fillRun
    <2>1. /\ DOMAIN v = PageFields /\ v.out = u.out /\ v.store = u.store
          /\ v.fillRun = u.fillRun /\ v.fillLive = u.fillLive
      BY <1>1 DEF FillsIn, Shaped, PageFields
    <2>2. Shaped(v) /\ KeepsFill(u, v)
      BY <1>1, <2>1 DEF FillsIn, Shaped, KeepsFill
    <2> QED BY <1>1, <2>1, <2>2, InKept
  <1> DEFINE u == DisposeFill(p)
  <1>2. FillsIn(u, A) /\ u.store = p.store /\ u.fillRun = 0
    <2> HIDE DEF u
    <2> QED BY InDisposed DEF u
  <1>3. q = [u EXCEPT !.fillSession = 0] \/ q = [p EXCEPT !.fillSession = 0]
    BY DEF CancelFillSession
  <1> HIDE DEF u
  <1> QED BY <1>1, <1>2, <1>3

LEMMA InRejected ==
    ASSUME NEW p, NEW A, FillsIn(p, A), NEW token, NEW q, q = FillRejected(p, token)
    PROVE  FillsIn(q, A)
  <1> DEFINE t == EndHoleFillCandidate(p.store, token, "cancelled")
  <1>1. q = [p EXCEPT !.store = t, !.fillSession = 0, !.fillActive = 0]
    BY DEF FillRejected
  <1>2. ShownFill(p.store, t)
    <2>1. /\ ShapedStore(p.store)
          /\ p.store.holeFill.workState # "ready" => p.store.holeFill.candidate = NoCandidate
      BY DEF FillsIn, Shaped, FillsOf, Previewed
    <2> HIDE DEF t
    <2> QED BY <2>1, FillSlice DEF t
  <1> HIDE DEF t
  <1>3. /\ DOMAIN q = PageFields /\ q.out = p.out /\ q.store = t
        /\ q.fillRun = p.fillRun /\ q.fillLive = p.fillLive
    BY <1>1 DEF FillsIn, Shaped, PageFields
  <1> QED BY <1>2, <1>3, InStored

LEMMA InCancelled ==
    ASSUME NEW p, NEW A, FillsIn(p, A), NEW b, NEW q, q = ThenRejected(b, p)
    PROVE  FillsIn(q, A)
  <1>1. q = p \/ q = FillRejected(p, b.fillRun)
    BY DEF ThenRejected
  <1> QED BY <1>1, InRejected

(* Work that is started, and what the effects start.                        *)
LEMMA InStopped ==
    ASSUME NEW p, NEW A, FillsIn(p, A), NEW stream, NEW token, NEW q, q = Stop(p, stream, token)
    PROVE  FillsIn(q, A) /\ q.store = p.store /\ q.fillRun = p.fillRun
  <1> DEFINE n == p.stop \cup ({<<stream, token>>} \ {<<stream, 0>>})
  <1>1. q = [p EXCEPT !.stop = n]
    BY DEF Stop
  <1> HIDE DEF n
  <1>2. /\ DOMAIN q = PageFields /\ q.out = p.out /\ q.store = p.store
        /\ q.fillRun = p.fillRun /\ q.fillLive = p.fillLive
    BY <1>1 DEF FillsIn, Shaped, PageFields
  <1>3. Shaped(q) /\ KeepsFill(p, q)
    BY <1>2 DEF FillsIn, Shaped, KeepsFill
  <1> QED BY <1>2, <1>3, InKept

LEMMA InAsked ==
    ASSUME NEW p, NEW A, FillsIn(p, A), NEW kind, kind \notin {"fill", "cancelFill", "discardFill"},
           NEW token, NEW subject, NEW opening, NEW id,
           NEW q, q = Post(p, Request(kind, token, subject, opening, id))
    PROVE  FillsIn(q, A) /\ q.store = p.store /\ q.fillRun = p.fillRun
  <1> DEFINE x == Request(kind, token, subject, opening, id)
  <1>1. ~IsFill(x) /\ ~IsStop(x) /\ x.kind # "discardFill"
    BY DEF IsFill, IsStop, Request
  <1> HIDE DEF x
  <1> QED BY <1>1, InPosted DEF x

LEMMA InStarts ==
    ASSUME NEW p, NEW A, FillsIn(p, A),
           NEW q \in {StartAnalysis(p), ListOpenings(p), StartPlan(p)}
    PROVE  FillsIn(q, A)
  <1>1. /\ ShapedStore(p.store)
        /\ p.store.holeFill.workState # "ready" => p.store.holeFill.candidate = NoCandidate
    BY DEF FillsIn, Shaped, FillsOf, Previewed
  <1>2. CASE q = StartAnalysis(p)
    <2> DEFINE token == Fresh(p, "analysis")
               u == Stop(p, "analysis", p.analysisSession)
               t == BeginAnalysis(u.store, token)
               v == [u EXCEPT !.store = t, !.analysisSession = token]
    <2>1. q = Post(v, Request("analyze", token, Model(p), 0, 0))
      BY <1>2 DEF StartAnalysis
    <2> HIDE DEF u, token
    <2>2. FillsIn(u, A) /\ u.store = p.store
      BY InStopped DEF u
    <2>3. ShownFill(u.store, t)
      <3> HIDE DEF t
      <3> QED BY <1>1, <2>2, OtherSlices DEF t
    <2> HIDE DEF t
    <2>4. /\ DOMAIN v = PageFields /\ v.out = u.out /\ v.store = t
          /\ v.fillRun = u.fillRun /\ v.fillLive = u.fillLive
      BY <2>2 DEF FillsIn, Shaped, PageFields
    <2> HIDE DEF v
    <2>5. FillsIn(v, A)
      BY <2>2, <2>3, <2>4, InStored
    <2> QED BY <2>1, <2>5, InAsked
  <1>3. CASE q = ListOpenings(p)
    <2> DEFINE token == Fresh(p, "fill")
               t == BeginHoleFillListing(p.store, token)
               v == [p EXCEPT !.store = t]
    <2>1. q = Post(v, Request("list", token, Model(p), 0, 0))
      BY <1>3 DEF ListOpenings
    <2> HIDE DEF token
    <2>2. ShownFill(p.store, t)
      <3>1. "idle" # "ready"
        OBVIOUS
      <3> HIDE DEF t
      <3> QED BY <1>1, <3>1, FillSlice DEF t
    <2> HIDE DEF t
    <2>3. /\ DOMAIN v = PageFields /\ v.out = p.out /\ v.store = t
          /\ v.fillRun = p.fillRun /\ v.fillLive = p.fillLive
      BY DEF FillsIn, Shaped, PageFields
    <2> HIDE DEF v
    <2>4. FillsIn(v, A)
      BY <2>2, <2>3, InStored
    <2> QED BY <2>1, <2>4, InAsked
  <1>4. CASE q = StartPlan(p)
    <2> DEFINE token == Fresh(p, "repair")
               u == Stop(p, "repair", p.repairSession)
               t == BeginRepairPlan(u.store, token)
               v == [u EXCEPT !.store = t, !.repairSession = token]
    <2>1. q = Post(v, Request("plan", token, Model(p), 0, 0))
      BY <1>4 DEF StartPlan
    <2> HIDE DEF u, token
    <2>2. FillsIn(u, A) /\ u.store = p.store
      BY InStopped DEF u
    <2>3. ShownFill(u.store, t)
      <3> HIDE DEF t
      <3> QED BY <1>1, <2>2, OtherSlices DEF t
    <2> HIDE DEF t
    <2>4. /\ DOMAIN v = PageFields /\ v.out = u.out /\ v.store = t
          /\ v.fillRun = u.fillRun /\ v.fillLive = u.fillLive
      BY <2>2 DEF FillsIn, Shaped, PageFields
    <2> HIDE DEF v
    <2>5. FillsIn(v, A)
      BY <2>2, <2>3, <2>4, InStored
    <2> QED BY <2>1, <2>5, InAsked
  <1> QED BY <1>2, <1>3, <1>4

LEMMA InEffects ==
    ASSUME NEW p, NEW A, FillsIn(p, A), NEW q, q = Effects(p)
    PROVE  FillsIn(q, A)
  <1>1. ASSUME NEW u, FillsIn(u, A), NEW m,
               NEW v \in {[u EXCEPT !.startedFor = m], [u EXCEPT !.plannedFor = m]}
        PROVE  FillsIn(v, A)
    <2>1. /\ DOMAIN v = PageFields /\ v.out = u.out /\ v.store = u.store
          /\ v.fillRun = u.fillRun /\ v.fillLive = u.fillLive
      BY <1>1 DEF FillsIn, Shaped, PageFields
    <2>2. Shaped(v) /\ KeepsFill(u, v)
      BY <1>1, <2>1 DEF FillsIn, Shaped, KeepsFill
    <2> QED BY <1>1, <2>1, <2>2, InKept
  <1> DEFINE s == SubjectEffects(p)
  <1>2. FillsIn(s, A)
    <2> DEFINE b == [p EXCEPT !.startedFor = Model(p)]
               a == StartAnalysis(b)
    <2>1. s \in {p, ListOpenings(a), a}
      BY DEF SubjectEffects
    <2> HIDE DEF s
    <2>2. FillsIn(b, A)
      BY <1>1
    <2> HIDE DEF b
    <2>3. FillsIn(a, A)
      BY <2>2, InStarts
    <2> HIDE DEF a
    <2>4. FillsIn(ListOpenings(a), A)
      BY <2>3, InStarts
    <2> QED BY <2>1, <2>3, <2>4
  <1>3. q = PlanEffect(s)
    BY DEF Effects
  <1> HIDE DEF s
  <1> DEFINE b == [s EXCEPT !.plannedFor = Model(s)]
  <1>4. q \in {s, [s EXCEPT !.plannedFor = Nothing], StartPlan(b)}
    BY <1>3 DEF PlanEffect
  <1>5. FillsIn(b, A)
    BY <1>1, <1>2
  <1> HIDE DEF b
  <1>6. FillsIn(StartPlan(b), A)
    BY <1>5, InStarts
  <1>7. FillsIn([s EXCEPT !.plannedFor = Nothing], A)
    BY <1>1, <1>2
  <1> QED BY <1>2, <1>4, <1>6, <1>7
-----------------------------------------------------------------------------
(* What the user does leaves the fills in order.                            *)

LEMMA InSlice ==
    ASSUME NEW p, NEW A, FillsIn(p, A), NEW t, ShownFill(p.store, t),
           NEW q, q = [p EXCEPT !.store = t]
    PROVE  /\ FillsIn(q, A) /\ q.store = t /\ q.fillRun = p.fillRun /\ q.fillLive = p.fillLive
           /\ q.out = p.out /\ DOMAIN q = PageFields
  <1>1. /\ DOMAIN q = PageFields /\ q.out = p.out /\ q.store = t
        /\ q.fillRun = p.fillRun /\ q.fillLive = p.fillLive
    BY DEF FillsIn, Shaped, PageFields
  <1> QED BY <1>1, InStored

LEMMA InShown ==
    ASSUME NEW p, NEW A, FillsIn(p, A)
    PROVE  /\ ShapedStore(p.store) /\ DOMAIN p = PageFields
           /\ p.store.holeFill.workState # "ready" => p.store.holeFill.candidate = NoCandidate
           /\ p.store.holeFill.workState = "ready" =>
                p.fillRun = 0 /\ p.store.holeFill.candidate.id # 0
  BY DEF FillsIn, Shaped, FillsOf, Previewed

LEMMA InReleasedRepair ==
    ASSUME NEW p, NEW A, FillsIn(p, A), NEW q, q = ReleaseRepairCandidate(p)
    PROVE  FillsIn(q, A) /\ q.store = p.store /\ q.fillRun = p.fillRun
  <1>1. CASE p.repairLive = 0
    BY <1>1 DEF ReleaseRepairCandidate
  <1>2. CASE p.repairLive # 0
    <2> DEFINE v == [p EXCEPT !.repairLive = 0]
    <2>1. /\ DOMAIN v = PageFields /\ v.out = p.out /\ v.store = p.store
          /\ v.fillRun = p.fillRun /\ v.fillLive = p.fillLive
      BY DEF FillsIn, Shaped, PageFields
    <2>2. q = Post(v, Request("discardRepair", 0, Nothing, 0, p.repairLive))
      BY <1>2 DEF ReleaseRepairCandidate
    <2> HIDE DEF v
    <2>3. FillsIn(v, A)
      <3>1. Shaped(v) /\ KeepsFill(p, v)
        BY <2>1 DEF FillsIn, Shaped, KeepsFill
      <3> QED BY <2>1, <3>1, InKept
    <2>4. FillsIn(q, A) /\ q.store = v.store /\ q.fillRun = v.fillRun
      <3>1. "discardRepair" \notin {"fill", "cancelFill", "discardFill"}
        OBVIOUS
      <3> QED BY <2>2, <2>3, <3>1, InAsked
    <2> QED BY <2>1, <2>4
  <1> QED BY <1>1, <1>2

LEMMA RepairActionsKeepFills ==
    ASSUME FillsIn(page, toPage),
           \/ SelectsPart \/ RunsAnalysis \/ CancelsAnalysis \/ Replans \/ ChangesSelection
           \/ PreviewsRepair \/ CancelsRepair \/ DiscardsRepair \/ AppliesRepair \/ UndoesRepair
    PROVE  \E p : PageBecomes(p, toPage) /\ FillsIn(p, toPage)
  <1> DEFINE A == toPage
  <1>1. \A p : UserDoes(p) => PageBecomes(p, toPage)
    BY DEF UserDoes
  <1> HIDE DEF PageBecomes, UserDoes
  <1>2. CASE SelectsPart
    <2>1. PICK part : UserDoes([page EXCEPT !.store = SelectPart(@, part)])
      BY <1>2 DEF SelectsPart
    <2> DEFINE t == SelectPart(page.store, part)
               p == [page EXCEPT !.store = t]
    <2>2. UserDoes(p)
      BY <2>1
    <2>3. ShownFill(page.store, t)
      <3>1. ShapedStore(page.store)
        BY InShown
      <3> QED BY <3>1, FillsOfAnotherModel
    <2> HIDE DEF p, t
    <2>4. FillsIn(p, A)
      BY <2>3, InSlice DEF p
    <2> QED BY <1>1, <2>2, <2>4
  <1>3. CASE RunsAnalysis \/ Replans
    <2>1. \E p \in {StartAnalysis(page), StartPlan(page)} : UserDoes(p)
      BY <1>3 DEF RunsAnalysis, Replans
    <2>2. \A p \in {StartAnalysis(page), StartPlan(page)} : FillsIn(p, A)
      BY InStarts
    <2> QED BY <1>1, <2>1, <2>2
  <1>4. CASE CancelsAnalysis
    <2>1. UserDoes(Stop(page, "analysis", page.analysisSession))
      BY <1>4 DEF CancelsAnalysis
    <2>2. FillsIn(Stop(page, "analysis", page.analysisSession), A)
      BY InStopped
    <2> QED BY <1>1, <2>1, <2>2
  <1>5. CASE ChangesSelection
    <2> DEFINE u == ReleaseRepairCandidate(page)
               t == SetRepairSelection(u.store)
               p == [u EXCEPT !.store = t, !.plannedFor = Nothing]
    <2>1. UserDoes(p)
      BY <1>5 DEF ChangesSelection
    <2> HIDE DEF u
    <2>2. FillsIn(u, A)
      BY InReleasedRepair DEF u
    <2>3. ShownFill(u.store, t)
      <3>1. ShapedStore(u.store)
        BY <2>2, InShown
      <3> HIDE DEF t
      <3> QED BY <3>1, OtherSlices DEF t
    <2> HIDE DEF t
    <2>4. /\ DOMAIN p = PageFields /\ p.out = u.out /\ p.store = t
          /\ p.fillRun = u.fillRun /\ p.fillLive = u.fillLive
      BY <2>2 DEF FillsIn, Shaped, PageFields
    <2> HIDE DEF p
    <2>5. FillsIn(p, A)
      BY <2>2, <2>3, <2>4, InStored
    <2> QED BY <1>1, <2>1, <2>5
  <1>6. CASE PreviewsRepair
    <2> DEFINE u == ReleaseRepairCandidate(page)
               token == Fresh(u, "repair")
               t == BeginRepairCandidate(u.store, token)
               v == [u EXCEPT !.store = t, !.repairActive = token, !.repairSession = token]
               p == Post(v, Request("build", token, Model(page), 0, 0))
    <2>1. UserDoes(p)
      BY <1>6 DEF PreviewsRepair
    <2> HIDE DEF u, token
    <2>2. FillsIn(u, A)
      BY InReleasedRepair DEF u
    <2>3. ShownFill(u.store, t)
      <3>1. ShapedStore(u.store)
        BY <2>2, InShown
      <3> HIDE DEF t
      <3> QED BY <3>1, OtherSlices DEF t
    <2> HIDE DEF t
    <2>4. /\ DOMAIN v = PageFields /\ v.out = u.out /\ v.store = t
          /\ v.fillRun = u.fillRun /\ v.fillLive = u.fillLive
      BY <2>2 DEF FillsIn, Shaped, PageFields
    <2> HIDE DEF v
    <2>5. FillsIn(v, A)
      BY <2>2, <2>3, <2>4, InStored
    <2> HIDE DEF p
    <2>6. FillsIn(p, A)
      <3>1. "build" \notin {"fill", "cancelFill", "discardFill"}
        OBVIOUS
      <3> QED BY <2>5, <3>1, InAsked DEF p
    <2> QED BY <1>1, <2>1, <2>6
  <1>7. CASE CancelsRepair
    <2> DEFINE u == Stop(page, "repair", page.repairSession)
               t == BeginRepairCancellation(u.store, page.repairActive)
               p == [u EXCEPT !.store = t]
    <2>1. UserDoes(p)
      BY <1>7 DEF CancelsRepair
    <2> HIDE DEF u
    <2>2. FillsIn(u, A)
      BY InStopped DEF u
    <2>3. ShownFill(u.store, t)
      <3>1. ShapedStore(u.store)
        BY <2>2, InShown
      <3> HIDE DEF t
      <3> QED BY <3>1, OtherSlices DEF t
    <2> HIDE DEF t, p
    <2>4. FillsIn(p, A)
      BY <2>2, <2>3, InSlice DEF p
    <2> QED BY <1>1, <2>1, <2>4
  <1>8. CASE DiscardsRepair
    <2> DEFINE u == Stop(page, "repair", page.repairSession)
               t == ClearRepairCandidate(u.store)
               v == [u EXCEPT !.store = t]
               p == ReleaseRepairCandidate(v)
    <2>1. UserDoes(p)
      BY <1>8 DEF DiscardsRepair
    <2> HIDE DEF u
    <2>2. FillsIn(u, A)
      BY InStopped DEF u
    <2>3. ShownFill(u.store, t)
      <3>1. ShapedStore(u.store)
        BY <2>2, InShown
      <3> HIDE DEF t
      <3> QED BY <3>1, OtherSlices DEF t
    <2> HIDE DEF t, v
    <2>4. FillsIn(v, A)
      BY <2>2, <2>3, InSlice DEF v
    <2> HIDE DEF p
    <2>5. FillsIn(p, A)
      BY <2>4, InReleasedRepair DEF p
    <2> QED BY <1>1, <2>1, <2>5
  <1>9. ASSUME NEW state, NEW kind, kind \in {"commitRepair", "undoRepair"}, NEW subject, NEW id,
               NEW p, p = Post([page EXCEPT !.store = BeginRepairChange(page.store, state)],
                               Request(kind, 0, subject, 0, id))
        PROVE  FillsIn(p, A)
    <2> DEFINE t == BeginRepairChange(page.store, state)
               v == [page EXCEPT !.store = t]
    <2>1. p = Post(v, Request(kind, 0, subject, 0, id))
      BY <1>9
    <2>2. ShownFill(page.store, t)
      <3>1. ShapedStore(page.store)
        BY InShown
      <3> HIDE DEF t
      <3> QED BY <3>1, OtherSlices DEF t
    <2> HIDE DEF t, v
    <2>3. FillsIn(v, A)
      BY <2>2, InSlice DEF v
    <2> QED BY <1>9, <2>1, <2>3, InAsked
  <1>10. CASE AppliesRepair
    <2> DEFINE c == page.store.repair.candidate
               p == Post([page EXCEPT !.store = BeginRepairChange(page.store, "applying")],
                         Request("commitRepair", 0, c.subject, 0, c.id))
    <2>1. UserDoes(p)
      BY <1>10 DEF AppliesRepair
    <2>2. FillsIn(p, A)
      BY <1>9
    <2> HIDE DEF p
    <2> QED BY <1>1, <2>1, <2>2
  <1>11. CASE UndoesRepair
    <2> DEFINE p == Post([page EXCEPT !.store = BeginRepairChange(page.store, "undoing")],
                         Request("undoRepair", 0, Model(page), 0, page.store.repair.lastApplied))
    <2>1. UserDoes(p)
      BY <1>11 DEF UndoesRepair
    <2>2. FillsIn(p, A)
      BY <1>9
    <2> HIDE DEF p
    <2> QED BY <1>1, <2>1, <2>2
  <1> QED BY <1>2, <1>3, <1>4, <1>5, <1>6, <1>7, <1>8, <1>10, <1>11

LEMMA FillNumbers ==
    ASSUME NEW p
    PROVE  /\ {p.fillRun, p.fillLive} \subseteq Numbers(p, "fill")
           /\ \A r \in UnderWay \cup Range(p.out) : Stream(r.kind) = "fill" =>
                r.token \in Numbers(p, "fill") /\ r.id \in Numbers(p, "fill")
  <1> DEFINE pairs == {{t.token, t.id} :
                 t \in {q \in UnderWay \cup Range(p.out) : Stream(q.kind) = "fill"}}
  <1>1. {p.fillRun, p.fillLive} \subseteq Numbers(p, "fill")
    BY DEF Numbers
  <1>2. UNION pairs \subseteq Numbers(p, "fill")
    <2> HIDE DEF pairs
    <2> QED BY DEF Numbers, pairs
  <1>3. ASSUME NEW r \in UnderWay \cup Range(p.out), Stream(r.kind) = "fill"
        PROVE  r.token \in Numbers(p, "fill") /\ r.id \in Numbers(p, "fill")
    <2>1. {r.token, r.id} \in pairs
      BY <1>3
    <2>2. {r.token, r.id} \subseteq UNION pairs
      BY <2>1
    <2> QED BY <1>2, <2>2
  <1> QED BY <1>1, <1>3

LEMMA PreviewKeepsFills ==
    ASSUME FillsIn(page, toPage), Current(page, UnderWay), Bounded, PreviewsFill
    PROVE  \E p : PageBecomes(p, toPage) /\ FillsIn(p, toPage)
  <1> DEFINE A == toPage
             u == ReleaseFillCandidate(page, page.fillLive)
             token == Fresh(u, "fill")
             v == DisposeFill(u)
             t == BeginHoleFillCandidate(v.store, token)
             w == [v EXCEPT !.store = t, !.fillActive = token, !.fillRun = token,
                            !.fillSession = token]
             r == Request("fill", token, Model(page), page.store.holeFill.selected, 0)
             x == Post(w, r)
             p == IF page.fillRun = 0 THEN x ELSE FillRejected(x, page.fillRun)
  <1>1. PageBecomes(p, toPage) /\ page.store.holeFill.workState # "ready"
    BY DEF PreviewsFill, UserDoes
  <1>2. FillsIn(u, A) /\ u.store = page.store /\ u.fillRun = page.fillRun /\ u.fillLive = 0
    <2>1. page.store.holeFill.candidate.id = 0
      BY <1>1, Nothings, InShown
    <2>2. page.fillLive # 0 => page.fillLive # page.fillRun
      BY DEF FillsIn, FillsOf, Discarded
    <2> HIDE DEF u
    <2> QED BY <2>1, <2>2, InReleased DEF u
  <1>3. token # 0 /\ token \notin Numbers(u, "fill")
    <2>1. Current(u, UnderWay)
      <3>1. page.fillLive \in Nat
        BY CurrentPage
      <3> HIDE DEF u
      <3> QED BY <3>1, ReleasesFill DEF u
    <2> HIDE DEF u
    <2> QED BY <2>1, CurrentPage, FreshToken DEF Bounded
  <1> HIDE DEF u, token
  <1>4. /\ FillsIn(v, A) /\ v.store = u.store /\ v.fillRun = 0 /\ v.fillLive = 0
        /\ \A y \in Range(v.out) : y \in Range(u.out) \/ (y.token = u.fillRun /\ y.id = 0)
    <2> HIDE DEF v
    <2> QED BY <1>2, InDisposed DEF v
  <1> HIDE DEF v
  <1>5. \A y \in UnderWay \cup Range(v.out) :
          y.kind \in {"fill", "cancelFill", "discardFill"} => y.token # token /\ y.id # token
    <2>1. \A kind \in {"fill", "cancelFill", "discardFill"} : Stream(kind) = "fill"
      BY DEF Stream
    <2> QED BY <1>3, <1>4, <2>1, FillNumbers
  <1>6. ShownFill(v.store, t) /\ DropsFill(t)
    <2>1. PICK state : state # "ready"
      BY "idle" # "ready"
    <2>2. /\ ShapedStore(v.store)
          /\ v.store.holeFill.workState # "ready" => v.store.holeFill.candidate = NoCandidate
      BY <1>4, InShown
    <2> HIDE DEF t
    <2> QED BY <2>1, <2>2, FillSlice DEF t
  <1> HIDE DEF t
  <1>7. /\ DOMAIN w = PageFields /\ w.out = v.out /\ w.store = t /\ w.fillRun = token
        /\ w.fillLive = 0
    BY <1>4 DEF FillsIn, Shaped, PageFields
  <1> HIDE DEF w
  <1>8. IsFill(r) /\ r.token = token /\ r.subject.revision = v.store.revision
    BY <1>2, <1>4 DEF IsFill, Request, Model, Shown, Subject
  <1> HIDE DEF r
  <1> DEFINE o == Append(v.out, r)
             b == toWorker \o v.out
  <1>9. /\ DOMAIN x = PageFields /\ x.out = o /\ x.store = t /\ x.fillRun = token
        /\ x.fillLive = 0
    <2> HIDE DEF o
    <2>1. x = [w EXCEPT !.out = o]
      BY <1>7 DEF Post, o
    <2> HIDE DEF x
    <2> QED BY <1>7, <2>1 DEF PageFields
  <1> HIDE DEF x
  <1>10. PICK T : toWorker \in Seq(T) /\ v.out \in Seq(T)
    BY <1>4 DEF FillsIn
  <1>11. /\ toWorker \o o = Append(b, r) /\ Range(o) = Range(v.out) \cup {r}
         /\ o \in Seq(T \cup {r}) /\ toWorker \in Seq(T \cup {r}) /\ b \in Seq(T \cup {r})
    <2>1. \A y : \A f \in Seq(T) : \A g \in Seq(T) :
            /\ f \o Append(g, y) = Append(f \o g, y)
            /\ Range(Append(g, y)) = Range(g) \cup {y}
            /\ Append(g, y) \in Seq(T \cup {y}) /\ f \in Seq(T \cup {y})
            /\ f \o g \in Seq(T \cup {y})
      BY SentOnce
    <2> QED BY <1>10, <2>1, Zenon
  <1>12. \A i \in 1 .. Len(b) : b[i] \in UnderWay \cup Range(v.out)
    <2>1. Range(b) = Range(toWorker) \cup Range(v.out)
      BY <1>10, RangeConcatenation
    <2>2. \A i \in 1 .. Len(b) : b[i] \in Range(b)
      <3> HIDE DEF b
      <3> QED BY <1>11 DEF Range
    <2> HIDE DEF b
    <2> QED BY <2>1, <2>2 DEF UnderWay
  <1>13. FillsOf(x, Append(b, r), serving, A, resident.fillCandidate,
                 (UnderWay \cup Range(v.out)) \cup {r})
    <2> DEFINE R == UnderWay \cup Range(v.out)
               Q == T \cup {r}
    <2>1. FillsOf(v, b, serving, A, resident.fillCandidate, R)
      BY <1>4 DEF FillsIn
    <2>2. \A i \in 1 .. Len(A) : A[i].request \in R
      BY <1>4 DEF FillsIn
    <2>3. /\ x.store.revision = v.store.revision /\ x.store.holeFill.workState # "ready"
          /\ x.store.holeFill.candidate = NoCandidate
          /\ x.fillRun = token /\ x.fillLive = v.fillLive /\ v.fillLive # token
      BY <1>3, <1>4, <1>6, <1>9 DEF ShownFill, DropsFill
    <2>4. r \in Q /\ b \in Seq(Q)
      BY <1>11
    <2>5. /\ \A y \in R : y.kind \in {"fill", "cancelFill", "discardFill"}
                            => y.token # token /\ y.id # token
          /\ \A i \in 1 .. Len(b) : b[i] \in R
      BY <1>5, <1>12
    <2> HIDE DEF b, A, R, Q
    <2>6. FillsOf(x, Append(b, r), serving, A, resident.fillCandidate, R \cup {r})
      BY <1>3, <1>4, <1>8, <2>1, <2>2, <2>3, <2>4, <2>5, FillsBegun
    <2> QED BY <2>6 DEF R
  <1> HIDE DEF b, o
  <1>14. FillsIn(x, A)
    <2>1. Shaped(x)
      BY <1>6, <1>9 DEF Shaped, ShownFill
    <2>2. UnderWay \cup Range(x.out) = (UnderWay \cup Range(v.out)) \cup {r}
      BY <1>9, <1>11
    <2>3. FillsOf(x, toWorker \o x.out, serving, A, resident.fillCandidate,
                  UnderWay \cup Range(x.out))
      BY <1>9, <1>11, <1>13, <2>2
    <2>4. toWorker \in Seq(T \cup {r}) /\ x.out \in Seq(T \cup {r})
      BY <1>9, <1>11
    <2> QED BY <1>4, <2>1, <2>3, <2>4 DEF FillsIn
  <1>15. FillsIn(p, A)
    BY <1>14, InRejected
  <1> HIDE DEF p
  <1> QED BY <1>1, <1>15

LEMMA FillActionsKeepFills ==
    ASSUME FillsIn(page, toPage),
           \/ SelectsOpening \/ CancelsFillPreview \/ DiscardsFill \/ AppliesFill \/ UndoesFill
           \/ RetriesListing \/ AppliesTexture \/ UndoesTexture
    PROVE  \E p : PageBecomes(p, toPage) /\ FillsIn(p, toPage)
  <1> DEFINE A == toPage
             s == page.store
  <1>1. \A p : UserDoes(p) => PageBecomes(p, toPage)
    BY DEF UserDoes
  <1>2. /\ ShapedStore(s)
        /\ s.holeFill.workState # "ready" => s.holeFill.candidate = NoCandidate
        /\ s.holeFill.workState = "ready" => page.fillRun = 0
        /\ NoCandidate.id = 0
    BY InShown, Nothings
  <1> HIDE DEF PageBecomes, UserDoes
  <1>3. CASE SelectsOpening
    <2>1. PICK opening \in page.setup.openings :
            LET cancelled == CancelFillSession(page)
                dropped == IF s.holeFill.selected = opening THEN 0
                           ELSE s.holeFill.candidate.id
                selected == ReleaseFillCandidate(
                    [cancelled EXCEPT !.store = SelectBoundaryLoop(@, opening)], dropped)
            IN  UserDoes(ThenRejected(page, selected))
      BY <1>3 DEF SelectsOpening
    <2> DEFINE u == CancelFillSession(page)
               t == SelectBoundaryLoop(u.store, opening)
               v == [u EXCEPT !.store = t]
               dropped == IF s.holeFill.selected = opening THEN 0 ELSE s.holeFill.candidate.id
               w == ReleaseFillCandidate(v, dropped)
               p == ThenRejected(page, w)
    <2>2. UserDoes(p)
      BY <2>1
    <2> HIDE DEF u
    <2>3. FillsIn(u, A) /\ u.store = s /\ u.fillRun \in {0, page.fillRun}
      BY InSession DEF u
    <2>4. ShownFill(u.store, t) /\ (s.holeFill.selected # opening => DropsFill(t))
      <3>1. PICK state : state # "ready"
        BY "idle" # "ready"
      <3> HIDE DEF t
      <3> QED BY <1>2, <2>3, <3>1, FillSlice DEF t
    <2> HIDE DEF t, v
    <2>5. FillsIn(v, A) /\ v.store = t /\ v.fillRun = u.fillRun
      BY <2>3, <2>4, InSlice DEF v
    <2>6. dropped # 0 => dropped # v.fillRun /\ dropped # v.store.holeFill.candidate.id
      BY <1>2, <2>3, <2>4, <2>5 DEF DropsFill
    <2> HIDE DEF w, dropped
    <2>7. FillsIn(w, A)
      BY <2>5, <2>6, InReleased DEF w
    <2> HIDE DEF p
    <2>8. FillsIn(p, A)
      BY <2>7, InCancelled DEF p
    <2> QED BY <1>1, <2>2, <2>8
  <1>4. CASE CancelsFillPreview
    <2> DEFINE t == BeginHoleFillCancellation(s, page.fillActive)
               u == [page EXCEPT !.store = t]
               v == CancelFillSession(u)
               p == ThenRejected(page, v)
    <2>1. UserDoes(p)
      BY <1>4 DEF CancelsFillPreview
    <2>2. ShownFill(s, t)
      <3>1. PICK state : state # "ready"
        BY "idle" # "ready"
      <3> HIDE DEF t
      <3> QED BY <1>2, <3>1, FillSlice DEF t
    <2> HIDE DEF t, u
    <2>3. FillsIn(u, A)
      BY <2>2, InSlice DEF u
    <2> HIDE DEF v
    <2>4. FillsIn(v, A)
      BY <2>3, InSession DEF v
    <2> HIDE DEF p
    <2>5. FillsIn(p, A)
      BY <2>4, InCancelled DEF p
    <2> QED BY <1>1, <2>1, <2>5
  <1>5. CASE DiscardsFill
    <2> DEFINE u == CancelFillSession(page)
               t == ClearHoleFillCandidate(u.store)
               v == [u EXCEPT !.store = t]
               w == ReleaseFillCandidate(v, s.holeFill.candidate.id)
               p == ThenRejected(page, w)
    <2>1. UserDoes(p) /\ s.holeFill.workState = "ready"
      BY <1>5 DEF DiscardsFill
    <2> HIDE DEF u
    <2>2. FillsIn(u, A) /\ u.store = s /\ u.fillRun = 0
      BY <1>2, <2>1, InSession DEF u
    <2>3. ShownFill(u.store, t) /\ DropsFill(t)
      <3>1. PICK state : state # "ready"
        BY "idle" # "ready"
      <3> HIDE DEF t
      <3> QED BY <1>2, <2>2, <3>1, FillSlice DEF t
    <2> HIDE DEF t, v
    <2>4. FillsIn(v, A) /\ v.store = t /\ v.fillRun = 0
      BY <2>2, <2>3, InSlice DEF v
    <2> DEFINE id == s.holeFill.candidate.id
    <2>5. id # 0 => id # v.fillRun /\ id # v.store.holeFill.candidate.id
      BY <1>2, <2>3, <2>4 DEF DropsFill
    <2>6. w = ReleaseFillCandidate(v, id)
      OBVIOUS
    <2> HIDE DEF w, id
    <2>7. FillsIn(w, A)
      BY <2>4, <2>5, <2>6, InReleased
    <2> HIDE DEF p
    <2>8. FillsIn(p, A)
      BY <2>7, InCancelled DEF p
    <2> QED BY <1>1, <2>1, <2>8
  <1>6. ASSUME NEW state, state # "ready", NEW kind, kind \in {"commitFill", "undoFill"},
               NEW subject, NEW opening, NEW id,
               NEW p, p = Post([page EXCEPT !.store = BeginHoleFillChange(page.store, state)],
                               Request(kind, 0, subject, opening, id))
        PROVE  FillsIn(p, A)
    <2> DEFINE t == BeginHoleFillChange(page.store, state)
               v == [page EXCEPT !.store = t]
    <2>1. p = Post(v, Request(kind, 0, subject, opening, id))
      BY <1>6
    <2>2. ShownFill(page.store, t)
      <3> HIDE DEF t
      <3> QED BY <1>2, <1>6, FillSlice DEF t
    <2> HIDE DEF t, v
    <2>3. FillsIn(v, A)
      BY <2>2, InSlice DEF v
    <2> QED BY <1>6, <2>1, <2>3, InAsked
  <1>7. CASE AppliesFill
    <2> DEFINE c == page.store.holeFill.candidate
               p == Post([page EXCEPT !.store = BeginHoleFillChange(page.store, "applying")],
                         Request("commitFill", 0, c.subject, c.opening, c.id))
    <2>1. UserDoes(p)
      BY <1>7 DEF AppliesFill
    <2>2. FillsIn(p, A)
      BY <1>6
    <2> HIDE DEF p
    <2> QED BY <1>1, <2>1, <2>2
  <1>8. CASE UndoesFill
    <2> DEFINE p == Post([page EXCEPT !.store = BeginHoleFillChange(page.store, "undoing")],
                         Request("undoFill", 0, Model(page), 0, page.store.holeFill.lastApplied))
    <2>1. UserDoes(p)
      BY <1>8 DEF UndoesFill
    <2>2. FillsIn(p, A)
      BY <1>6
    <2> HIDE DEF p
    <2> QED BY <1>1, <2>1, <2>2
  <1>9. CASE RetriesListing
    <2>1. UserDoes(ListOpenings(page))
      BY <1>9 DEF RetriesListing
    <2>2. FillsIn(ListOpenings(page), A)
      BY InStarts
    <2> QED BY <1>1, <2>1, <2>2
  <1>10. CASE AppliesTexture
    <2> DEFINE v == [page EXCEPT !.edit.applying = TRUE]
               p == Post(v, Request("commitEdit", 0, Model(page), 0, 0))
    <2>1. UserDoes(p)
      BY <1>10 DEF AppliesTexture
    <2>2. /\ DOMAIN v = PageFields /\ v.out = page.out /\ v.store = page.store
          /\ v.fillRun = page.fillRun /\ v.fillLive = page.fillLive
      BY DEF FillsIn, Shaped, PageFields
    <2> HIDE DEF v
    <2>3. FillsIn(v, A)
      <3>1. Shaped(v) /\ KeepsFill(page, v)
        BY <2>2 DEF FillsIn, Shaped, KeepsFill
      <3> QED BY <2>2, <3>1, InKept
    <2> HIDE DEF p
    <2>4. FillsIn(p, A)
      <3>1. "commitEdit" \notin {"fill", "cancelFill", "discardFill"}
        OBVIOUS
      <3> QED BY <2>3, <3>1, InAsked DEF p
    <2> QED BY <1>1, <2>1, <2>4
  <1>11. CASE UndoesTexture
    <2> DEFINE p == Post(page, Request("undoEdit", 0, Model(page), 0, page.edit.record))
    <2>1. UserDoes(p)
      BY <1>11 DEF UndoesTexture
    <2> HIDE DEF p
    <2>2. FillsIn(p, A)
      <3>1. "undoEdit" \notin {"fill", "cancelFill", "discardFill"}
        OBVIOUS
      <3> QED BY <3>1, InAsked DEF p
    <2> QED BY <1>1, <2>1, <2>2
  <1> QED BY <1>3, <1>4, <1>5, <1>7, <1>8, <1>9, <1>10, <1>11
-----------------------------------------------------------------------------
(* What the page hears leaves the fills in order.                           *)

LEMMA FirstAnswer ==
    ASSUME HandledInv, toPage # <<>>
    PROVE  /\ toPage \in Seq(AnswersOf) /\ Head(toPage) = toPage[1]
           /\ Answered = toPage[1].request /\ Answered \in UnderWay
           /\ \A i \in 1 .. Len(toPage) : toPage[i].request \in UnderWay
           /\ \A i \in 1 .. Len(Tail(toPage)) : Tail(toPage)[i].request \in UnderWay
  <1>1. toPage \in Seq(AnswersOf)
    BY DEF HandledInv, ChannelInv
  <1>2. /\ Head(toPage) = toPage[1] /\ 1 \in 1 .. Len(toPage)
        /\ \A i \in 1 .. Len(Tail(toPage)) :
             i + 1 \in 1 .. Len(toPage) /\ Tail(toPage)[i] = toPage[i + 1]
    BY <1>1, AnswersLeft
  <1>3. \A i \in 1 .. Len(toPage) : toPage[i].request \in UnderWay
    <2> HIDE DEF AnswersOf
    <2>1. \A i \in 1 .. Len(toPage) : toPage[i] \in Range(toPage)
      BY <1>1 DEF Range
    <2> QED BY <2>1 DEF UnderWay
  <1> QED BY <1>1, <1>2, <1>3 DEF Answered

LEMMA InHeard ==
    ASSUME HandledInv, FillsIn(page, toPage), toPage # <<>>, ~Moves(toPage[1])
    PROVE  FillsIn(page, Tail(toPage))
  <1>1. toPage \in Seq(AnswersOf)
        /\ \A i \in 1 .. Len(Tail(toPage)) : Tail(toPage)[i].request \in UnderWay
    BY FirstAnswer
  <1> DEFINE w == toWorker \o page.out
             R == UnderWay \cup Range(page.out)
  <1>2. FillsOf(page, w, serving, toPage, resident.fillCandidate, R)
    BY DEF FillsIn
  <1> HIDE DEF w, R, AnswersOf
  <1>3. FillsOf(page, w, serving, Tail(toPage), resident.fillCandidate, R)
    BY <1>1, <1>2, FillsHeard
  <1> QED BY <1>1, <1>3 DEF FillsIn, w, R

LEMMA InReturned ==
    ASSUME HandledInv, FillsIn(page, toPage), toPage # <<>>, Answered.kind = "fill",
           Answered.token = page.fillRun,
           NEW q, Shaped(q), q.out = page.out, q.fillRun = 0,
           q.store.revision = page.store.revision,
           \/ q.store.holeFill = page.store.holeFill /\ q.fillLive \in {0, page.fillLive}
           \/ /\ q.store.holeFill.workState = "ready" /\ q.fillLive = page.fillRun
              /\ Head(toPage).outcome = "result"
              /\ Answered.subject.revision = page.store.revision
              /\ q.store.holeFill.candidate
                   = Candidate(page.fillRun, Answered.subject, Answered.opening)
    PROVE  FillsIn(q, Tail(toPage)) /\ page.fillRun # 0
  <1> DEFINE w == toWorker \o page.out
             R == UnderWay \cup Range(page.out)
             B == Tail(toPage)
  <1>1. /\ toPage \in Seq(AnswersOf) /\ Head(toPage) = toPage[1]
        /\ Answered = toPage[1].request
        /\ \A i \in 1 .. Len(toPage) : toPage[i].request \in R
        /\ \A i \in 1 .. Len(B) : B[i].request \in UnderWay
    BY FirstAnswer
  <1>2. FillsOf(page, w, serving, toPage, resident.fillCandidate, R)
    BY DEF FillsIn
  <1>3. IsFill(toPage[1].request)
    BY <1>1 DEF IsFill
  <1> HIDE DEF w, R, B, AnswersOf
  <1>4. FillsOf(q, w, serving, B, resident.fillCandidate, R) /\ page.fillRun # 0
    BY <1>1, <1>2, <1>3, FillsReturned DEF B
  <1> QED BY <1>1, <1>4 DEF FillsIn, w, R, B

LEMMA InInstalled ==
    ASSUME HandledInv, VersionInv, FillsIn(page, toPage), toPage # <<>>, Moves(toPage[1]),
           NEW q, Shaped(q), q.out = page.out, q.fillRun = page.fillRun,
           q.fillLive \in {0, page.fillLive}, DropsFill(q.store),
           q.store.revision = Head(toPage).revision
    PROVE  FillsIn(q, Tail(toPage))
  <1> DEFINE w == toWorker \o page.out
             R == UnderWay \cup Range(page.out)
             B == Tail(toPage)
  <1>1. /\ toPage \in Seq(AnswersOf) /\ Head(toPage) = toPage[1]
        /\ \A i \in 1 .. Len(toPage) : toPage[i].request \in R
        /\ \A i \in 1 .. Len(B) : B[i].request \in UnderWay
    BY FirstAnswer
  <1>2. FillsOf(page, w, serving, toPage, resident.fillCandidate, R)
    BY DEF FillsIn
  <1>3. R = UnderWay /\ \A r \in R : r.subject.revision \in Nat
    <2>1. Range(page.out) = {}
      BY DEF HandledInv, Range
    <2> QED BY <2>1, RequestsUnderWay
  <1>4. /\ q.store.revision \in Nat /\ q.store.revision > page.store.revision
    <2>1. 1 \in 1 .. Len(toPage)
      BY <1>1, AnswersLeft
    <2>2. MoveOf(toPage[1])
      BY <2>1 DEF VersionInv
    <2>3. page.store.revision \in Nat
      BY <1>2 DEF FillsOf
    <2> QED BY <1>1, <2>2, <2>3 DEF MoveOf
  <1>5. q.store.holeFill.workState # "ready" /\ q.store.holeFill.candidate = NoCandidate
    BY DEF DropsFill
  <1> HIDE DEF w, R, B, AnswersOf
  <1>6. FillsOf(q, w, serving, B, resident.fillCandidate, R)
    BY <1>1, <1>2, <1>3, <1>4, <1>5, FillsInstalled DEF B
  <1> QED BY <1>1, <1>6 DEF FillsIn, w, R, B

(* An answer that a slice other than the fill's takes.                      *)
LEMMA OtherAnswersKeepFills ==
    ASSUME HandledInv, FillsIn(page, toPage),
           \/ ReceivesAnalysis \/ ReceivesPlan \/ ReceivesRepairCandidate \/ ReceivesListing
    PROVE  \E p : PageReceives(p) /\ FillsIn(p, Tail(toPage))
  <1> DEFINE A == Tail(toPage)
             r == Answered
  <1>1. toPage # <<>> /\ r.kind \in {"analyze", "plan", "build", "list"}
    BY DEF ReceivesAnalysis, ReceivesPlan, ReceivesRepairCandidate, ReceivesListing, Receives
  <1>2. FillsIn(page, A)
    <2>1. ~Moves(toPage[1])
      BY <1>1, FirstAnswer DEF Moves, Changes
    <2> QED BY <1>1, <2>1, InHeard
  <1>3. /\ ShapedStore(page.store)
        /\ page.store.holeFill.workState # "ready" => page.store.holeFill.candidate = NoCandidate
    BY <1>2, InShown
  <1>4. ASSUME NEW u, FillsIn(u, A), NEW t, ShownFill(u.store, t), NEW v,
               \/ v = [[u EXCEPT !.analysisSession = 0] EXCEPT !.store = t]
               \/ v = [[u EXCEPT !.repairSession = 0] EXCEPT !.store = t]
        PROVE  FillsIn(v, A)
    <2>1. /\ DOMAIN v = PageFields /\ v.out = u.out /\ v.store = t
          /\ v.fillRun = u.fillRun /\ v.fillLive = u.fillLive
      BY <1>4 DEF FillsIn, Shaped, PageFields
    <2> QED BY <1>4, <2>1, InStored
  <1> HIDE DEF A, PageReceives
  <1>5. CASE ReceivesAnalysis
    <2> DEFINE o == [page EXCEPT !.analysisSession = 0]
    <2>0. o.store = page.store
      BY <1>2 DEF FillsIn, Shaped, PageFields
    <2>1. \E t \in {CommitAnalysis(page.store, r.token, r.subject),
                    FailAnalysis(page.store, r.token), CancelAnalysis(page.store, r.token)} :
            PageReceives([o EXCEPT !.store = t])
      <3> HIDE DEF o
      <3>1. \/ PageReceives([o EXCEPT !.store = CommitAnalysis(o.store, r.token, r.subject)])
            \/ PageReceives([o EXCEPT !.store = FailAnalysis(o.store, r.token)])
            \/ PageReceives([o EXCEPT !.store = CancelAnalysis(o.store, r.token)])
        BY <1>5 DEF ReceivesAnalysis, o
      <3> QED BY <2>0, <3>1
    <2>2. PICK t \in {CommitAnalysis(page.store, r.token, r.subject),
                      FailAnalysis(page.store, r.token), CancelAnalysis(page.store, r.token)} :
            PageReceives([o EXCEPT !.store = t])
      BY <2>1
    <2>3. ShownFill(page.store, t)
      BY <1>3, <2>2, OtherSlices
    <2>4. FillsIn([o EXCEPT !.store = t], A)
      BY <1>2, <1>4, <2>3
    <2> QED BY <2>2, <2>4 DEF A
  <1>6. CASE ReceivesPlan
    <2> DEFINE o == [page EXCEPT !.repairSession = 0]
    <2>0. o.store = page.store
      BY <1>2 DEF FillsIn, Shaped, PageFields
    <2>1. \E t \in {CommitRepairPlan(page.store, r.token, r.subject),
                    FailRepairPlan(page.store, r.token)} :
            PageReceives([o EXCEPT !.store = t])
      <3> HIDE DEF o
      <3>1. \/ PageReceives([o EXCEPT !.store = CommitRepairPlan(o.store, r.token, r.subject)])
            \/ PageReceives([o EXCEPT !.store = FailRepairPlan(o.store, r.token)])
        BY <1>6 DEF ReceivesPlan, o
      <3> QED BY <2>0, <3>1
    <2>2. PICK t \in {CommitRepairPlan(page.store, r.token, r.subject),
                      FailRepairPlan(page.store, r.token)} :
            PageReceives([o EXCEPT !.store = t])
      BY <2>1
    <2>3. ShownFill(page.store, t)
      BY <1>3, <2>2, OtherSlices
    <2>4. FillsIn([o EXCEPT !.store = t], A)
      BY <1>2, <1>4, <2>3
    <2> QED BY <2>2, <2>4 DEF A
  <1>7. CASE ReceivesListing
    <2>1. \E t \in {CommitHoleFillListing(page.store, r.token, r.subject),
                    FailHoleFillListing(page.store, r.token)} :
            PageReceives([page EXCEPT !.store = t])
      BY <1>7 DEF ReceivesListing
    <2>2. PICK t \in {CommitHoleFillListing(page.store, r.token, r.subject),
                      FailHoleFillListing(page.store, r.token)} :
            PageReceives([page EXCEPT !.store = t])
      BY <2>1
    <2>3. ShownFill(page.store, t)
      <3>1. PICK state : state # "ready"
        BY "idle" # "ready"
      <3>2. CASE t = CommitHoleFillListing(page.store, r.token, r.subject)
        <4> HIDE DEF r
        <4> QED BY <1>3, <3>1, <3>2, FillSlice
      <3>3. CASE t = FailHoleFillListing(page.store, r.token)
        <4> HIDE DEF r
        <4> QED BY <1>3, <3>1, <3>3, FillSlice
      <3> QED BY <2>2, <3>2, <3>3
    <2>4. FillsIn([page EXCEPT !.store = t], A)
      BY <1>2, <2>3, InSlice
    <2> QED BY <2>2, <2>4 DEF A
  <1>8. CASE ReceivesRepairCandidate
    <2> DEFINE c == Candidate(r.token, r.subject, 0)
               o == [page EXCEPT !.repairSession = 0]
               x == [o EXCEPT !.repairActive = 0]
               discard == Request("discardRepair", 0, Nothing, 0, c.id)
               cancelled == [x EXCEPT !.store = EndRepairCandidate(x.store, r.token, "cancelled")]
               failed == [x EXCEPT !.store = EndRepairCandidate(x.store, r.token, "failed")]
               shown == [o EXCEPT !.store = CommitRepairCandidate(o.store, c),
                                  !.repairLive = c.id]
    <2>1. /\ FillsIn(o, A) /\ o.store = page.store
          /\ FillsIn(x, A) /\ x.store = page.store
      <3>1. ASSUME NEW u, FillsIn(u, A), NEW v,
                   v = [u EXCEPT !.repairSession = 0] \/ v = [u EXCEPT !.repairActive = 0]
            PROVE  FillsIn(v, A) /\ v.store = u.store
        <4>1. /\ DOMAIN v = PageFields /\ v.out = u.out /\ v.store = u.store
              /\ v.fillRun = u.fillRun /\ v.fillLive = u.fillLive
          BY <3>1 DEF FillsIn, Shaped, PageFields
        <4>2. Shaped(v) /\ KeepsFill(u, v)
          BY <3>1, <4>1 DEF FillsIn, Shaped, KeepsFill
        <4> QED BY <3>1, <4>1, <4>2, InKept
      <3>2. FillsIn(o, A) /\ o.store = page.store
        BY <1>2, <3>1
      <3> HIDE DEF o
      <3>3. FillsIn(x, A) /\ x.store = o.store
        BY <3>1, <3>2
      <3> HIDE DEF x
      <3> QED BY <3>2, <3>3
    <2>2. \/ PageReceives(shown) \/ PageReceives(Post(o, discard))
          \/ PageReceives(Post(cancelled, discard)) \/ PageReceives(cancelled)
          \/ PageReceives(failed)
      <3> HIDE DEF c, discard
      <3>1. CASE PageReceives(IF MayInstallRepair(page.store, r.token, c)
                              THEN [o EXCEPT !.store = CommitRepairCandidate(@, c),
                                             !.repairLive = c.id]
                              ELSE Post(o, discard))
        <4> HIDE DEF o
        <4> QED BY <3>1
      <3>2. CASE PageReceives(
                   IF Head(toPage).outcome = "result"
                   THEN Post([x EXCEPT !.store = EndRepairCandidate(@, r.token, "cancelled")],
                             discard)
                   ELSE [x EXCEPT !.store = EndRepairCandidate(@, r.token, "cancelled")])
        <4> HIDE DEF x
        <4> QED BY <3>2
      <3>3. CASE PageReceives([x EXCEPT !.store = EndRepairCandidate(@, r.token, "failed")])
        <4> HIDE DEF x
        <4> QED BY <3>3
      <3> QED BY <1>8, <3>1, <3>2, <3>3 DEF ReceivesRepairCandidate, c, discard
    <2> HIDE DEF c, o, x
    <2>3. FillsIn(cancelled, A) /\ FillsIn(failed, A)
      <3>1. ASSUME NEW state PROVE FillsIn([x EXCEPT !.store
                                             = EndRepairCandidate(x.store, r.token, state)], A)
        <4> DEFINE t == EndRepairCandidate(x.store, r.token, state)
        <4>1. ShownFill(x.store, t)
          <5> HIDE DEF t
          <5> QED BY <1>3, <2>1, OtherSlices DEF t
        <4> HIDE DEF t
        <4>2. FillsIn([x EXCEPT !.store = t], A)
          BY <2>1, <4>1, InSlice
        <4> QED BY <4>2 DEF t
      <3> QED BY <3>1
    <2>4. FillsIn(shown, A)
      <3> DEFINE t == CommitRepairCandidate(o.store, c)
      <3>1. ShownFill(o.store, t)
        <4> HIDE DEF t
        <4> QED BY <1>3, <2>1, OtherSlices DEF t
      <3> HIDE DEF t
      <3>2. /\ DOMAIN shown = PageFields /\ shown.out = o.out /\ shown.store = t
            /\ shown.fillRun = o.fillRun /\ shown.fillLive = o.fillLive
        BY <2>1 DEF FillsIn, Shaped, PageFields, t
      <3> HIDE DEF shown
      <3> QED BY <2>1, <3>1, <3>2, InStored
    <2> HIDE DEF shown, cancelled, failed
    <2>5. \A u : FillsIn(u, A) => FillsIn(Post(u, discard), A)
      <3>1. "discardRepair" \notin {"fill", "cancelFill", "discardFill"}
        OBVIOUS
      <3> QED BY <3>1, InAsked
    <2> HIDE DEF discard
    <2> QED BY <2>1, <2>2, <2>3, <2>4, <2>5 DEF A
  <1> QED BY <1>5, <1>6, <1>7, <1>8

LEMMA FillAnswersKeepFills ==
    ASSUME HandledInv, FillsIn(page, toPage), ReceivesFill
    PROVE  \E p : PageReceives(p) /\ FillsIn(p, Tail(toPage))
  <1> DEFINE A == Tail(toPage)
             r == Answered
             c == Candidate(r.token, r.subject, r.opening)
             o == [page EXCEPT !.fillRun = 0, !.fillSession = 0]
             x == [o EXCEPT !.fillActive = 0]
             t == CommitHoleFillCandidate(o.store, c)
             shown == [o EXCEPT !.store = t, !.fillLive = c.id]
             e == EndHoleFillCandidate(x.store, r.token, "failed")
             failed == [x EXCEPT !.store = e]
  <1>0. toPage # <<>> /\ r.kind = "fill"
    BY DEF ReceivesFill
  <1>1. DOMAIN page = PageFields /\ ShapedStore(page.store)
    BY InShown
  <1>2. /\ DOMAIN o = PageFields /\ o.out = page.out /\ o.store = page.store
        /\ o.fillRun = 0 /\ o.fillLive = page.fillLive
    BY <1>1 DEF PageFields
  <1>3. \/ PageReceives(page)
        \/ /\ page.fillRun = r.token
           /\ \/ /\ MayInstallFill(page.store, r.token, c) /\ PageReceives(shown)
                 /\ Head(toPage).outcome = "result"
              \/ PageReceives(ReleaseFillCandidate(o, c.id))
              \/ PageReceives(failed)
    <2> HIDE DEF r, c
    <2>1. CASE PageReceives(
                 IF MayInstallFill(page.store, r.token, c)
                 THEN [o EXCEPT !.store = CommitHoleFillCandidate(@, c), !.fillLive = c.id]
                 ELSE ReleaseFillCandidate(o, c.id))
               /\ page.fillRun = r.token /\ Outcome = "result"
      <3>1. Head(toPage).outcome = "result"
        BY <2>1 DEF Outcome
      <3> HIDE DEF o, x
      <3> QED BY <2>1, <3>1
    <2>2. CASE PageReceives([x EXCEPT !.store = EndHoleFillCandidate(@, r.token, "failed")])
               /\ page.fillRun = r.token
      <3> HIDE DEF x
      <3> QED BY <2>2
    <2> QED BY <2>1, <2>2 DEF ReceivesFill, Receives, r, c
  <1> HIDE DEF PageReceives
  <1>4. CASE PageReceives(page)
    <2>1. ~Moves(toPage[1])
      BY <1>0, FirstAnswer DEF Moves, Changes
    <2> QED BY <1>0, <1>4, <2>1, InHeard
  <1>5. page.fillRun = r.token => FillsIn(o, A) /\ page.fillRun # 0
    <2>1. Shaped(o) /\ o.store.revision = page.store.revision
          /\ o.store.holeFill = page.store.holeFill /\ o.fillLive \in {0, page.fillLive}
      BY <1>1, <1>2 DEF Shaped
    <2> HIDE DEF o
    <2> QED BY <1>0, <1>2, <2>1, InReturned
  <1>6. CASE /\ page.fillRun = r.token
             /\ MayInstallFill(page.store, r.token, c) /\ PageReceives(shown)
             /\ Head(toPage).outcome = "result"
    <2> HIDE DEF o
    <2>1. /\ ShapedStore(t) /\ t.revision = page.store.revision
          /\ t.holeFill.workState = "ready" /\ t.holeFill.candidate = c
      <3>1. PICK state : state # "ready"
        BY "idle" # "ready"
      <3>2. page.store.holeFill.workState # "ready" => page.store.holeFill.candidate = NoCandidate
        BY InShown
      <3> HIDE DEF t, c
      <3> QED BY <1>1, <1>2, <3>1, <3>2, FillSlice DEF t
    <2> HIDE DEF t
    <2>2. c.id = page.fillRun /\ r.subject.revision = page.store.revision
          /\ c = Candidate(page.fillRun, r.subject, r.opening)
      BY <1>6 DEF Candidate, MayInstallFill, Shown, Subject
    <2> HIDE DEF c
    <2>3. /\ DOMAIN shown = PageFields /\ shown.out = page.out /\ shown.store = t
          /\ shown.fillRun = 0 /\ shown.fillLive = page.fillRun
      BY <1>2, <2>2 DEF PageFields
    <2> HIDE DEF shown
    <2>4. Shaped(shown)
      BY <2>1, <2>3 DEF Shaped
    <2>5. FillsIn(shown, A)
      <3> HIDE DEF A, r
      <3> QED BY <1>0, <1>6, <2>1, <2>2, <2>3, <2>4, InReturned DEF A, r
    <2> QED BY <1>6, <2>5
  <1>7. CASE page.fillRun = r.token /\ PageReceives(ReleaseFillCandidate(o, c.id))
    <2> HIDE DEF o
    <2>1. c.id # 0 => c.id # o.fillRun /\ c.id # o.store.holeFill.candidate.id
      <3>1. c.id = page.fillRun /\ page.fillRun # 0
        BY <1>5, <1>7 DEF Candidate
      <3>2. o.store.holeFill.candidate.id = 0
        BY <1>2, <3>1, InShown, Nothings
      <3> QED BY <1>2, <3>1, <3>2
    <2> DEFINE id == c.id
               p == ReleaseFillCandidate(o, id)
    <2> HIDE DEF id, p
    <2>2. FillsIn(p, A)
      BY <1>5, <1>7, <2>1, InReleased DEF id, p
    <2> QED BY <1>7, <2>2 DEF id, p
  <1>8. CASE page.fillRun = r.token /\ PageReceives(failed)
    <2> HIDE DEF o
    <2>1. FillsIn(o, A)
      BY <1>5, <1>8
    <2>2. /\ DOMAIN x = PageFields /\ x.out = o.out /\ x.store = o.store
          /\ x.fillRun = o.fillRun /\ x.fillLive = o.fillLive
      BY <1>2 DEF PageFields
    <2> HIDE DEF x
    <2>3. FillsIn(x, A)
      <3>1. Shaped(x) /\ KeepsFill(o, x)
        BY <2>1, <2>2 DEF FillsIn, Shaped, KeepsFill
      <3> QED BY <2>1, <2>2, <3>1, InKept
    <2>4. ShownFill(x.store, e)
      <3>1. "failed" # "ready"
        OBVIOUS
      <3>2. /\ ShapedStore(x.store)
            /\ x.store.holeFill.workState # "ready" => x.store.holeFill.candidate = NoCandidate
        BY <2>3, InShown
      <3> HIDE DEF e
      <3> QED BY <3>1, <3>2, FillSlice DEF e
    <2> HIDE DEF e, failed
    <2>5. FillsIn(failed, A)
      BY <2>3, <2>4, InSlice DEF failed
    <2> QED BY <1>8, <2>5
  <1> QED BY <1>3, <1>4, <1>6, <1>7, <1>8

LEMMA ChangeAnswersKeepFills ==
    ASSUME HandledInv, VersionInv, FillsIn(page, toPage),
           ReceivesRepairChange \/ ReceivesFillChange \/ ReceivesTextureChange
    PROVE  \E p : PageReceives(p) /\ FillsIn(p, Tail(toPage))
  <1> DEFINE A == Tail(toPage)
             s == page.store
             revision == Head(toPage).revision
  <1>0. toPage # <<>> /\ Answered.kind \in Changes /\ Outcome \in {"result", "failed"}
    BY DEF ReceivesRepairChange, ReceivesFillChange, ReceivesTextureChange, Receives, Changes
  <1>1. DOMAIN page = PageFields /\ ShapedStore(s)
    BY InShown
  <1>2. CASE Outcome = "result"
    <2>1. Moves(toPage[1]) /\ Answered.subject.revision = s.revision
      <3>1. Moves(toPage[1]) /\ 1 \in 1 .. Len(toPage) /\ Answered = toPage[1].request
        BY <1>0, <1>2, FirstAnswer, AnswersLeft DEF Outcome, Moves
      <3> QED BY <3>1 DEF VersionInv, MoveOf
    <2> DEFINE T == {ApplyRepairResult(s, revision), ApplyUndoResult(s, revision),
                     ApplyHoleFillResult(s, revision), ApplyGeometryEditResult(s, revision)}
    <2>2. \A t \in T : ShapedStore(t) /\ t.revision = revision /\ DropsFill(t)
      <3> HIDE DEF revision
      <3> QED BY <1>1, FillsOfAnotherModel
    <2>3. ASSUME NEW t \in T,
                 NEW p, DOMAIN p = PageFields, p.store = t, p.out = page.out,
                 p.fillRun = page.fillRun, p.fillLive \in {0, page.fillLive}
          PROVE  FillsIn(p, A)
      <3>1. Shaped(p) /\ DropsFill(p.store) /\ p.store.revision = revision
        BY <2>2, <2>3 DEF Shaped
      <3> HIDE DEF T
      <3> QED BY <1>0, <2>1, <2>3, <3>1, InInstalled
    <2>4. \A t \in T : FillsIn([page EXCEPT !.store = t], A)
      <3> SUFFICES ASSUME NEW t \in T PROVE FillsIn([page EXCEPT !.store = t], A)
        OBVIOUS
      <3> DEFINE p == [page EXCEPT !.store = t]
      <3>1. /\ DOMAIN p = PageFields /\ p.store = t /\ p.out = page.out
            /\ p.fillRun = page.fillRun /\ p.fillLive = page.fillLive
        BY <1>1 DEF PageFields
      <3> HIDE DEF p, T, A
      <3>2. FillsIn(p, A)
        BY <2>3, <3>1
      <3> QED BY <3>2 DEF p
    <2>5. \A t \in T : FillsIn([page EXCEPT !.store = t, !.repairLive = 0], A)
                    /\ FillsIn([page EXCEPT !.store = t, !.fillLive = 0], A)
                    /\ FillsIn([page EXCEPT !.store = t, !.edit.record = 0], A)
      <3> SUFFICES ASSUME NEW t \in T,
                          NEW p \in {[page EXCEPT !.store = t, !.repairLive = 0],
                                     [page EXCEPT !.store = t, !.fillLive = 0],
                                     [page EXCEPT !.store = t, !.edit.record = 0]}
                   PROVE  FillsIn(p, A)
        OBVIOUS
      <3>1. /\ DOMAIN p = PageFields /\ p.store = t /\ p.out = page.out
            /\ p.fillRun = page.fillRun /\ p.fillLive \in {0, page.fillLive}
        <4> HIDE DEF T
        <4> QED BY <1>1 DEF PageFields
      <3> HIDE DEF T, A
      <3> QED BY <2>3, <3>1
    <2>6. CASE ReceivesRepairChange
      <3>1. \E t \in T : \/ PageReceives([page EXCEPT !.store = t])
                         \/ PageReceives([page EXCEPT !.store = t, !.repairLive = 0])
        BY <1>2, <2>6 DEF ReceivesRepairChange, Receives
      <3> HIDE DEF T, PageReceives
      <3> QED BY <2>4, <2>5, <3>1
    <2>7. CASE ReceivesFillChange
      <3>1. \E t \in T : \/ PageReceives([page EXCEPT !.store = t])
                         \/ PageReceives([page EXCEPT !.store = t, !.fillLive = 0])
        BY <1>2, <2>7 DEF ReceivesFillChange, Receives
      <3> HIDE DEF T, PageReceives
      <3> QED BY <2>4, <2>5, <3>1
    <2>8. CASE ReceivesTextureChange
      <3> DEFINE o == [page EXCEPT !.edit.applying = FALSE]
                 t == ApplyGeometryEditResult(o.store, revision)
                 p == [o EXCEPT !.store = t, !.edit.record = revision,
                                !.edit.revision = revision]
      <3>1. o.store = s /\ DOMAIN o = PageFields /\ o.out = page.out
            /\ o.fillRun = page.fillRun /\ o.fillLive = page.fillLive
        BY <1>1 DEF PageFields
      <3>2. \/ PageReceives(p)
            \/ \E u \in T : PageReceives([page EXCEPT !.store = u, !.edit.record = 0])
        <4> HIDE DEF o
        <4> QED BY <1>2, <2>1, <2>8 DEF ReceivesTextureChange, Receives, MayInstallEdit, o
      <3>3. t \in T
        <4> HIDE DEF o
        <4> QED BY <3>1
      <3> HIDE DEF o, t
      <3>4. /\ DOMAIN p = PageFields /\ p.store = t /\ p.out = page.out
            /\ p.fillRun = page.fillRun /\ p.fillLive = page.fillLive
        BY <3>1 DEF PageFields
      <3> HIDE DEF p, T, A, PageReceives
      <3>5. FillsIn(p, A)
        BY <2>3, <3>3, <3>4
      <3> QED BY <2>5, <3>2, <3>5 DEF A
    <2> QED BY <2>6, <2>7, <2>8
  <1>3. CASE Outcome = "failed"
    <2>1. FillsIn(page, A)
      <3>1. ~Moves(toPage[1])
        BY <1>0, <1>3, FirstAnswer DEF Outcome, Moves
      <3> QED BY <1>0, <3>1, InHeard
    <2> HIDE DEF A, PageReceives
    <2>2. CASE ReceivesRepairChange
      <3> DEFINE t == FailRepairChange(s)
                 p == [page EXCEPT !.store = t]
      <3>1. PageReceives(p)
        BY <1>3, <2>2 DEF ReceivesRepairChange, Receives
      <3>2. ShownFill(s, t)
        <4> HIDE DEF t
        <4> QED BY <1>1, OtherSlices DEF t
      <3> HIDE DEF t, p
      <3>3. FillsIn(p, A)
        BY <2>1, <3>2, InSlice DEF p
      <3> QED BY <3>1, <3>3 DEF A
    <2>3. CASE ReceivesTextureChange
      <3> DEFINE p == [page EXCEPT !.edit.applying = FALSE]
      <3>1. PageReceives(p) \/ PageReceives(page)
        BY <1>3, <2>3 DEF ReceivesTextureChange, Receives
      <3>2. /\ DOMAIN p = PageFields /\ p.out = page.out /\ p.store = page.store
            /\ p.fillRun = page.fillRun /\ p.fillLive = page.fillLive
        BY <1>1 DEF PageFields
      <3> HIDE DEF p
      <3>3. FillsIn(p, A)
        <4>1. Shaped(p) /\ KeepsFill(page, p)
          BY <1>1, <3>2 DEF Shaped, KeepsFill
        <4> QED BY <2>1, <3>2, <4>1, InKept
      <3> QED BY <2>1, <3>1, <3>3 DEF A
    <2>4. CASE ReceivesFillChange
      <3> DEFINE t == FailHoleFillChange(s)
                 u == [page EXCEPT !.store = t]
                 e == ClearHoleFillCandidate(u.store)
                 v == [u EXCEPT !.store = e]
                 id == s.holeFill.candidate.id
                 p == ReleaseFillCandidate(v, id)
      <3>1. PageReceives(u) \/ PageReceives(p)
        BY <1>3, <2>4 DEF ReceivesFillChange, Receives
      <3>0. PICK state : state # "ready"
        BY "idle" # "ready"
      <3>2. ShownFill(s, t)
        <4>1. s.holeFill.workState # "ready" => s.holeFill.candidate = NoCandidate
          BY InShown
        <4> HIDE DEF t
        <4> QED BY <1>1, <3>0, <4>1, FillSlice DEF t
      <3> HIDE DEF t, u
      <3>3. FillsIn(u, A) /\ u.store = t /\ u.fillRun = page.fillRun
        BY <2>1, <3>2, InSlice DEF u
      <3>4. ShownFill(u.store, e) /\ DropsFill(e)
        <4>1. /\ ShapedStore(u.store)
              /\ u.store.holeFill.workState # "ready" => u.store.holeFill.candidate = NoCandidate
          BY <3>3, InShown
        <4> HIDE DEF e
        <4> QED BY <3>0, <4>1, FillSlice DEF e
      <3> HIDE DEF e, v
      <3>5. FillsIn(v, A) /\ v.store = e /\ v.fillRun = page.fillRun
        BY <3>3, <3>4, InSlice DEF v
      <3>6. id # 0 => id # v.fillRun /\ id # v.store.holeFill.candidate.id
        BY <3>4, <3>5, InShown, Nothings DEF DropsFill
      <3> HIDE DEF id, p
      <3>7. FillsIn(p, A)
        BY <3>5, <3>6, InReleased DEF p
      <3> QED BY <3>1, <3>3, <3>7 DEF A
    <2> QED BY <2>2, <2>3, <2>4
  <1> QED BY <1>0, <1>2, <1>3
-----------------------------------------------------------------------------
(* From one handler to the next.                                            *)

FillInv == FillsOf(page, toWorker, serving, toPage, resident.fillCandidate, UnderWay)

LEMMA FillsOnThePage ==
    ASSUME HandledInv, FillInv
    PROVE  FillsIn(page, toPage)
  <1>1. page \in Pages /\ page.store \in Stores /\ page.out = <<>> /\ toWorker \in Seq(Requests)
    BY DEF HandledInv, ChannelInv, PageInv, StoreInv
  <1>2. Shaped(page)
    <2>1. page.store.holeFill \in HoleFills /\ DOMAIN page.store = StoreFields
      BY <1>1 DEF Stores, StoreFields
    <2>2. DOMAIN page.store.holeFill = HoleFillFields
      BY <2>1 DEF HoleFills, HoleFillFields
    <2>3. DOMAIN page = PageFields
      <3> HIDE DEF Stores, Requests, Subjects, AllSetups, Streams
      <3> QED BY <1>1 DEF Pages, PageFields
    <2> QED BY <2>1, <2>2, <2>3 DEF Shaped, ShapedStore
  <1>3. toWorker \o page.out = toWorker /\ Range(page.out) = {} /\ page.out \in Seq(Requests)
    <2> HIDE DEF Requests
    <2> QED BY <1>1 DEF Range
  <1>4. UnderWay \cup Range(page.out) = UnderWay
    BY <1>3
  <1>5. FillsOf(page, toWorker \o page.out, serving, toPage, resident.fillCandidate,
                UnderWay \cup Range(page.out))
    BY <1>3, <1>4 DEF FillInv
  <1>6. \A i \in 1 .. Len(toPage) : toPage[i].request \in UnderWay
    <2>1. toPage \in Seq(AnswersOf)
      BY DEF HandledInv, ChannelInv
    <2> HIDE DEF AnswersOf
    <2>2. \A i \in 1 .. Len(toPage) : toPage[i] \in Range(toPage)
      BY <2>1 DEF Range
    <2> QED BY <2>2 DEF UnderWay
  <1> QED BY <1>1, <1>2, <1>3, <1>5, <1>6 DEF FillsIn

LEMMA FillsSettle ==
    ASSUME NEW p, NEW A, FillsIn(p, A), PageBecomes(p, A), Range(A) \subseteq Range(toPage)
    PROVE  FillInv'
  <1> DEFINE q == Effects(p)
             u == [q EXCEPT !.out = <<>>]
             v == [q EXCEPT !.out = <<>>, !.stop = {}]
             R == Range(toWorker \o q.out) \cup serving \cup {a.request : a \in Range(A)}
  <1>1. FillsIn(q, A)
    <2> HIDE DEF q
    <2> QED BY InEffects DEF q
  <1>2. /\ page' = WithLiveTokens(v, R) /\ toWorker' = toWorker \o q.out /\ toPage' = A
        /\ serving' = serving /\ resident' = resident
    BY DEF PageBecomes
  <1> HIDE DEF q
  <1>3. UnderWay' \subseteq UnderWay \cup Range(q.out)
    <2>1. PICK T : toWorker \in Seq(T) /\ q.out \in Seq(T)
      BY <1>1 DEF FillsIn
    <2>2. Range(toWorker') = Range(toWorker) \cup Range(q.out)
      BY <1>2, <2>1, RangeConcatenation
    <2> QED BY <1>2, <2>2 DEF UnderWay
  <1>4. /\ DOMAIN v = PageFields /\ v.store = q.store /\ v.fillRun = q.fillRun
        /\ v.fillLive = q.fillLive
    BY <1>1 DEF FillsIn, Shaped, PageFields
  <1>5. ShapedStore(q.store)
    BY <1>1, InShown
  <1> HIDE DEF v, R
  <1> DEFINE a == Kept(v.store.analysisToken, "analysis", R)
             b == Kept(v.store.repairToken, "repair", R)
             c == Kept(v.store.holeFillToken, "fill", R)
             d == Kept(v.repairActive, "repair", R)
             e == Kept(v.fillActive, "fill", R)
             t == [v.store EXCEPT !.analysisToken = a, !.repairToken = b, !.holeFillToken = c]
  <1>6. page' = [v EXCEPT !.store = t, !.repairActive = d, !.fillActive = e]
    <2> HIDE DEF Kept
    <2> QED BY <1>2, <1>4, <1>5 DEF WithLiveTokens, PageFields, ShapedStore, StoreFields
  <1> HIDE DEF a, b, c, d, e
  <1>7. t.revision = q.store.revision /\ t.holeFill = q.store.holeFill
    BY <1>4, <1>5 DEF ShapedStore, StoreFields
  <1> HIDE DEF t
  <1>8. page'.store = t /\ page'.fillRun = q.fillRun /\ page'.fillLive = q.fillLive
    BY <1>4, <1>6 DEF PageFields
  <1>9. KeepsFill(q, page')
    BY <1>7, <1>8 DEF KeepsFill
  <1>10. FillsOf(page', toWorker', serving', toPage', resident'.fillCandidate,
                 UnderWay \cup Range(q.out))
    <2>1. FillsOf(q, toWorker \o q.out, serving, A, resident.fillCandidate,
                  UnderWay \cup Range(q.out))
      BY <1>1 DEF FillsIn
    <2> QED BY <1>2, <1>9, <2>1, FillsKept
  <1>11. AskedBefore(UnderWay', page'.store.revision)
    BY <1>3, <1>10 DEF FillsOf, AskedBefore
  <1> QED BY <1>10, <1>11 DEF FillInv, FillsOf

LEMMA PageActsKeepFills ==
    ASSUME PageIInv, FillInv, UserActs \/ PageHears
    PROVE  FillInv'
  <1>1. HandledInv /\ VersionInv /\ FillsIn(page, toPage) /\ Bounded
    BY FillsOnThePage, UnderWayIsBounded DEF PageIInv, HandledInv
  <1>2. CASE UserActs
    <2>1. Current(page, UnderWay)
      <3>1. page.startedFor # Nothing
        <4>1. \A p : UserDoes(p) => page.startedFor # Nothing
          BY DEF UserDoes, UserMay
        <4> HIDE DEF UserDoes
        <4> QED BY <1>2, <4>1 DEF UserActs, SelectsPart, RunsAnalysis, CancelsAnalysis, Replans,
            ChangesSelection, PreviewsRepair, CancelsRepair, DiscardsRepair, AppliesRepair,
            UndoesRepair, SelectsOpening, PreviewsFill, CancelsFillPreview, DiscardsFill,
            AppliesFill, UndoesFill, RetriesListing, AppliesTexture, UndoesTexture
      <3> QED BY <1>1, <3>1 DEF HandledInv, ChannelInv, Current
    <2>2. \E p : PageBecomes(p, toPage) /\ FillsIn(p, toPage)
      BY <1>1, <1>2, <2>1, RepairActionsKeepFills, PreviewKeepsFills, FillActionsKeepFills
         DEF UserActs
    <2> QED BY <2>2, FillsSettle
  <1>3. CASE Imported
    <2>1. PageBecomes(page, toPage)
      BY <1>3 DEF Imported
    <2> QED BY <1>1, <2>1, FillsSettle
  <1>4. CASE PageHears /\ ~Imported
    <2>1. toPage # <<>>
      BY <1>4 DEF PageHears, ReceivesAnalysis, ReceivesPlan, ReceivesRepairCandidate,
          ReceivesListing, ReceivesFill, ReceivesRepairChange, ReceivesFillChange,
          ReceivesTextureChange, Receives
    <2>2. \E p : PageReceives(p) /\ FillsIn(p, Tail(toPage))
      BY <1>1, <1>4, OtherAnswersKeepFills, FillAnswersKeepFills, ChangeAnswersKeepFills
         DEF PageHears
    <2>3. Range(Tail(toPage)) \subseteq Range(toPage)
      BY <1>1, <2>1, Hears
    <2> QED BY <2>2, <2>3, FillsSettle DEF PageReceives
  <1> QED BY <1>2, <1>3, <1>4
-----------------------------------------------------------------------------
(* What the worker does leaves the fills in order.                          *)

LEMMA FillsWorked ==
    ASSUME NEW p, NEW w, NEW S, NEW A, NEW held, NEW R, FillsOf(p, w, S, A, held, R),
           NEW v, NEW S2, NEW A2, NEW held2, NEW R2, R2 \subseteq R,
           Queue(v, S2, p.fillRun), NoFill(w, S) => NoFill(v, S2),
           \A i \in 1 .. Len(v) : \E j \in 1 .. Len(w) : v[i] = w[j],
           NoFill(w, S) =>
             \A c : c.id \in {p.fillRun, p.store.holeFill.candidate.id} /\ Held(c, held, A)
                      => Held(c, held2, A2),
           \A i \in 1 .. Len(A2) :
              \/ \E j \in 1 .. Len(A) : A2[i] = A[j]
              \/ IsFill(A2[i].request) /\ A2[i].request.token = p.fillRun =>
                   /\ NoFill(v, S2)
                   /\ A2[i].outcome = "result" =>
                        Held(Candidate(p.fillRun, A2[i].request.subject,
                                       A2[i].request.opening), held2, A2)
    PROVE  FillsOf(p, v, S2, A2, held2, R2)
  <1>1. Previewed(p.store.holeFill, p.fillRun, v, S2, A2, held2)
    BY DEF FillsOf, Previewed
  <1>2. Discarded(p.store.holeFill, p.fillRun, p.fillLive, v)
    BY DEF FillsOf, Discarded
  <1>3. Returned(p.fillRun, p.store.revision, v, S2, A2, held2)
    <2> SUFFICES ASSUME NEW i \in 1 .. Len(A2), IsFill(A2[i].request),
                        A2[i].request.token = p.fillRun
                 PROVE  /\ NoFill(v, S2)
                        /\ /\ A2[i].outcome = "result"
                           /\ A2[i].request.subject.revision = p.store.revision
                           => Held(Candidate(p.fillRun, A2[i].request.subject,
                                             A2[i].request.opening), held2, A2)
      BY DEF Returned
    <2>1. CASE \E j \in 1 .. Len(A) : A2[i] = A[j]
      <3>1. PICK j \in 1 .. Len(A) : A2[i] = A[j]
        BY <2>1
      <3> DEFINE c == Candidate(p.fillRun, A2[i].request.subject, A2[i].request.opening)
      <3>2. c.id = p.fillRun
        BY DEF Candidate
      <3> HIDE DEF c
      <3> DEFINE a == A2[i]
                 d == Candidate(p.fillRun, A[j].request.subject, A[j].request.opening)
      <3>3. IsFill(A[j].request) /\ A[j].request.token = p.fillRun
        BY <3>1
      <3>4. NoFill(w, S)
        BY <3>3 DEF FillsOf, Returned
      <3>5. A[j].outcome = "result" /\ A[j].request.subject.revision = p.store.revision
              => Held(d, held, A)
        BY <3>3 DEF FillsOf, Returned
      <3>6. d = c /\ A[j] = a
        BY <3>1 DEF c
      <3> HIDE DEF d, a
      <3>7. Held(c, held, A) => Held(c, held2, A2)
        BY <3>2, <3>4
      <3>8. NoFill(v, S2)
            /\ (a.outcome = "result" /\ a.request.subject.revision = p.store.revision
                  => Held(c, held2, A2))
        BY <3>4, <3>5, <3>6, <3>7
      <3> QED BY <3>8 DEF c, a
    <2>2. CASE ~\E j \in 1 .. Len(A) : A2[i] = A[j]
      BY <2>2
    <2> QED BY <2>1, <2>2
  <1>4. AskedBefore(R2, p.store.revision)
    BY DEF FillsOf, AskedBefore
  <1> QED BY <1>1, <1>2, <1>3, <1>4 DEF FillsOf

LEMMA RequestIsRead ==
    ASSUME HandledInv, NEW r, TakesRequest(r)
    PROVE  /\ toWorker \in Seq(Requests) /\ toWorker # <<>> /\ r = toWorker[1]
           /\ 1 \in 1 .. Len(toWorker) /\ toWorker' = Tail(toWorker)
           /\ \A i \in 1 .. Len(toWorker') : \E j \in 1 .. Len(toWorker) :
                toWorker'[i] = toWorker[j]
           /\ NoFill(toWorker, serving) => ~IsFill(r) /\ NoFill(toWorker', serving)
  <1> HIDE DEF Requests
  <1>1. /\ toWorker \in Seq(Requests) /\ toWorker # <<>> /\ r = toWorker[1]
        /\ 1 \in 1 .. Len(toWorker) /\ toWorker' = Tail(toWorker)
    BY DEF HandledInv, ChannelInv, TakesRequest
  <1>2. \A i \in 1 .. Len(toWorker') :
          i + 1 \in 1 .. Len(toWorker) /\ toWorker'[i] = toWorker[i + 1]
    BY <1>1
  <1> QED BY <1>1, <1>2 DEF NoFill

(* A step of the worker that answers at most r.                             *)
LEMMA StepKeepsFills ==
    ASSUME HandledInv, FillInv, page' = page,
           toWorker' = toWorker \/ \E x : TakesRequest(x),
           NEW r \in UnderWay, serving' \subseteq serving \cup {r},
           NEW outcome \in Outcomes, NEW n \in Nat,
           toPage' = toPage \/ toPage' = Append(toPage, Answer(r, outcome, n)),
           Queue(toWorker', serving', page.fillRun),
           NoFill(toWorker, serving) => NoFill(toWorker', serving'),
           toPage' # toPage /\ IsFill(r) /\ r.token = page.fillRun =>
             /\ NoFill(toWorker', serving')
             /\ outcome = "result" =>
                  resident'.fillCandidate = Candidate(r.token, r.subject, r.opening),
           \/ resident'.fillCandidate = resident.fillCandidate
           \/ \E i \in 1 .. Len(toPage') : Moves(toPage'[i])
           \/ ~NoFill(toWorker, serving)
           \/ resident.fillCandidate.id \notin {page.fillRun, page.store.holeFill.candidate.id}
    PROVE  FillInv'
  <1> DEFINE a == Answer(r, outcome, n)
             m == Len(toPage)
  <1>1. /\ a.request = r /\ a.outcome = outcome
        /\ Range(Append(toPage, a)) = Range(toPage) \cup {a}
        /\ Len(Append(toPage, a)) = m + 1 /\ m \in Nat
        /\ Append(toPage, a)[m + 1] = a
        /\ \A i \in 1 .. m : Append(toPage, a)[i] = toPage[i]
    <2> HIDE DEF a
    <2> QED BY AnswersArrive DEF a
  <1>2. toPage' = toPage \/ toPage' = Append(toPage, a)
    OBVIOUS
  <1> HIDE DEF a
  <1>3. \A i \in 1 .. m : i \in 1 .. Len(toPage') /\ toPage'[i] = toPage[i]
    BY <1>1, <1>2
  <1>4. \A i \in 1 .. Len(toPage') :
          (\E j \in 1 .. m : toPage'[i] = toPage[j]) \/ (toPage' # toPage /\ toPage'[i] = a)
    <2> SUFFICES ASSUME NEW i \in 1 .. Len(toPage'), toPage' # toPage, i \notin 1 .. m
                 PROVE  toPage'[i] = a
      BY <1>3
    <2> QED BY <1>1, <1>2
  <1>5. UnderWay' \subseteq UnderWay
    <2>1. Range(toWorker') \subseteq Range(toWorker)
      BY RequestsAreTaken
    <2>2. Range(toPage') \subseteq Range(toPage) \cup {a}
      BY <1>1, <1>2
    <2> QED BY <1>1, <2>1, <2>2 DEF UnderWay
  <1>6. \A i \in 1 .. Len(toWorker') : \E j \in 1 .. Len(toWorker) : toWorker'[i] = toWorker[j]
    BY RequestIsRead
  <1>7. ASSUME NEW c, NoFill(toWorker, serving), Held(c, resident.fillCandidate, toPage),
               c.id \in {page.fillRun, page.store.holeFill.candidate.id}
        PROVE  Held(c, resident'.fillCandidate, toPage')
    <2>1. (\E i \in 1 .. m : Moves(toPage[i])) => \E i \in 1 .. Len(toPage') : Moves(toPage'[i])
      BY <1>3
    <2> QED BY <1>7, <2>1 DEF Held
  <1>8. ASSUME NEW i \in 1 .. Len(toPage'), toPage' # toPage, toPage'[i] = a,
               IsFill(toPage'[i].request), toPage'[i].request.token = page.fillRun
        PROVE  /\ NoFill(toWorker', serving')
               /\ toPage'[i].outcome = "result" =>
                    Held(Candidate(page.fillRun, toPage'[i].request.subject,
                                   toPage'[i].request.opening),
                         resident'.fillCandidate, toPage')
    BY <1>1, <1>8 DEF Held
  <1>9. FillsOf(page, toWorker', serving', toPage', resident'.fillCandidate, UnderWay')
    <2>1. FillsOf(page, toWorker, serving, toPage, resident.fillCandidate, UnderWay)
      BY DEF FillInv
    <2> HIDE DEF m
    <2>2. m = Len(toPage)
      BY DEF m
    <2>3. \A i \in 1 .. Len(toPage') :
            \/ \E j \in 1 .. Len(toPage) : toPage'[i] = toPage[j]
            \/ IsFill(toPage'[i].request) /\ toPage'[i].request.token = page.fillRun =>
                 /\ NoFill(toWorker', serving')
                 /\ toPage'[i].outcome = "result" =>
                      Held(Candidate(page.fillRun, toPage'[i].request.subject,
                                     toPage'[i].request.opening),
                           resident'.fillCandidate, toPage')
      BY <1>4, <1>8, <2>2
    <2>4. NoFill(toWorker, serving) =>
            \A c : c.id \in {page.fillRun, page.store.holeFill.candidate.id}
                     /\ Held(c, resident.fillCandidate, toPage)
                     => Held(c, resident'.fillCandidate, toPage')
      BY <1>7
    <2> DEFINE v == toWorker'
               S2 == serving'
               A2 == toPage'
               held2 == resident'.fillCandidate
               R2 == UnderWay'
    <2>5. Queue(v, S2, page.fillRun) /\ R2 \subseteq UnderWay
          /\ (NoFill(toWorker, serving) => NoFill(v, S2))
          /\ \A i \in 1 .. Len(v) : \E j \in 1 .. Len(toWorker) : v[i] = toWorker[j]
      BY <1>5, <1>6
    <2> HIDE DEF v, S2, A2, held2, R2
    <2>6. FillsOf(page, v, S2, A2, held2, R2)
      <3>1. \A i \in 1 .. Len(A2) :
            \/ \E j \in 1 .. Len(toPage) : A2[i] = toPage[j]
            \/ IsFill(A2[i].request) /\ A2[i].request.token = page.fillRun =>
                 /\ NoFill(v, S2)
                 /\ A2[i].outcome = "result" =>
                      Held(Candidate(page.fillRun, A2[i].request.subject,
                                     A2[i].request.opening), held2, A2)
        BY <2>3 DEF v, S2, A2, held2
      <3>2. NoFill(toWorker, serving) =>
            \A c : c.id \in {page.fillRun, page.store.holeFill.candidate.id}
                     /\ Held(c, resident.fillCandidate, toPage) => Held(c, held2, A2)
        BY <2>4 DEF held2, A2
      <3> QED BY <2>1, <2>5, <3>1, <3>2, FillsWorked
    <2> QED BY <2>6 DEF v, S2, A2, held2, R2
  <1> QED BY <1>9 DEF FillInv

(* The worker answers a request it awaited, and keeps the candidates.       *)
LEMMA ServedKeepsFills ==
    ASSUME HandledInv, FillInv, page' = page, toWorker' = toWorker,
           NEW r \in serving, serving' = serving \ {r},
           NEW outcome \in Outcomes, NEW n \in Nat,
           toPage' = Append(toPage, Answer(r, outcome, n)),
           \/ resident' = resident /\ (IsFill(r) => outcome # "result")
           \/ /\ IsFill(r)
              /\ resident'.fillCandidate = Candidate(r.token, r.subject, r.opening)
    PROVE  FillInv'
  <1>1. /\ Queue(toWorker', serving', page.fillRun)
        /\ NoFill(toWorker, serving) => NoFill(toWorker', serving')
        /\ IsFill(r) /\ r.token = page.fillRun => NoFill(toWorker', serving')
    <2> DEFINE S2 == serving \ {r}
    <2>1. \A q \in S2 : IsFill(q) => q \in serving
      OBVIOUS
    <2>2. Queue(toWorker, serving, page.fillRun)
      BY DEF FillInv, FillsOf
    <2> HIDE DEF S2
    <2>3. Queue(toWorker, S2, page.fillRun) /\ (NoFill(toWorker, serving) => NoFill(toWorker, S2))
      BY <2>1, <2>2, QueueIsServed
    <2>4. \A q \in serving : IsFill(q) /\ q.token = page.fillRun => NoFill(toWorker, serving \ {q})
      BY <2>1, <2>2, QueueIsServed
    <2> QED BY <2>3, <2>4 DEF S2
  <1>2. r \in UnderWay /\ serving' \subseteq serving \cup {r}
    BY DEF UnderWay
  <1>3. \/ resident'.fillCandidate = resident.fillCandidate
        \/ ~NoFill(toWorker, serving)
    BY DEF NoFill
  <1>4. IsFill(r) /\ outcome = "result" =>
          resident'.fillCandidate = Candidate(r.token, r.subject, r.opening)
    OBVIOUS
  <1> QED BY <1>1, <1>2, <1>3, <1>4, StepKeepsFills

(* The worker takes a message that is neither a fill nor the stop of one,   *)
(* or refuses a fill, or begins one.                                        *)
LEMMA TakenKeepsFills ==
    ASSUME HandledInv, FillInv, page' = page, NEW r, TakesRequest(r), ~IsStop(r),
           NEW outcome \in Outcomes, NEW n \in Nat, IsFill(r) => outcome # "result",
           toPage' = toPage \/ toPage' = Append(toPage, Answer(r, outcome, n)),
           serving' = serving \/ (serving' = serving \cup {r} /\ toPage' = toPage),
           \/ resident'.fillCandidate = resident.fillCandidate
           \/ \E i \in 1 .. Len(toPage') : Moves(toPage'[i])
           \/ resident.fillCandidate.id \notin {page.fillRun, page.store.holeFill.candidate.id}
    PROVE  FillInv'
  <1> HIDE DEF Requests
  <1>1. /\ toWorker \in Seq(Requests) /\ toWorker # <<>> /\ r = toWorker[1]
        /\ toWorker' = Tail(toWorker)
        /\ NoFill(toWorker, serving) => ~IsFill(r) /\ NoFill(toWorker', serving)
    BY RequestIsRead
  <1>2. Queue(toWorker, serving, page.fillRun) /\ r \in UnderWay
    BY RequestsAreTaken DEF FillInv, FillsOf
  <1> DEFINE v == Tail(toWorker)
  <1>3. /\ Queue(v, serving, page.fillRun)
        /\ IsFill(r) /\ r.token = page.fillRun => NoFill(v, serving)
    <2>1. serving \subseteq serving /\ \A q \in serving : q \in serving \/ q = toWorker[1]
      OBVIOUS
    <2> HIDE DEF v
    <2>2. v = Tail(toWorker)
      BY DEF v
    <2> QED BY <1>1, <1>2, <2>1, <2>2, QueueIsRead
  <1>4. Queue(v, serving', page.fillRun)
    <2>1. CASE serving' = serving
      BY <1>3, <2>1
    <2>2. CASE serving' = serving \cup {r} /\ ~IsFill(r)
      <3> DEFINE S2 == serving \cup {r}
      <3>1. \A q \in S2 : IsFill(q) => q \in serving
        BY <2>2
      <3> HIDE DEF v, S2
      <3>2. Queue(v, S2, page.fillRun)
        BY <1>3, <3>1, QueueIsServed
      <3> QED BY <2>2, <3>2 DEF S2
    <2>3. CASE serving' = serving \cup {r} /\ IsFill(r)
      <3> DEFINE S2 == serving \cup {r}
      <3>1. S2 = serving \cup {toWorker[1]} /\ IsFill(toWorker[1])
            /\ \A q \in S2 : q \in serving \/ q = toWorker[1]
        BY <1>1, <2>3
      <3> HIDE DEF v, S2
      <3>2. v = Tail(toWorker)
        BY DEF v
      <3>3. Queue(v, S2, page.fillRun)
        BY <1>1, <1>2, <3>1, <3>2, QueueIsRead
      <3> QED BY <2>3, <3>3 DEF S2
    <2> QED BY <2>1, <2>2, <2>3
  <1>5. NoFill(toWorker, serving) => NoFill(toWorker', serving')
    <2> HIDE DEF v
    <2> QED BY <1>1 DEF NoFill
  <1>6. serving' \subseteq serving \cup {r}
    OBVIOUS
  <1>7. toPage' # toPage /\ IsFill(r) /\ r.token = page.fillRun => NoFill(toWorker', serving')
    <2> HIDE DEF v
    <2>1. toPage' # toPage => serving' = serving
      OBVIOUS
    <2> QED BY <1>1, <1>3, <2>1 DEF v
  <1>8. Queue(toWorker', serving', page.fillRun)
    BY <1>1, <1>4
  <1> QED BY <1>2, <1>5, <1>6, <1>7, <1>8, StepKeepsFills

LEMMA WorkerActsKeepFills ==
    ASSUME PageIInv, FillInv, WorkerActs
    PROVE  FillInv'
  <1>1. HandledInv /\ resident \in Residents /\ 0 \in Nat
        /\ "failed" \in Outcomes /\ "cancelled" \in Outcomes /\ "result" \in Outcomes
    BY DEF PageIInv, Outcomes
  <1>2. \A r : r.kind \in Slow \cup {"list"} \cup Discards \cup Changes => ~IsStop(r)
    BY DEF IsStop, Slow, Discards, Changes
  <1>3. \A r : r.kind \in {"list"} \cup Discards \cup Changes => ~IsFill(r)
    BY DEF IsFill, Discards, Changes
  <1>4. CASE Refuses
    <2>1. PICK r : /\ TakesRequest(r) /\ r.kind \in Slow \cup {"list"}
                   /\ Answers(r, IF SeesWord(r) THEN "cancelled" ELSE "failed", 0)
                   /\ UNCHANGED <<page, serving, words, resident>>
      BY <1>4 DEF Refuses
    <2>2. PICK outcome \in Outcomes : /\ outcome # "result"
                                      /\ toPage' = Append(toPage, Answer(r, outcome, 0))
      BY <1>1, <2>1 DEF Answers
    <2> QED BY <1>1, <1>2, <2>1, <2>2, TakenKeepsFills
  <1>5. CASE BeginsServing
    <2>1. PICK r : /\ TakesRequest(r) /\ r.kind \in Slow /\ serving' = serving \cup {r}
                   /\ UNCHANGED <<page, toPage, words, resident>>
      BY <1>5 DEF BeginsServing
    <2> QED BY <1>1, <1>2, <2>1, TakenKeepsFills
  <1>6. CASE ListsOpenings
    <2>1. PICK r : /\ TakesRequest(r) /\ r.kind = "list" /\ Answers(r, "result", 0)
                   /\ UNCHANGED <<page, serving, words, resident>>
      BY <1>6 DEF ListsOpenings
    <2> QED BY <1>1, <1>2, <1>3, <2>1, TakenKeepsFills DEF Answers
  <1>7. CASE DiscardsCandidate
    <2>1. PICK r : /\ TakesRequest(r) /\ r.kind \in Discards
                   /\ resident' =
                        IF r.kind = "discardRepair" /\ resident.repairCandidate.id = r.id
                        THEN [resident EXCEPT !.repairCandidate = NoCandidate]
                        ELSE IF r.kind = "discardFill" /\ resident.fillCandidate.id = r.id
                        THEN [resident EXCEPT !.fillCandidate = NoCandidate]
                        ELSE resident
                   /\ UNCHANGED <<page, toPage, serving, words>>
      BY <1>7 DEF DiscardsCandidate
    <2>2. \/ resident'.fillCandidate = resident.fillCandidate
          \/ r.kind = "discardFill" /\ resident.fillCandidate.id = r.id
      <3> HIDE DEF NoCandidate
      <3> QED BY <1>1, <2>1 DEF Residents
    <2>3. r.kind = "discardFill" =>
            r.id \notin {page.fillRun, page.store.holeFill.candidate.id}
      BY <1>1, <2>1, RequestIsRead DEF FillInv, FillsOf, Discarded
    <2>4. \/ resident'.fillCandidate = resident.fillCandidate
          \/ resident.fillCandidate.id \notin {page.fillRun, page.store.holeFill.candidate.id}
      BY <2>2, <2>3
    <2> QED BY <1>1, <1>2, <1>3, <2>1, <2>4, TakenKeepsFills
  <1>8. CASE ChangesDocument
    <2>1. PICK r : /\ TakesRequest(r) /\ r.kind \in Changes
                   /\ UNCHANGED <<page, serving, words>>
                   /\ \/ Answers(r, "failed", 0) /\ UNCHANGED resident
                      \/ Answers(r, "result", resident.revision + 1)
      BY <1>8 DEF ChangesDocument
    <2>2. CASE Answers(r, "failed", 0) /\ UNCHANGED resident
      BY <1>1, <1>2, <1>3, <2>1, <2>2, TakenKeepsFills DEF Answers
    <2>3. CASE Answers(r, "result", resident.revision + 1)
      <3> DEFINE n == resident.revision + 1
                 a == Answer(r, "result", n)
      <3>1. n \in Nat /\ r \in UnderWay
        BY <1>1, <2>1, RequestsAreTaken DEF Residents
      <3>2. toPage' = Append(toPage, a)
        BY <2>3 DEF Answers
      <3> HIDE DEF n
      <3>3. /\ a.request = r /\ a.outcome = "result"
            /\ Len(toPage') = Len(toPage) + 1 /\ Len(toPage) \in Nat
            /\ toPage'[Len(toPage) + 1] = a
        <4> HIDE DEF a
        <4> QED BY <1>1, <3>1, <3>2, AnswersArrive DEF a
      <3>4. Moves(a)
        BY <2>1, <3>3 DEF Moves
      <3>5. \E i \in 1 .. Len(toPage') : Moves(toPage'[i])
        BY <3>3, <3>4
      <3> QED BY <1>1, <1>2, <1>3, <2>1, <3>1, <3>2, <3>5, TakenKeepsFills
    <2> QED BY <2>1, <2>2, <2>3
  <1>9. CASE StopsFill
    <2>1. PICK r : LET stopped == {q \in serving : q.kind = "fill" /\ q.token = r.token} IN
                   /\ TakesRequest(r) /\ r.kind = "cancelFill"
                   /\ serving' = serving \ stopped
                   /\ toPage' = toPage \/ \E q \in stopped : Answers(q, "cancelled", 0)
                   /\ UNCHANGED <<page, words, resident>>
      BY <1>9 DEF StopsFill
    <2>2. /\ toWorker \in Seq(Requests) /\ toWorker # <<>> /\ r = toWorker[1]
          /\ 1 \in 1 .. Len(toWorker) /\ toWorker' = Tail(toWorker) /\ r \in UnderWay
          /\ IsStop(r) /\ (NoFill(toWorker, serving) => NoFill(toWorker', serving))
      BY <1>1, <2>1, RequestIsRead, RequestsAreTaken DEF IsStop
    <2>3. Queue(toWorker, serving, page.fillRun)
      BY DEF FillInv, FillsOf
    <2>4. r.token # page.fillRun
      BY <2>2, <2>3 DEF Queue
    <2>5. /\ serving' \subseteq serving
          /\ \A q \in serving' : IsFill(q) => q.token # toWorker[1].token
      BY <2>1, <2>2 DEF IsFill
    <2>6. Queue(toWorker', serving', page.fillRun)
      <3> DEFINE v == toWorker'
                 S2 == serving'
      <3>1. v = Tail(toWorker) /\ S2 \subseteq serving /\ IsStop(toWorker[1])
            /\ (\A q \in S2 : IsFill(q) => q.token # toWorker[1].token)
            /\ \A q \in S2 : q \in serving \/ q = toWorker[1]
        BY <2>2, <2>5
      <3> HIDE DEF v, S2, Requests
      <3>2. Queue(v, S2, page.fillRun)
        BY <2>2, <2>3, <3>1, QueueIsRead
      <3> QED BY <3>2 DEF v, S2
    <2>7. NoFill(toWorker, serving) => NoFill(toWorker', serving')
      BY <2>2, <2>5 DEF NoFill
    <2>9. page' = page /\ resident' = resident
      BY <2>1
    <2>10. CASE toPage' = toPage
      <3>1. serving' \subseteq serving \cup {r}
        BY <2>5
      <3> QED BY <1>1, <2>1, <2>2, <2>6, <2>7, <2>9, <2>10, <3>1, StepKeepsFills
    <2>11. ASSUME NEW q \in serving, q.token = r.token, Answers(q, "cancelled", 0)
           PROVE  FillInv'
      <3>1. serving' \subseteq serving \cup {q} /\ q \in UnderWay /\ q.token # page.fillRun
        BY <2>4, <2>5, <2>11 DEF UnderWay
      <3>2. toPage' = Append(toPage, Answer(q, "cancelled", 0))
        BY <2>11 DEF Answers
      <3> QED BY <1>1, <2>1, <2>6, <2>7, <2>9, <3>1, <3>2, StepKeepsFills
    <2> QED BY <2>1, <2>10, <2>11
  <1>10. ASSUME NEW r \in serving,
                ServingFails(r) \/ ReportsOrPlans(r) \/ BuildsFill(r) \/ RegistersRepair(r)
                  \/ BuildsRepair(r)
         PROVE  FillInv'
    <2>1. CASE ServingFails(r)
      <3>1. PICK outcome \in Outcomes : /\ outcome # "result"
                                        /\ toPage' = Append(toPage, Answer(r, outcome, 0))
        BY <1>1, <2>1 DEF ServingFails, Answers
      <3> QED BY <1>1, <2>1, <3>1, ServedKeepsFills DEF ServingFails
    <2>2. CASE ReportsOrPlans(r)
      <3>1. ~IsFill(r) /\ toPage' = Append(toPage, Answer(r, "result", 0))
        BY <2>2 DEF ReportsOrPlans, IsFill, Answers
      <3> QED BY <1>1, <2>2, <3>1, ServedKeepsFills DEF ReportsOrPlans
    <2>3. CASE BuildsRepair(r)
      <3>1. PICK outcome \in Outcomes : toPage' = Append(toPage, Answer(r, outcome, 0))
        BY <1>1, <2>3 DEF BuildsRepair, Answers
      <3>2. ~IsFill(r)
        BY <2>3 DEF BuildsRepair, Registered, IsFill
      <3> QED BY <1>1, <2>3, <3>1, <3>2, ServedKeepsFills DEF BuildsRepair
    <2>4. CASE BuildsFill(r)
      <3>1. IsFill(r) /\ toPage' = Append(toPage, Answer(r, "result", 0))
        BY <2>4 DEF BuildsFill, IsFill, Answers
      <3>2. resident'.fillCandidate = Candidate(r.token, r.subject, r.opening)
        <4> HIDE DEF Candidate
        <4> QED BY <1>1, <2>4 DEF BuildsFill, Residents
      <3> QED BY <1>1, <2>4, <3>1, <3>2, ServedKeepsFills DEF BuildsFill
    <2>5. CASE RegistersRepair(r)
      <3>1. resident'.fillCandidate = resident.fillCandidate
        <4> HIDE DEF Candidate
        <4> QED BY <1>1, <2>5 DEF RegistersRepair, Residents
      <3>2. /\ page' = page /\ toWorker' = toWorker /\ toPage' = toPage /\ serving' = serving
        BY <2>5 DEF RegistersRepair
      <3>3. Queue(toWorker', serving', page.fillRun)
            /\ (NoFill(toWorker, serving) => NoFill(toWorker', serving'))
        BY <3>2 DEF FillInv, FillsOf
      <3>4. r \in UnderWay /\ serving' \subseteq serving \cup {r}
        BY <3>2 DEF UnderWay
      <3> QED BY <1>1, <3>1, <3>2, <3>3, <3>4, StepKeepsFills
    <2> QED BY <1>10, <2>1, <2>2, <2>3, <2>4, <2>5
  <1> QED BY <1>4, <1>5, <1>6, <1>7, <1>8, <1>9, <1>10 DEF WorkerActs

LEMMA FillInvariant == Spec => []FillInv
  <1>1. Init => FillInv
    <2> SUFFICES ASSUME Init PROVE FillInv
      OBVIOUS
    <2>1. PICK setup, part : page = NewPage(setup, part)
      BY DEF Init
    <2>2. toWorker = <<>> /\ toPage = <<>> /\ serving = {} /\ UnderWay = {}
      BY DEF Init, UnderWay, Range
    <2>3. /\ page.fillRun = 0 /\ page.fillLive = 0 /\ page.store.revision = 1
          /\ page.store.holeFill.workState = "idle"
          /\ page.store.holeFill.candidate = NoCandidate
      BY <2>1 DEF NewPage, ImportedStore, EmptyHoleFill
    <2>4. Queue(toWorker, serving, page.fillRun)
      BY <2>2 DEF Queue
    <2>5. /\ Previewed(page.store.holeFill, page.fillRun, toWorker, serving, toPage,
                       resident.fillCandidate)
          /\ Discarded(page.store.holeFill, page.fillRun, page.fillLive, toWorker)
          /\ Returned(page.fillRun, page.store.revision, toWorker, serving, toPage,
                      resident.fillCandidate)
          /\ AskedBefore(UnderWay, page.store.revision)
      BY <2>2, <2>3 DEF Previewed, Discarded, Returned, AskedBefore
    <2> QED BY <2>3, <2>4, <2>5 DEF FillInv, FillsOf
  <1>2. PageIInv /\ FillInv /\ [Next]_vars => FillInv'
    <2> SUFFICES ASSUME PageIInv, FillInv, [Next]_vars PROVE FillInv'
      OBVIOUS
    <2>1. CASE UserActs \/ PageHears
      BY <2>1, PageActsKeepFills
    <2>2. CASE WorkerActs
      BY <2>2, WorkerActsKeepFills
    <2>3. CASE UNCHANGED vars
      BY <2>3 DEF vars, FillInv, UnderWay
    <2> QED BY <2>1, <2>2, <2>3 DEF Next
  <1> QED BY <1>1, <1>2, PageInvariant, PTL DEF Spec

(* Whenever the page offers Apply for a hole fill and no change is under    *)
(* way, the candidate it shows is the one the worker holds: no late fill,   *)
(* no late stop of one and no discard has taken its place.                  *)
THEOREM TheOfferedFillIsHeld == Spec => []OfferedFillApplies
  <1>1. PageIInv /\ FillInv => OfferedFillApplies
    <2> SUFFICES ASSUME PageIInv, FillInv, ~ChangeUnderWay,
                        page.store.holeFill.workState = "ready"
                 PROVE  resident.fillCandidate = page.store.holeFill.candidate
      BY DEF OfferedFillApplies
    <2>1. Held(page.store.holeFill.candidate, resident.fillCandidate, toPage)
      BY DEF FillInv, FillsOf, Previewed
    <2>2. ASSUME NEW i \in 1 .. Len(toPage), Moves(toPage[i]) PROVE FALSE
      <3>1. toPage[i] \in Range(toPage)
        <4> HIDE DEF AnswersOf
        <4>1. toPage \in Seq(AnswersOf)
          BY DEF PageIInv, HandledInv, ChannelInv
        <4>2. i \in DOMAIN toPage
          BY <4>1
        <4> QED BY <4>2 DEF Range
      <3>2. toPage[i].request \in UnderWay /\ toPage[i].request.kind \in Changes
        BY <2>2, <3>1 DEF Moves, UnderWay
      <3> QED BY <3>2 DEF ChangeUnderWay, OfKind
    <2> QED BY <2>1, <2>2 DEF Held
  <1> QED BY <1>1, PageInvariant, FillInvariant, PTL
=============================================================================
