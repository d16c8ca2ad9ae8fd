--------------------------- MODULE PageWorkProofs ---------------------------
(* Theorems about what the page waits for and what it still owes the        *)
(* worker: whatever is shown as going on ends, and no candidate of the      *)
(* worker is forgotten.                                                     *)
EXTENDS PageProofs

-----------------------------------------------------------------------------
(* What is still to be answered. S are the requests that are under way or   *)
(* are about to be posted.                                                  *)

Pending(kind, token, S) == token # 0 /\ \E r \in S : r.kind = kind /\ r.token = token

Claims(kinds, S) == \E r \in S : r.kind \in kinds

(* An analysis that is current is of the model on screen.                   *)
AnalysisEnds(s, S) ==
    /\ s.analysis.state = "analyzing" => Pending("analyze", s.analysisToken, S)
    /\ \A r \in S : r.kind = "analyze" /\ r.token = s.analysisToken /\ r.token # 0
         => r.subject = Shown(s)

PlanEnds(s, S) == s.repair.planState = "planning" => Pending("plan", s.repairToken, S)

(* No plan takes the token of a build, and a build replaces no candidate    *)
(* that is not released.                                                    *)
RepairEnds(s, live, tools, S) ==
    /\ s.repair.candidateState \in {"building", "cancelling"} =>
         /\ Pending("build", s.repairToken, S)
         /\ \A r \in S : r.kind = "plan" => r.token # s.repairToken
    /\ s.repair.commitState # "idle" => Claims({"commitRepair", "undoRepair"}, S)
    /\ \A r \in S : r.kind = "build" /\ r.token = s.repairToken /\ r.token # 0
         => live \in {0, r.token}
    /\ s.repair.planState # "unavailable" \/ s.repair.plan # Nothing \/ Claims({"plan"}, S)
         => "repair" \in tools

(* run is the fill whose end the slice has yet to see, listed whether the   *)
(* effects have listed the openings of the model on screen.                 *)
FillEnds(s, run, tools, listed, S) ==
    LET h == s.holeFill IN
    /\ h.inventory = "listing" => Pending("list", s.holeFillToken, S)
    /\ h.workState \in {"generating", "cancelling"} =>
         /\ run = s.holeFillToken /\ Pending("fill", run, S)
         /\ \A r \in S : r.kind = "fill" /\ r.token = run
              => r.subject = Shown(s) /\ r.opening = h.selected
    /\ h.inventory # "ready" => h.workState = "idle"
    /\ h.commitState # "idle" => Claims({"commitFill", "undoFill"}, S)
    /\ h.inventory # "idle" \/ run # 0 => "fill" \in tools
    /\ listed /\ run # 0 /\ h.inventory # "ready" => s.holeFillToken # run
    /\ ~listed => h.inventory = "idle"

TextureEnds(edit, S) == edit.applying => Claims({"commitEdit"}, S)

Told(stops, stream, id) == <<stream, id>> \in words \cup stops

(* Who will release, or has cancelled, the candidate that the worker holds. *)
RepairFate(live, stops, S) ==
    LET id == resident.repairCandidate.id IN
    id # 0 => \/ live = id \/ Pending("build", id, S)
              \/ \E r \in S : r.kind = "discardRepair" /\ r.id = id
              \/ Told(stops, "repair", id)

(* A fill that the page no longer runs was cancelled.                       *)
FillFate(live, run, stops, S) ==
    LET id == resident.fillCandidate.id IN
    /\ id # 0 => \/ live = id \/ Pending("fill", id, S)
                 \/ \E r \in S : r.kind = "discardFill" /\ r.id = id
                 \/ Told(stops, "fill", id)
    /\ run # 0 => live = 0
    /\ \A r \in S : r.kind = "fill" /\ r.token # run => Told(stops, "fill", r.token)

(* due is whether a plan is still to be asked for by the effects.           *)
Works(p, run, listed, due, S) ==
    /\ AnalysisEnds(p.store, S)
    /\ due \/ PlanEnds(p.store, S)
    /\ RepairEnds(p.store, p.repairLive, p.setup.tools, S)
    /\ FillEnds(p.store, run, p.setup.tools, listed, S)
    /\ TextureEnds(p.edit, S)
    /\ RepairFate(p.repairLive, p.stop, S)
    /\ FillFate(p.fillLive, p.fillRun, p.stop, S)

(* S and Z differ in requests of these kinds at most.                       *)
Alike(S, Z, kinds) == \A r : r.kind \notin kinds => (r \in S <=> r \in Z)

KeepsAnalysis(s, t) == t.analysis = s.analysis /\ t.analysisToken = s.analysisToken

KeepsRepair(s, t) == t.repair = s.repair /\ t.repairToken = s.repairToken

KeepsHoleFill(s, t) == t.holeFill = s.holeFill /\ t.holeFillToken = s.holeFillToken

KeepsShown(s, t) == t.revision = s.revision /\ t.part = s.part

LEMMA SlicesKept ==
    ASSUME NEW S, NEW Z, NEW kinds, Alike(S, Z, kinds), NEW s, NEW t,
           NEW live, NEW now, NEW tools, NEW run, NEW listed
    PROVE  /\ "analyze" \notin kinds /\ KeepsAnalysis(s, t) /\ KeepsShown(s, t)
                /\ AnalysisEnds(s, S)
              => AnalysisEnds(t, Z)
           /\ "plan" \notin kinds /\ KeepsRepair(s, t) /\ PlanEnds(s, S) => PlanEnds(t, Z)
           /\ kinds \cap {"plan", "build", "commitRepair", "undoRepair"} = {}
                /\ KeepsRepair(s, t) /\ now \in {0, live} /\ RepairEnds(s, live, tools, S)
              => RepairEnds(t, now, tools, Z)
           /\ kinds \cap {"list", "fill", "commitFill", "undoFill"} = {}
                /\ KeepsHoleFill(s, t) /\ KeepsShown(s, t) /\ FillEnds(s, run, tools, listed, S)
              => FillEnds(t, run, tools, listed, Z)
  <1>1. \A kind, token : kind \notin kinds /\ Pending(kind, token, S) => Pending(kind, token, Z)
    BY DEF Alike, Pending
  <1>2. \A some : some \cap kinds = {} => (Claims(some, S) <=> Claims(some, Z))
    BY DEF Alike, Claims
  <1>3. Shown(t) = Shown(s) \/ ~KeepsShown(s, t)
    BY DEF Shown, Subject, KeepsShown
  <1>4. "analyze" \notin kinds /\ KeepsAnalysis(s, t) /\ KeepsShown(s, t)
          /\ AnalysisEnds(s, S)
        => AnalysisEnds(t, Z)
    BY <1>1, <1>3 DEF AnalysisEnds, KeepsAnalysis, Alike
  <1>5. "plan" \notin kinds /\ KeepsRepair(s, t) /\ PlanEnds(s, S) => PlanEnds(t, Z)
    BY <1>1 DEF PlanEnds, KeepsRepair
  <1>6. ASSUME kinds \cap {"plan", "build", "commitRepair", "undoRepair"} = {},
               KeepsRepair(s, t), now \in {0, live}, RepairEnds(s, live, tools, S)
        PROVE  RepairEnds(t, now, tools, Z)
    <2>1. Claims({"plan"}, S) <=> Claims({"plan"}, Z)
      BY <1>2, <1>6
    <2>2. Claims({"commitRepair", "undoRepair"}, S) <=> Claims({"commitRepair", "undoRepair"}, Z)
      BY <1>2, <1>6
    <2>3. \A r : r.kind \in {"plan", "build"} => (r \in S <=> r \in Z)
      BY <1>6 DEF Alike
    <2>4. \A token : Pending("build", token, S) => Pending("build", token, Z)
      BY <1>1, <1>6
    <2> QED BY <1>6, <2>1, <2>2, <2>3, <2>4 DEF RepairEnds, KeepsRepair
  <1>7. ASSUME kinds \cap {"list", "fill", "commitFill", "undoFill"} = {},
               KeepsHoleFill(s, t), KeepsShown(s, t), FillEnds(s, run, tools, listed, S)
        PROVE  FillEnds(t, run, tools, listed, Z)
    <2>1. Claims({"commitFill", "undoFill"}, S) <=> Claims({"commitFill", "undoFill"}, Z)
      BY <1>2, <1>7
    <2>2. \A r : r.kind = "fill" => (r \in S <=> r \in Z)
      BY <1>7 DEF Alike
    <2>3. \A token : /\ Pending("fill", token, S) => Pending("fill", token, Z)
                     /\ Pending("list", token, S) => Pending("list", token, Z)
      BY <1>1, <1>7
    <2> QED BY <1>3, <1>7, <2>1, <2>2, <2>3 DEF FillEnds, KeepsHoleFill
  <1> QED BY <1>4, <1>5, <1>6, <1>7

LEMMA FatesKept ==
    ASSUME NEW S, NEW Z, NEW kinds, Alike(S, Z, kinds), NEW live, NEW run,
           NEW stops, NEW more, stops \subseteq more
    PROVE  /\ kinds \cap {"build", "discardRepair"} = {} /\ RepairFate(live, stops, S)
              => RepairFate(live, more, Z)
           /\ kinds \cap {"fill", "discardFill"} = {} /\ FillFate(live, run, stops, S)
              => FillFate(live, run, more, Z)
  <1>1. \A kind, token : kind \notin kinds /\ Pending(kind, token, S) => Pending(kind, token, Z)
    BY DEF Alike, Pending
  <1>2. \A stream, id : Told(stops, stream, id) => Told(more, stream, id)
    BY DEF Told
  <1>3. kinds \cap {"build", "discardRepair"} = {} /\ RepairFate(live, stops, S)
          => RepairFate(live, more, Z)
    BY <1>1, <1>2 DEF RepairFate, Alike
  <1>4. kinds \cap {"fill", "discardFill"} = {} /\ FillFate(live, run, stops, S)
          => FillFate(live, run, more, Z)
    BY <1>1, <1>2 DEF FillFate, Alike
  <1> QED BY <1>3, <1>4

(* Each slice is either as it should be, or neither it nor its requests     *)
(* changed. Z are the requests of the step's end, which differ in kinds.    *)
Sliced(p, q, kinds, Z, run, listed, due, now, shown, left) ==
    /\ \/ AnalysisEnds(q.store, Z)
       \/ /\ "analyze" \notin kinds /\ KeepsAnalysis(p.store, q.store)
          /\ KeepsShown(p.store, q.store)
    /\ \/ left \/ PlanEnds(q.store, Z)
       \/ "plan" \notin kinds /\ KeepsRepair(p.store, q.store) /\ left = due
    /\ \/ RepairEnds(q.store, q.repairLive, q.setup.tools, Z)
       \/ /\ kinds \cap {"plan", "build", "commitRepair", "undoRepair"} = {}
          /\ KeepsRepair(p.store, q.store) /\ q.repairLive \in {0, p.repairLive}
    /\ \/ FillEnds(q.store, now, q.setup.tools, shown, Z)
       \/ /\ kinds \cap {"list", "fill", "commitFill", "undoFill"} = {}
          /\ KeepsHoleFill(p.store, q.store) /\ KeepsShown(p.store, q.store)
          /\ now = run /\ shown = listed
    /\ \/ TextureEnds(q.edit, Z)
       \/ "commitEdit" \notin kinds /\ q.edit.applying = p.edit.applying
    /\ \/ RepairFate(q.repairLive, q.stop, Z)
       \/ kinds \cap {"build", "discardRepair"} = {} /\ q.repairLive = p.repairLive
    /\ \/ FillFate(q.fillLive, q.fillRun, q.stop, Z)
       \/ /\ kinds \cap {"fill", "discardFill"} = {}
          /\ q.fillLive = p.fillLive /\ q.fillRun = p.fillRun

(* A step that changes at most these kinds of requests, slice by slice.     *)
LEMMA WorksStep ==
    ASSUME NEW p, NEW q, NEW run, NEW listed, NEW due, NEW S, NEW Z, NEW kinds,
           Alike(S, Z, kinds), Works(p, run, listed, due, S),
           q.setup = p.setup, p.stop \subseteq q.stop, NEW now, NEW shown, NEW left,
           Sliced(p, q, kinds, Z, run, listed, due, now, shown, left)
    PROVE  Works(q, now, shown, left, Z)
  <1> USE DEF Works, Sliced
  <1>1. AnalysisEnds(q.store, Z)
    BY SlicesKept
  <1>2. left \/ PlanEnds(q.store, Z)
    BY SlicesKept
  <1>3. RepairEnds(q.store, q.repairLive, q.setup.tools, Z)
    BY SlicesKept
  <1>4. FillEnds(q.store, now, q.setup.tools, shown, Z)
    BY SlicesKept
  <1>5. TextureEnds(q.edit, Z)
    BY DEF TextureEnds, Claims, Alike
  <1>6. RepairFate(q.repairLive, q.stop, Z)
    BY FatesKept
  <1>7. FillFate(q.fillLive, q.fillRun, q.stop, Z)
    BY FatesKept
  <1> QED BY <1>1, <1>2, <1>3, <1>4, <1>5, <1>6, <1>7
-----------------------------------------------------------------------------
(* Builds and fills, each of which is in one place at a time.               *)

IsJob(r) == r.kind \in {"build", "fill"}

SameJob(r, x) == IsJob(r) /\ r.kind = x.kind /\ r.token = x.token

(* held is the document of the worker, with its candidates.                 *)
MadeBy(r, held) ==
    \/ r.kind = "build" /\ r.token = held.repairCandidate.id /\ r.token # 0
    \/ r.kind = "fill" /\ r.token = held.fillCandidate.id /\ r.token # 0

(* What a handler has yet to post is new.                                   *)
NewJobs(o) ==
    /\ \A i, j \in 1 .. Len(o) : SameJob(o[i], o[j]) => i = j
    /\ \A i \in 1 .. Len(o) :
          ~MadeBy(o[i], resident) /\ \A x \in UnderWay : ~SameJob(o[i], x)

NewJob(p, r) ==
    IsJob(r) => /\ ~MadeBy(r, resident)
                /\ \A x \in UnderWay \cup Range(p.out) : ~SameJob(r, x)

(* The page inside a handler, when L are the requests that stay under way.  *)
RepairFields ==
    {"planState", "plan", "candidateState", "candidate", "commitState", "lastApplied"}

FormedStore(s) ==
    /\ ShapedStore(s)
    /\ DOMAIN s.analysis = {"state", "subject", "report"} /\ DOMAIN s.repair = RepairFields

Formed(p) ==
    /\ DOMAIN p = PageFields /\ FormedStore(p.store)
    /\ DOMAIN p.edit = {"applying", "record", "revision"}

Ready(p) ==
    /\ Formed(p) /\ IsFiniteSet(p.stop)
    /\ \E T : p.out \in Seq(T)
    /\ NewJobs(p.out)

(* What is under way or posted, and that with one more request.             *)
Owed(p, L) == L \cup Range(p.out)

OwedWith(p, L, r) == Owed(p, L) \cup {r}

Holding(p, run, listed, due, L) == Ready(p) /\ Works(p, run, listed, due, Owed(p, L))

SameBut(p, q, fields) ==
    DOMAIN q = PageFields /\ \A f \in PageFields \ fields : q[f] = p[f]

LEMMA AlikeWith ==
    ASSUME NEW S, NEW r
    PROVE  Alike(S, S \cup {r}, {r.kind}) /\ Alike(S, S, {})
  BY DEF Alike

LEMMA Posted ==
    ASSUME NEW v, Ready(v), NEW run, NEW listed, NEW due, NEW L, NEW r,
           Works(v, run, listed, due, OwedWith(v, L, r)),
           NewJob(v, r), NEW q, q = Post(v, r)
    PROVE  /\ Holding(q, run, listed, due, L) /\ SameBut(v, q, {"out"})
           /\ Range(q.out) = Range(v.out) \cup {r}
  <1> DEFINE o == Append(v.out, r)
  <1>1. PICK T : v.out \in Seq(T)
    BY DEF Ready
  <1>2. Range(o) = Range(v.out) \cup {r} /\ o \in Seq(T \cup {r})
    <2>1. \A x : \A b \in Seq(T) : \A c \in Seq(T) :
            /\ b \o Append(c, x) = Append(b \o c, x)
            /\ Range(Append(c, x)) = Range(c) \cup {x}
            /\ Append(c, x) \in Seq(T \cup {x}) /\ b \in Seq(T \cup {x})
            /\ b \o c \in Seq(T \cup {x})
      BY SentOnce
    <2> QED BY <1>1, <2>1, Zenon
  <1>3. /\ \A i \in 1 .. Len(o) : (i \in 1 .. Len(v.out) /\ o[i] = v.out[i])
                                    \/ (i = Len(v.out) + 1 /\ o[i] = r)
    BY <1>1
  <1>4. NewJobs(o)
    <2>1. \A i \in 1 .. Len(v.out) : v.out[i] \in Range(v.out)
      BY <1>1 DEF Range
    <2>2. \A x, y : SameJob(x, y) => IsJob(x) /\ SameJob(y, x)
      BY DEF SameJob, IsJob
    <2>3. \A i, j \in 1 .. Len(o) : SameJob(o[i], o[j]) => i = j
      <3> SUFFICES ASSUME NEW i \in 1 .. Len(o), NEW j \in 1 .. Len(o), SameJob(o[i], o[j])
                   PROVE  i = j
        OBVIOUS
      <3> HIDE DEF o
      <3> QED BY <1>3, <2>1, <2>2 DEF Ready, NewJobs, NewJob
    <2>4. ~MadeBy(r, resident) /\ \A x \in UnderWay : ~SameJob(r, x)
      BY DEF MadeBy, IsJob, SameJob, NewJob
    <2>5. \A i \in 1 .. Len(o) : ~MadeBy(o[i], resident) /\ \A x \in UnderWay : ~SameJob(o[i], x)
      <3> HIDE DEF o
      <3> QED BY <1>3, <2>4 DEF Ready, NewJobs
    <2> HIDE DEF o
    <2> QED BY <2>3, <2>5 DEF NewJobs
  <1>5. q = [v EXCEPT !.out = o] /\ DOMAIN v = PageFields
    BY DEF Post, Ready, Formed
  <1> HIDE DEF o
  <1>6. SameBut(v, q, {"out"}) /\ q.out = o
    BY <1>5 DEF SameBut, PageFields
  <1>7. /\ q.store = v.store /\ q.edit = v.edit /\ q.stop = v.stop /\ q.setup = v.setup
        /\ q.repairLive = v.repairLive /\ q.fillLive = v.fillLive /\ q.fillRun = v.fillRun
    BY <1>6 DEF SameBut, PageFields
  <1>8. Ready(q)
    BY <1>2, <1>4, <1>6, <1>7 DEF Ready, Formed, SameBut
  <1>9. Works(q, run, listed, due, Owed(q, L))
    <2>1. Owed(q, L) = OwedWith(v, L, r)
      BY <1>2, <1>6 DEF Owed, OwedWith
    <2> QED BY <1>7, <2>1 DEF Works
  <1> QED BY <1>2, <1>6, <1>8, <1>9 DEF Holding

Asking == {"analyze", "plan", "build", "list", "fill"}

(* A request that nothing waits for but a claimed slot.                     *)
LEMMA WorksPosted ==
    ASSUME NEW p, NEW run, NEW listed, NEW due, NEW S, Works(p, run, listed, due, S),
           NEW r, r.kind \notin Asking
    PROVE  Works(p, run, listed, due, S \cup {r})
  <1> DEFINE Z == S \cup {r}
  <1>1. /\ \A x \in Z : x.kind \in Asking => x \in S
        /\ \A kind, token : Pending(kind, token, S) => Pending(kind, token, Z)
        /\ \A kinds : Claims(kinds, S) => Claims(kinds, Z)
        /\ Claims({"plan"}, Z) => Claims({"plan"}, S)
    BY DEF Pending, Claims, Asking
  <1>2. S \subseteq Z
    OBVIOUS
  <1> HIDE DEF Z
  <1> USE DEF Works, Asking
  <1>3. AnalysisEnds(p.store, Z) /\ (due \/ PlanEnds(p.store, Z))
    BY <1>1 DEF AnalysisEnds, PlanEnds
  <1>4. RepairEnds(p.store, p.repairLive, p.setup.tools, Z)
    BY <1>1 DEF RepairEnds
  <1>5. FillEnds(p.store, run, p.setup.tools, listed, Z)
    BY <1>1 DEF FillEnds
  <1>6. TextureEnds(p.edit, Z)
    BY <1>1 DEF TextureEnds
  <1>7. RepairFate(p.repairLive, p.stop, Z) /\ FillFate(p.fillLive, p.fillRun, p.stop, Z)
    BY <1>1, <1>2 DEF RepairFate, FillFate
  <1> QED BY <1>3, <1>4, <1>5, <1>6, <1>7 DEF Z

LEMMA QuietlyPosted ==
    ASSUME NEW v, NEW run, NEW listed, NEW due, NEW L, Holding(v, run, listed, due, L),
           NEW r, r.kind \notin Asking, NEW q, q = Post(v, r)
    PROVE  /\ Holding(q, run, listed, due, L) /\ SameBut(v, q, {"out"})
           /\ Range(q.out) = Range(v.out) \cup {r}
  <1>1. Works(v, run, listed, due, OwedWith(v, L, r))
    BY WorksPosted DEF Holding, OwedWith
  <1>2. NewJob(v, r)
    BY DEF IsJob, Asking, NewJob
  <1>3. Ready(v)
    BY DEF Holding
  <1> QED BY <1>1, <1>2, <1>3, Posted

(* What the handler does without posting. L may shrink to M.                *)
Memory ==
    {"startedFor", "plannedFor", "analysisSession", "repairSession", "repairActive",
     "fillSession", "fillActive"}

(* All but what is posted and stopped.                                      *)
Inner == Memory \cup {"store", "repairLive", "fillLive", "fillRun", "edit"}

LEMMA Stored ==
    ASSUME NEW p, NEW run, NEW listed, NEW due, NEW L, Holding(p, run, listed, due, L),
           NEW M, NEW kinds, Alike(L, M, kinds), NEW q,
           SameBut(p, q, Inner),
           FormedStore(q.store), DOMAIN q.edit = DOMAIN p.edit,
           NEW now, NEW shown, NEW left,
           Sliced(p, q, kinds, Owed(p, M), run, listed, due, now, shown, left)
    PROVE  /\ Holding(q, now, shown, left, M) /\ q.out = p.out /\ q.stop = p.stop
           /\ q.setup = p.setup
  <1>1. /\ q.setup = p.setup /\ q.out = p.out /\ q.stop = p.stop /\ DOMAIN q = PageFields
    BY DEF Inner, SameBut, PageFields, Memory
  <1>2. Ready(q)
    BY <1>1 DEF Holding, Ready, Formed
  <1>3. Alike(Owed(p, L), Owed(p, M), kinds)
    BY DEF Alike, Owed
  <1>4. Works(q, now, shown, left, Owed(p, M)) /\ Owed(q, M) = Owed(p, M)
    BY <1>1, <1>3, WorksStep DEF Holding, Owed
  <1> QED BY <1>1, <1>2, <1>4 DEF Holding
-----------------------------------------------------------------------------
(* What the operations on the store leave alone.                            *)

LEMMA AnalysisFrame ==
    ASSUME NEW s, FormedStore(s), NEW token, NEW subject,
           NEW t \in {BeginAnalysis(s, token), CommitAnalysis(s, token, subject),
                      FailAnalysis(s, token), CancelAnalysis(s, token)}
    PROVE  FormedStore(t) /\ KeepsRepair(s, t) /\ KeepsHoleFill(s, t) /\ KeepsShown(s, t)
  <1> USE DEF FormedStore, ShapedStore, StoreFields, KeepsRepair, KeepsHoleFill, KeepsShown
  <1>1. CASE t = BeginAnalysis(s, token)
    BY <1>1 DEF BeginAnalysis
  <1>2. CASE t = CommitAnalysis(s, token, subject)
    BY <1>2 DEF CommitAnalysis
  <1>3. CASE t = FailAnalysis(s, token)
    BY <1>3 DEF FailAnalysis
  <1>4. CASE t = CancelAnalysis(s, token)
    BY <1>4 DEF CancelAnalysis
  <1> HIDE DEF FormedStore, ShapedStore, StoreFields, KeepsRepair, KeepsHoleFill, KeepsShown
  <1> QED BY <1>1, <1>2, <1>3, <1>4

KeepsBesideRepair(s, t) ==
    FormedStore(t) /\ KeepsAnalysis(s, t) /\ KeepsHoleFill(s, t) /\ KeepsShown(s, t)

LEMMA PlanFrame ==
    ASSUME NEW s, FormedStore(s), NEW token, NEW subject, NEW state, NEW c
    PROVE  /\ LET t == BeginRepairPlan(s, token) IN
                /\ KeepsBesideRepair(s, t) /\ t.repairToken = token
                /\ t.repair.planState = "planning" /\ t.repair.candidateState = "idle"
                /\ t.repair.commitState = s.repair.commitState
           /\ LET t == CommitRepairPlan(s, token, subject) IN
                /\ KeepsBesideRepair(s, t) /\ t.repairToken = s.repairToken
                /\ t.repair.candidateState = s.repair.candidateState
                /\ t.repair.commitState = s.repair.commitState
                /\ t = s \/ (IsCurrentRepair(s, token) /\ t.repair.planState = "ready")
                /\ IsCurrentRepair(s, token) /\ subject.revision = s.revision
                     => t.repair.planState = "ready"
           /\ LET t == FailRepairPlan(s, token) IN
                /\ KeepsBesideRepair(s, t)
                /\ t.repair.candidateState = s.repair.candidateState
                /\ t.repair.commitState = s.repair.commitState
                /\ ~IsCurrentRepair(s, token) => t = s
                /\ IsCurrentRepair(s, token) => t.repairToken = 0 /\ t.repair.planState = "failed"
           /\ LET t == SetRepairSelection(s) IN
                /\ KeepsBesideRepair(s, t) /\ t.repairToken = 0
                /\ t.repair.planState = "planning" /\ t.repair.candidateState = "idle"
                /\ t.repair.commitState = s.repair.commitState
           /\ LET t == BeginRepairCandidate(s, token) IN
                /\ KeepsBesideRepair(s, t) /\ t.repairToken = token
                /\ t.repair.planState = s.repair.planState /\ t.repair.plan = s.repair.plan
                /\ t.repair.commitState = s.repair.commitState
  <1> USE DEF FormedStore, ShapedStore, StoreFields, RepairFields, KeepsAnalysis, KeepsHoleFill,
              KeepsShown, KeepsBesideRepair, WithoutRepairCandidate
  <1>1. \A t : t = BeginRepairPlan(s, token) =>
                /\ KeepsBesideRepair(s, t) /\ t.repairToken = token
                /\ t.repair.planState = "planning" /\ t.repair.candidateState = "idle"
                /\ t.repair.commitState = s.repair.commitState
    BY ZenonT(30) DEF BeginRepairPlan
  <1>2. \A t : t = CommitRepairPlan(s, token, subject) =>
                /\ KeepsBesideRepair(s, t) /\ t.repairToken = s.repairToken
                /\ t.repair.candidateState = s.repair.candidateState
                /\ t.repair.commitState = s.repair.commitState
                /\ t = s \/ (IsCurrentRepair(s, token) /\ t.repair.planState = "ready")
                /\ IsCurrentRepair(s, token) /\ subject.revision = s.revision
                     => t.repair.planState = "ready"
    BY DEF CommitRepairPlan
  <1>3. \A t : t = FailRepairPlan(s, token) =>
                /\ KeepsBesideRepair(s, t)
                /\ t.repair.candidateState = s.repair.candidateState
                /\ t.repair.commitState = s.repair.commitState
                /\ ~IsCurrentRepair(s, token) => t = s
                /\ IsCurrentRepair(s, token) => t.repairToken = 0 /\ t.repair.planState = "failed"
    BY DEF FailRepairPlan
  <1>4. \A t : t = SetRepairSelection(s) =>
                /\ KeepsBesideRepair(s, t) /\ t.repairToken = 0
                /\ t.repair.planState = "planning" /\ t.repair.candidateState = "idle"
                /\ t.repair.commitState = s.repair.commitState
    BY ZenonT(30) DEF SetRepairSelection
  <1>5. \A t : t = BeginRepairCandidate(s, token) =>
                /\ KeepsBesideRepair(s, t) /\ t.repairToken = token
                /\ t.repair.planState = s.repair.planState /\ t.repair.plan = s.repair.plan
                /\ t.repair.commitState = s.repair.commitState
    BY ZenonT(30) DEF BeginRepairCandidate
  <1> HIDE DEF FormedStore, ShapedStore, StoreFields, RepairFields, KeepsAnalysis, KeepsHoleFill,
              KeepsShown, KeepsBesideRepair, WithoutRepairCandidate
  <1> QED BY <1>1, <1>2, <1>3, <1>4, <1>5

(* The operations on a candidate that is there, and on the claimed slot.    *)
KeepsPlan(s, t) ==
    /\ KeepsBesideRepair(s, t) /\ t.repairToken = s.repairToken
    /\ t.repair.planState = s.repair.planState /\ t.repair.plan = s.repair.plan

LEMMA CandidateFrame ==
    ASSUME NEW s, FormedStore(s), NEW token, NEW state, NEW c
    PROVE  /\ LET t == CommitRepairCandidate(s, c) IN
                /\ KeepsPlan(s, t) /\ t.repair.candidateState = "ready"
                /\ t.repair.commitState = s.repair.commitState
           /\ LET t == EndRepairCandidate(s, token, state) IN
                /\ KeepsPlan(s, t) /\ t.repair.commitState = s.repair.commitState
                /\ ~IsCurrentRepair(s, token) => t = s
                /\ IsCurrentRepair(s, token) => t.repair.candidateState = state
           /\ LET t == BeginRepairCancellation(s, token) IN
                /\ KeepsPlan(s, t) /\ t.repair.commitState = s.repair.commitState
                /\ t = s \/ s.repair.candidateState = "building"
           /\ LET t == ClearRepairCandidate(s) IN
                /\ KeepsPlan(s, t) /\ t.repair.commitState = s.repair.commitState
                /\ t.repair.candidateState = "idle"
           /\ LET t == BeginRepairChange(s, state) IN
                KeepsPlan(s, t) /\ t.repair.candidateState = s.repair.candidateState
           /\ LET t == FailRepairChange(s) IN
                /\ KeepsPlan(s, t) /\ t.repair.candidateState = s.repair.candidateState
                /\ t.repair.commitState = "idle"
  <1> USE DEF FormedStore, ShapedStore, StoreFields, RepairFields, KeepsAnalysis, KeepsHoleFill,
              KeepsShown, KeepsBesideRepair, KeepsPlan, WithoutRepairCandidate
  <1>1. \A t : t = CommitRepairCandidate(s, c) =>
                /\ KeepsPlan(s, t) /\ t.repair.candidateState = "ready"
                /\ t.repair.commitState = s.repair.commitState
    <2> DEFINE h == [s.repair EXCEPT !.candidateState = "ready", !.candidate = c]
    <2>1. /\ DOMAIN h = RepairFields /\ h.candidateState = "ready" /\ h.plan = s.repair.plan
          /\ h.planState = s.repair.planState /\ h.commitState = s.repair.commitState
      OBVIOUS
    <2>2. CommitRepairCandidate(s, c) = [s EXCEPT !.repair = h]
      BY DEF CommitRepairCandidate
    <2> HIDE DEF h
    <2> QED BY <2>1, <2>2
  <1>2. \A t : t = EndRepairCandidate(s, token, state) =>
                /\ KeepsPlan(s, t) /\ t.repair.commitState = s.repair.commitState
                /\ ~IsCurrentRepair(s, token) => t = s
                /\ IsCurrentRepair(s, token) => t.repair.candidateState = state
    BY DEF EndRepairCandidate
  <1>3. \A t : t = BeginRepairCancellation(s, token) =>
                /\ KeepsPlan(s, t) /\ t.repair.commitState = s.repair.commitState
                /\ t = s \/ s.repair.candidateState = "building"
    BY DEF BeginRepairCancellation
  <1>4. \A t : t = ClearRepairCandidate(s) =>
                /\ KeepsPlan(s, t) /\ t.repair.commitState = s.repair.commitState
                /\ t.repair.candidateState = "idle"
    BY DEF ClearRepairCandidate
  <1>5. \A t : t = BeginRepairChange(s, state) =>
                KeepsPlan(s, t) /\ t.repair.candidateState = s.repair.candidateState
    BY DEF BeginRepairChange
  <1>6. \A t : t = FailRepairChange(s) =>
                /\ KeepsPlan(s, t) /\ t.repair.candidateState = s.repair.candidateState
                /\ t.repair.commitState = "idle"
    BY DEF FailRepairChange
  <1> QED BY <1>1, <1>2, <1>3, <1>4, <1>5, <1>6

(* What an operation on the fills leaves in their slice.                    *)
FillsTo(s, t, token, inventory, work, commit) ==
    /\ FormedStore(t) /\ KeepsAnalysis(s, t) /\ KeepsRepair(s, t) /\ KeepsShown(s, t)
    /\ t.holeFillToken = token /\ t.holeFill.inventory = inventory
    /\ t.holeFill.workState = work /\ t.holeFill.commitState = commit

LEMMA FillFrame ==
    ASSUME NEW s, FormedStore(s), NEW h, h = s.holeFill, NEW token, NEW subject,
           NEW opening, NEW state, NEW c
    PROVE  /\ FillsTo(s, BeginHoleFillListing(s, token), token, "listing", h.workState, h.commitState)
           /\ LET t == CommitHoleFillListing(s, token, subject) IN
                IF IsCurrentHoleFill(s, token)
                THEN /\ FillsTo(s, t, 0, "ready", h.workState, h.commitState)
                     /\ t.holeFill.selected = h.selected
                ELSE t = s
           /\ LET t == FailHoleFillListing(s, token) IN
                IF IsCurrentHoleFill(s, token)
                THEN /\ FillsTo(s, t, 0, "failed", h.workState, h.commitState)
                     /\ t.holeFill.selected = h.selected
                ELSE t = s
           /\ LET t == SelectBoundaryLoop(s, opening) IN
                IF h.selected = opening THEN t = s
                ELSE FillsTo(s, t, 0, h.inventory, "idle", h.commitState)
           /\ LET t == BeginHoleFillCandidate(s, token) IN
                /\ FillsTo(s, t, token, h.inventory, "generating", h.commitState)
                /\ t.holeFill.selected = h.selected
           /\ LET t == BeginHoleFillCancellation(s, token) IN
                \/ t = s
                \/ /\ h.workState = "generating" /\ t.holeFill.selected = h.selected
                   /\ FillsTo(s, t, s.holeFillToken, h.inventory, "cancelling", h.commitState)
           /\ LET t == EndHoleFillCandidate(s, token, state) IN
                IF IsCurrentHoleFill(s, token)
                THEN /\ FillsTo(s, t, 0, h.inventory, state, h.commitState)
                     /\ t.holeFill.selected = h.selected
                ELSE t = s
           /\ FillsTo(s, CommitHoleFillCandidate(s, c), 0, h.inventory, "ready", h.commitState)
           /\ LET t == ClearHoleFillCandidate(s) IN
                IF h.workState = "idle" THEN t = s
                ELSE FillsTo(s, t, 0, h.inventory, "idle", h.commitState)
           /\ LET t == BeginHoleFillChange(s, state) IN
                /\ FillsTo(s, t, s.holeFillToken, h.inventory, h.workState, state)
                /\ t.holeFill.selected = h.selected
           /\ LET t == FailHoleFillChange(s) IN
                /\ FillsTo(s, t, s.holeFillToken, h.inventory, h.workState, "idle")
                /\ t.holeFill.selected = h.selected
  <1> HIDE DEF NoCandidate, Nothing
  <1> DEFINE Only(number, g) == [s EXCEPT !.holeFillToken = number, !.holeFill = g]
  <1>1. ASSUME NEW number, NEW g, DOMAIN g = HoleFillFields, NEW t, t = Only(number, g)
        PROVE  /\ FillsTo(s, t, number, g.inventory, g.workState, g.commitState)
               /\ t.holeFill = g
    BY <1>1 DEF FillsTo, FormedStore, ShapedStore, StoreFields, KeepsAnalysis, KeepsRepair,
        KeepsShown
  <1>2. \A number, g, t : DOMAIN g = HoleFillFields /\ t = Only(number, g) =>
            /\ FillsTo(s, t, number, g.inventory, g.workState, g.commitState)
            /\ t.holeFill = g
    BY <1>1
  <1>3. DOMAIN h = HoleFillFields
    BY DEF FormedStore, ShapedStore
  <1> DEFINE listing == [h EXCEPT !.inventory = "listing", !.rows = Nothing, !.selected = 0]
             listed == [h EXCEPT !.inventory = "ready", !.rows = subject]
             failed == [h EXCEPT !.inventory = "failed", !.rows = Nothing]
             ended(x) == [h EXCEPT !.workState = x, !.candidate = NoCandidate]
             chosen == [h EXCEPT !.workState = "idle", !.candidate = NoCandidate, !.selected = opening]
             going == [h EXCEPT !.workState = "cancelling"]
             done == [h EXCEPT !.workState = "ready", !.candidate = c]
             claimed(x) == [h EXCEPT !.commitState = x]
  <1>4. /\ DOMAIN listing = HoleFillFields /\ listing.inventory = "listing"
        /\ listing.workState = h.workState /\ listing.commitState = h.commitState
    BY <1>3 DEF HoleFillFields
  <1>5. /\ DOMAIN listed = HoleFillFields /\ listed.inventory = "ready"
        /\ listed.workState = h.workState /\ listed.commitState = h.commitState
        /\ listed.selected = h.selected
    BY <1>3 DEF HoleFillFields
  <1>6. /\ DOMAIN failed = HoleFillFields /\ failed.inventory = "failed"
        /\ failed.workState = h.workState /\ failed.commitState = h.commitState
        /\ failed.selected = h.selected
    BY <1>3 DEF HoleFillFields
  <1>7. \A x : /\ DOMAIN ended(x) = HoleFillFields /\ ended(x).inventory = h.inventory
               /\ ended(x).workState = x /\ ended(x).commitState = h.commitState
               /\ ended(x).selected = h.selected
    BY <1>3 DEF HoleFillFields
  <1>8. /\ DOMAIN chosen = HoleFillFields /\ chosen.inventory = h.inventory
        /\ chosen.workState = "idle" /\ chosen.commitState = h.commitState
    BY <1>3 DEF HoleFillFields
  <1>9. /\ DOMAIN going = HoleFillFields /\ going.inventory = h.inventory
        /\ going.workState = "cancelling" /\ going.commitState = h.commitState
        /\ going.selected = h.selected
    BY <1>3 DEF HoleFillFields
  <1>10. /\ DOMAIN done = HoleFillFields /\ done.inventory = h.inventory
         /\ done.workState = "ready" /\ done.commitState = h.commitState
    BY <1>3 DEF HoleFillFields
  <1>11. \A x : /\ DOMAIN claimed(x) = HoleFillFields /\ claimed(x).inventory = h.inventory
                /\ claimed(x).workState = h.workState /\ claimed(x).commitState = x
                /\ claimed(x).selected = h.selected
    BY <1>3 DEF HoleFillFields
  <1>12. \A x : WithoutFillCandidate(h, x) = ended(x)
    BY DEF WithoutFillCandidate
  <1>13. chosen = [ended("idle") EXCEPT !.selected = opening]
    BY <1>3
  <1>14. /\ DOMAIN s = StoreFields /\ s.holeFill = h
         /\ \A g : [s EXCEPT !.holeFill = g] = Only(s.holeFillToken, g)
    BY DEF FormedStore, ShapedStore, StoreFields
  <1> HIDE DEF listing, listed, failed, ended, chosen, going, done, claimed
  <1>15. BeginHoleFillListing(s, token) = Only(token, listing)
    BY <1>14 DEF BeginHoleFillListing, listing, StoreFields
  <1>16. CommitHoleFillListing(s, token, subject)
           = IF IsCurrentHoleFill(s, token) THEN Only(0, listed) ELSE s
    BY <1>14 DEF CommitHoleFillListing, listed, StoreFields
  <1>17. FailHoleFillListing(s, token)
           = IF IsCurrentHoleFill(s, token) THEN Only(0, failed) ELSE s
    BY <1>14 DEF FailHoleFillListing, failed, StoreFields
  <1>18. SelectBoundaryLoop(s, opening)
           = IF h.selected = opening THEN s ELSE Only(0, chosen)
    BY <1>12, <1>13, <1>14 DEF SelectBoundaryLoop
  <1>19. BeginHoleFillCandidate(s, token) = Only(token, ended("generating"))
    BY <1>12, <1>14 DEF BeginHoleFillCandidate
  <1>20. BeginHoleFillCancellation(s, token)
           = IF IsCurrentHoleFill(s, token) /\ h.workState = "generating"
             THEN Only(s.holeFillToken, going) ELSE s
    BY <1>14 DEF BeginHoleFillCancellation, going
  <1>21. EndHoleFillCandidate(s, token, state)
           = IF IsCurrentHoleFill(s, token) THEN Only(0, ended(state)) ELSE s
    BY <1>12, <1>14 DEF EndHoleFillCandidate
  <1>22. CommitHoleFillCandidate(s, c) = Only(0, done)
    BY <1>14 DEF CommitHoleFillCandidate, done, StoreFields
  <1>23. ClearHoleFillCandidate(s)
           = IF h.workState = "idle" THEN s ELSE Only(0, ended("idle"))
    BY <1>12, <1>14 DEF ClearHoleFillCandidate
  <1>24. BeginHoleFillChange(s, state) = Only(s.holeFillToken, claimed(state))
    BY <1>14 DEF BeginHoleFillChange, claimed
  <1>25. FailHoleFillChange(s) = Only(s.holeFillToken, claimed("idle"))
    BY <1>14 DEF FailHoleFillChange, claimed
  <1> HIDE DEF Only
  <1>26. /\ FillsTo(s, Only(token, listing), token, "listing", h.workState, h.commitState)
         /\ FillsTo(s, Only(0, listed), 0, "ready", h.workState, h.commitState)
         /\ Only(0, listed).holeFill.selected = h.selected
         /\ FillsTo(s, Only(0, failed), 0, "failed", h.workState, h.commitState)
         /\ Only(0, failed).holeFill.selected = h.selected
         /\ FillsTo(s, Only(0, chosen), 0, h.inventory, "idle", h.commitState)
         /\ FillsTo(s, Only(0, done), 0, h.inventory, "ready", h.commitState)
    BY <1>2, <1>4, <1>5, <1>6, <1>8, <1>10
  <1>27. /\ \A number, x :
              /\ FillsTo(s, Only(number, ended(x)), number, h.inventory, x, h.commitState)
              /\ Only(number, ended(x)).holeFill.selected = h.selected
         /\ \A x :
              /\ FillsTo(s, Only(s.holeFillToken, claimed(x)), s.holeFillToken,
                         h.inventory, h.workState, x)
              /\ Only(s.holeFillToken, claimed(x)).holeFill.selected = h.selected
    BY <1>2, <1>7, <1>11
  <1>28. /\ FillsTo(s, Only(s.holeFillToken, going), s.holeFillToken,
                    h.inventory, "cancelling", h.commitState)
         /\ Only(s.holeFillToken, going).holeFill.selected = h.selected
    BY <1>2, <1>9
  <1> QED BY <1>15, <1>16, <1>17, <1>18, <1>19, <1>20, <1>21, <1>22, <1>23, <1>24, <1>25,
             <1>26, <1>27, <1>28

(* Another model on screen, with nothing going on.                          *)
Idle(t) ==
    /\ FormedStore(t) /\ t.analysisToken = 0 /\ t.repairToken = 0
    /\ t.analysis.state = "idle" /\ t.repair.planState = "unavailable"
    /\ t.repair.plan = Nothing /\ t.repair.candidateState = "idle"
    /\ t.repair.commitState = "idle" /\ t.holeFill.inventory = "idle"
    /\ t.holeFill.workState = "idle" /\ t.holeFill.commitState = "idle"

LEMMA AnotherModel ==
    ASSUME NEW s, FormedStore(s), NEW part, NEW revision,
           NEW t \in {SelectPart(s, part), ApplyRepairResult(s, revision),
                      ApplyUndoResult(s, revision), ApplyHoleFillResult(s, revision),
                      ApplyGeometryEditResult(s, revision)}
    PROVE  Idle(t)
  <1> HIDE DEF NoCandidate, Nothing
  <1> USE DEF Idle, FormedStore, ShapedStore, StoreFields, HoleFillFields, RepairFields,
              EmptyHoleFill, EmptyRepair, EmptyAnalysis
  <1>1. ASSUME t = SelectPart(s, part) PROVE Idle(t)
    <2> DEFINE h == [EmptyHoleFill EXCEPT !.lastApplied = s.holeFill.lastApplied]
    <2>1. /\ DOMAIN h = HoleFillFields /\ h.inventory = "idle" /\ h.workState = "idle"
          /\ h.commitState = "idle"
      OBVIOUS
    <2>2. t = [s EXCEPT !.part = part, !.analysisToken = 0, !.repairToken = 0,
                        !.analysis = EmptyAnalysis(Subject(s.revision, part)),
                        !.repair = EmptyRepair, !.holeFill = h]
      BY <1>1 DEF SelectPart
    <2> HIDE DEF h
    <2> QED BY <2>1, <2>2
  <1>2. \A x : x = Install(s, revision) => Idle(x)
    BY DEF Install
  <1>3. \A x, e : x = [Install(s, revision) EXCEPT !.repair.lastApplied = e]
                    \/ x = [Install(s, revision) EXCEPT !.holeFillToken = 0,
                                                        !.holeFill.lastApplied = e]
                    \/ x = [Install(s, revision) EXCEPT !.holeFillToken = 0]
                  => Idle(x)
    <2> DEFINE y == Install(s, revision)
    <2>1. Idle(y)
      BY <1>2
    <2> HIDE DEF y
    <2>2. \A x, e : x = [y EXCEPT !.repair.lastApplied = e]
                      \/ x = [y EXCEPT !.holeFillToken = 0, !.holeFill.lastApplied = e]
                      \/ x = [y EXCEPT !.holeFillToken = 0]
                  => Idle(x)
      <3>1. \A x, e : x = [y EXCEPT !.repair.lastApplied = e] => Idle(x)
        BY <2>1
      <3>2. \A x, e : x = [y EXCEPT !.holeFillToken = 0, !.holeFill.lastApplied = e] => Idle(x)
        <4> SUFFICES ASSUME NEW e
                     PROVE  Idle([y EXCEPT !.holeFillToken = 0, !.holeFill.lastApplied = e])
          OBVIOUS
        <4> DEFINE h == [y.holeFill EXCEPT !.lastApplied = e]
                   x == [y EXCEPT !.holeFillToken = 0, !.holeFill = h]
        <4>1. /\ DOMAIN h = HoleFillFields /\ h.inventory = "idle" /\ h.workState = "idle"
              /\ h.commitState = "idle"
          BY <2>1
        <4>2. x = [y EXCEPT !.holeFillToken = 0, !.holeFill.lastApplied = e]
          BY <2>1
        <4> HIDE DEF h
        <4>3. Idle(x)
          BY <2>1, <4>1
        <4> QED BY <4>2, <4>3
      <3>3. \A x : x = [y EXCEPT !.holeFillToken = 0] => Idle(x)
        BY <2>1
      <3> HIDE DEF Idle
      <3> QED BY <3>1, <3>2, <3>3
    <2> QED BY <2>2 DEF y
  <1> HIDE DEF Idle
  <1>4. t = ApplyRepairResult(s, revision) => Idle(t)
    BY <1>3 DEF ApplyRepairResult
  <1>5. t = ApplyUndoResult(s, revision) => Idle(t)
    BY <1>2 DEF ApplyUndoResult
  <1>6. t = ApplyHoleFillResult(s, revision) => Idle(t)
    BY <1>3 DEF ApplyHoleFillResult
  <1>7. t = ApplyGeometryEditResult(s, revision) => Idle(t)
    BY <1>3 DEF ApplyGeometryEditResult
  <1> QED BY <1>1, <1>4, <1>5, <1>6, <1>7

LEMMA IdleEnds ==
    ASSUME NEW t, Idle(t), NEW tools, NEW S, NEW run, NEW live, NEW listed,
           Claims({"plan"}, S) => "repair" \in tools, run # 0 => "fill" \in tools,
           listed => run = 0
    PROVE  /\ AnalysisEnds(t, S) /\ PlanEnds(t, S) /\ RepairEnds(t, live, tools, S)
           /\ FillEnds(t, run, tools, listed, S)
  BY DEF Idle, AnalysisEnds, PlanEnds, RepairEnds, FillEnds

(* The end of the run that the fill slice has yet to see.                   *)
LEMMA FillEnded ==
    ASSUME NEW s, FormedStore(s), NEW run, run # 0, NEW tools, NEW S,
           FillEnds(s, run, tools, TRUE, S), NEW Z, Alike(S, Z, {"fill"}),
           NEW state, state \notin {"generating", "cancelling"}
    PROVE  LET t == EndHoleFillCandidate(s, run, state) IN
           /\ FillEnds(t, 0, tools, TRUE, Z) /\ FormedStore(t)
           /\ KeepsAnalysis(s, t) /\ KeepsRepair(s, t) /\ KeepsShown(s, t)
           /\ t.holeFill.workState \notin {"generating", "cancelling"}
  <1> DEFINE t == EndHoleFillCandidate(s, run, state)
             h == s.holeFill
  <1>1. IF IsCurrentHoleFill(s, run)
        THEN /\ FillsTo(s, t, 0, h.inventory, state, h.commitState)
             /\ t.holeFill.selected = h.selected
        ELSE t = s
    BY FillFrame
  <1>2. /\ \A token : Pending("list", token, S) => Pending("list", token, Z)
        /\ Claims({"commitFill", "undoFill"}, S) => Claims({"commitFill", "undoFill"}, Z)
    BY DEF Alike, Pending, Claims
  <1> HIDE DEF t
  <1>3. CASE IsCurrentHoleFill(s, run)
    <2>1. h.inventory = "ready"
      BY <1>3 DEF FillEnds, IsCurrentHoleFill
    <2> QED BY <1>1, <1>2, <1>3, <2>1 DEF FillsTo, FillEnds, t
  <1>4. CASE ~IsCurrentHoleFill(s, run)
    <2>1. t = s /\ h.workState \notin {"generating", "cancelling"}
      BY <1>1, <1>4 DEF FillEnds, IsCurrentHoleFill
    <2> QED BY <1>2, <2>1 DEF FillEnds, t, KeepsAnalysis, KeepsRepair, KeepsShown
  <1> QED BY <1>3, <1>4
-----------------------------------------------------------------------------
(* The pieces the handlers are made of.                                     *)

(* What a handler does before it posts.                                     *)
Prepares(p, v) ==
    /\ SameBut(p, v, Memory \cup {"store", "stop", "repairLive", "fillLive", "fillRun", "edit"})
    /\ FormedStore(v.store) /\ DOMAIN v.edit = DOMAIN p.edit
    /\ p.stop \subseteq v.stop /\ IsFiniteSet(v.stop)

LEMMA Prepared ==
    ASSUME NEW p, NEW run, NEW listed, NEW due, NEW L, Holding(p, run, listed, due, L),
           NEW v, Prepares(p, v), NEW kinds, NEW Z, Alike(Owed(p, L), Z, kinds),
           NEW now, NEW shown, NEW left,
           Sliced(p, v, kinds, Z, run, listed, due, now, shown, left)
    PROVE  /\ Ready(v) /\ Works(v, now, shown, left, Z)
           /\ v.out = p.out /\ DOMAIN v = PageFields
  <1>1. v.setup = p.setup /\ v.out = p.out /\ DOMAIN v = PageFields
    BY DEF Prepares, SameBut, PageFields, Memory
  <1>2. Ready(v)
    BY <1>1 DEF Prepares, Holding, Ready, Formed
  <1>3. Works(v, now, shown, left, Z)
    BY <1>1, WorksStep DEF Holding, Prepares
  <1> QED BY <1>1, <1>2, <1>3

LEMMA StoredAndPosted ==
    ASSUME NEW p, NEW run, NEW listed, NEW due, NEW L, Holding(p, run, listed, due, L),
           NEW v, Prepares(p, v), NEW r, NewJob(p, r), NEW kinds, r.kind \in kinds,
           NEW now, NEW shown, NEW left,
           Sliced(p, v, kinds, OwedWith(p, L, r), run, listed, due, now, shown, left),
           NEW q, q = Post(v, r)
    PROVE  /\ Holding(q, now, shown, left, L) /\ SameBut(v, q, {"out"})
           /\ Range(q.out) = Range(p.out) \cup {r}
  <1>1. Alike(Owed(p, L), OwedWith(p, L, r), kinds)
    BY DEF Alike, OwedWith
  <1>2. /\ Ready(v) /\ Works(v, now, shown, left, OwedWith(p, L, r))
        /\ v.out = p.out /\ DOMAIN v = PageFields
    BY <1>1, Prepared
  <1>3. NewJob(v, r) /\ OwedWith(v, L, r) = OwedWith(p, L, r)
    BY <1>2 DEF NewJob, OwedWith, Owed
  <1>4. /\ Holding(q, now, shown, left, L) /\ SameBut(v, q, {"out"})
        /\ Range(q.out) = Range(v.out) \cup {r}
    BY <1>2, <1>3, Posted
  <1> QED BY <1>2, <1>4

LEMMA StoppedTo ==
    ASSUME NEW p, NEW run, NEW listed, NEW due, NEW L, Holding(p, run, listed, due, L),
           NEW stream, NEW token, NEW q, q = Stop(p, stream, token)
    PROVE  /\ Holding(q, run, listed, due, L) /\ SameBut(p, q, {"stop"})
           /\ p.stop \subseteq q.stop /\ IsFiniteSet(q.stop)
           /\ token # 0 => <<stream, token>> \in q.stop
  <1> DEFINE told == {<<stream, token>>} \ {<<stream, 0>>}
             stops == p.stop \cup told
  <1>1. IsFiniteSet(stops)
    <2>1. IsFiniteSet({<<stream, token>>})
      BY FS_Singleton
    <2>2. IsFiniteSet(told)
      BY <2>1, FS_Subset
    <2>3. IsFiniteSet(p.stop)
      BY DEF Holding, Ready
    <2> HIDE DEF told
    <2> QED BY <2>2, <2>3, FS_Union
  <1>2. p.stop \subseteq stops /\ (token # 0 => <<stream, token>> \in stops)
    OBVIOUS
  <1>3. q = [p EXCEPT !.stop = stops] /\ DOMAIN p = PageFields
    BY DEF Stop, Holding, Ready, Formed
  <1> HIDE DEF stops
  <1>4. SameBut(p, q, {"stop"}) /\ q.stop = stops
    BY <1>3 DEF SameBut, PageFields
  <1>5. /\ q.store = p.store /\ q.edit = p.edit /\ q.out = p.out /\ q.setup = p.setup
        /\ q.repairLive = p.repairLive /\ q.fillLive = p.fillLive /\ q.fillRun = p.fillRun
        /\ DOMAIN q = PageFields
    BY <1>4 DEF SameBut, PageFields
  <1>6. Ready(q)
    BY <1>1, <1>4, <1>5 DEF Holding, Ready, Formed
  <1>7. Works(q, run, listed, due, Owed(p, L)) /\ Owed(q, L) = Owed(p, L)
    <2>1. Works(p, run, listed, due, Owed(p, L))
      BY DEF Holding
    <2>2. /\ RepairFate(p.repairLive, q.stop, Owed(p, L))
          /\ FillFate(p.fillLive, p.fillRun, q.stop, Owed(p, L))
      <3>1. \A some, id : Told(p.stop, some, id) => Told(q.stop, some, id)
        BY <1>2, <1>4 DEF Told
      <3> QED BY <2>1, <3>1 DEF Works, RepairFate, FillFate
    <2> QED BY <1>5, <2>1, <2>2 DEF Works, Owed
  <1> QED BY <1>1, <1>2, <1>4, <1>5, <1>6, <1>7 DEF Holding

LEMMA RepairReleased ==
    ASSUME NEW p, NEW run, NEW listed, NEW due, NEW L, Holding(p, run, listed, due, L),
           NEW q, q = ReleaseRepairCandidate(p)
    PROVE  /\ Holding(q, run, listed, due, L) /\ SameBut(p, q, {"out", "repairLive"})
           /\ q.repairLive = 0 /\ Range(p.out) \subseteq Range(q.out)
  <1>1. DOMAIN p = PageFields
    BY DEF Holding, Ready, Formed
  <1>2. CASE p.repairLive = 0
    BY <1>1, <1>2 DEF ReleaseRepairCandidate, SameBut
  <1>3. CASE p.repairLive # 0
    <2> DEFINE r == Request("discardRepair", 0, Nothing, 0, p.repairLive)
               u == Post(p, r)
    <2>1. r.kind = "discardRepair" /\ r.id = p.repairLive /\ r.kind \notin Asking
      BY DEF Request, Asking
    <2>2. q = [u EXCEPT !.repairLive = 0]
      BY <1>1, <1>3 DEF ReleaseRepairCandidate, Post, PageFields
    <2> HIDE DEF r
    <2>3. /\ Holding(u, run, listed, due, L) /\ SameBut(p, u, {"out"})
          /\ Range(u.out) = Range(p.out) \cup {r}
      BY <2>1, QuietlyPosted
    <2> HIDE DEF u
    <2>4. /\ SameBut(u, q, {"repairLive"}) /\ q.repairLive = 0 /\ q.out = u.out
          /\ u.repairLive = p.repairLive /\ u.stop = p.stop /\ q.store = u.store
          /\ q.edit = u.edit /\ q.fillLive = u.fillLive /\ q.fillRun = u.fillRun
          /\ FormedStore(u.store)
      BY <2>2, <2>3 DEF SameBut, PageFields, Holding, Ready, Formed
    <2>5. RepairFate(0, u.stop, Owed(u, L))
      <3>1. RepairFate(p.repairLive, u.stop, Owed(u, L))
        BY <2>3, <2>4 DEF Holding, Works
      <3>2. r \in Owed(u, L)
        BY <2>3 DEF Owed
      <3> QED BY <2>1, <3>1, <3>2 DEF RepairFate
    <2>6. KeepsAnalysis(u.store, q.store) /\ KeepsRepair(u.store, q.store)
          /\ KeepsHoleFill(u.store, q.store) /\ KeepsShown(u.store, q.store)
      BY <2>4 DEF KeepsAnalysis, KeepsRepair, KeepsHoleFill, KeepsShown
    <2>7. SameBut(u, q, Inner)
      BY <2>4 DEF Inner, SameBut
    <2>8. Alike(L, L, {})
      BY AlikeWith
    <2>9. Holding(q, run, listed, due, L)
      <3>1. Sliced(u, q, {}, Owed(u, L), run, listed, due, run, listed, due)
        BY <2>4, <2>5, <2>6, <2>7 DEF Sliced, SameBut, PageFields, Memory
      <3>2. DOMAIN q.edit = DOMAIN u.edit /\ FormedStore(q.store)
        BY <2>4
      <3> QED BY <2>3, <2>7, <2>8, <3>1, <3>2, Stored
    <2>10. SameBut(p, q, {"out", "repairLive"})
      BY <2>3, <2>4 DEF SameBut
    <2> QED BY <2>3, <2>4, <2>9, <2>10
  <1> QED BY <1>2, <1>3

(* What the handler changes beside the store, the candidates of the fates   *)
(* apart.                                                                   *)
LEMMA FatesSettled ==
    ASSUME NEW p, NEW run, NEW listed, NEW due, NEW L, Holding(p, run, listed, due, L),
           NEW q, SameBut(p, q, Memory \cup {"fillLive", "fillRun"}),
           FillFate(q.fillLive, q.fillRun, p.stop, Owed(p, L))
    PROVE  Holding(q, run, listed, due, L)
  <1>1. /\ q.store = p.store /\ q.edit = p.edit /\ q.out = p.out /\ q.stop = p.stop
        /\ q.setup = p.setup /\ q.repairLive = p.repairLive /\ FormedStore(p.store)
    BY DEF SameBut, PageFields, Memory, Holding, Ready, Formed
  <1>2. KeepsAnalysis(p.store, q.store) /\ KeepsRepair(p.store, q.store)
        /\ KeepsHoleFill(p.store, q.store) /\ KeepsShown(p.store, q.store)
    BY <1>1 DEF KeepsAnalysis, KeepsRepair, KeepsHoleFill, KeepsShown
  <1>3. SameBut(p, q, Inner)
    BY DEF Inner, SameBut
  <1>4. Alike(L, L, {})
    BY AlikeWith
  <1>5. Sliced(p, q, {}, Owed(p, L), run, listed, due, run, listed, due)
    BY <1>1, <1>2 DEF Sliced
  <1> QED BY <1>1, <1>3, <1>4, <1>5, Stored

(* What the handler posts is of this kind at most.                          *)
PostsOnly(p, q, kind) == \A x \in Range(q.out) : x \in Range(p.out) \/ x.kind = kind

LEMMA FillReleased ==
    ASSUME NEW p, NEW run, NEW listed, NEW due, NEW L, Holding(p, run, listed, due, L),
           NEW id, NEW q, q = ReleaseFillCandidate(p, id)
    PROVE  /\ Holding(q, run, listed, due, L) /\ SameBut(p, q, {"out", "fillLive"})
           /\ p.fillLive = id => q.fillLive = 0
           /\ p.fillLive # id => q.fillLive = p.fillLive
           /\ Range(p.out) \subseteq Range(q.out)
           /\ PostsOnly(p, q, "discardFill")
           /\ id # 0 => \E r \in Range(q.out) : r.kind = "discardFill" /\ r.id = id
  <1>1. DOMAIN p = PageFields
    BY DEF Holding, Ready, Formed
  <1>2. CASE id = 0
    BY <1>1, <1>2 DEF ReleaseFillCandidate, SameBut, PostsOnly
  <1>3. CASE id # 0
    <2> DEFINE r == Request("discardFill", 0, Nothing, 0, id)
               u == Post(p, r)
               live == IF p.fillLive = id THEN 0 ELSE p.fillLive
    <2>1. r.kind = "discardFill" /\ r.id = id /\ r.kind \notin Asking
      BY DEF Request, Asking
    <2>2. q = [u EXCEPT !.fillLive = live]
      BY <1>1, <1>3 DEF ReleaseFillCandidate, Post, PageFields
    <2>3. live \in {0, p.fillLive} /\ (live # p.fillLive => p.fillLive = id)
      OBVIOUS
    <2> HIDE DEF r, live
    <2>4. /\ Holding(u, run, listed, due, L) /\ SameBut(p, u, {"out"})
          /\ Range(u.out) = Range(p.out) \cup {r}
      BY <2>1, QuietlyPosted
    <2> HIDE DEF u
    <2>5. /\ SameBut(u, q, {"fillLive"}) /\ q.fillLive = live /\ q.out = u.out
          /\ u.fillLive = p.fillLive /\ q.fillRun = u.fillRun
      BY <2>2, <2>4 DEF SameBut, PageFields, Holding, Ready, Formed
    <2>6. FillFate(live, u.fillRun, u.stop, Owed(u, L))
      <3>1. FillFate(u.fillLive, u.fillRun, u.stop, Owed(u, L))
        BY <2>4 DEF Holding, Works
      <3>2. r \in Owed(u, L)
        BY <2>4 DEF Owed
      <3> QED BY <2>1, <2>3, <2>5, <3>1, <3>2 DEF FillFate
    <2>7. SameBut(u, q, Memory \cup {"fillLive", "fillRun"})
      BY <2>5 DEF SameBut
    <2>8. Holding(q, run, listed, due, L)
      BY <2>4, <2>5, <2>6, <2>7, FatesSettled
    <2>9. SameBut(p, q, {"out", "fillLive"})
      BY <2>4, <2>5 DEF SameBut
    <2> QED BY <2>1, <2>4, <2>5, <2>8, <2>9 DEF live, PostsOnly
  <1> QED BY <1>2, <1>3

(* The slice has yet to see that the run is over.                           *)
LEMMA FillDisposed ==
    ASSUME NEW p, NEW run, NEW listed, NEW due, NEW L, Holding(p, run, listed, due, L),
           NEW q, q = DisposeFill(p)
    PROVE  /\ Holding(q, run, listed, due, L) /\ SameBut(p, q, {"out", "stop", "fillRun"})
           /\ q.fillRun = 0 /\ Range(p.out) \subseteq Range(q.out)
           /\ PostsOnly(p, q, "cancelFill")
  <1>1. DOMAIN p = PageFields
    BY DEF Holding, Ready, Formed
  <1>2. CASE p.fillRun = 0
    BY <1>1, <1>2 DEF DisposeFill, SameBut, PostsOnly
  <1>3. CASE p.fillRun # 0
    <2> DEFINE r == Request("cancelFill", p.fillRun, Nothing, 0, 0)
               v == Stop(p, "fill", p.fillRun)
               u == Post(v, r)
    <2>1. r.kind = "cancelFill" /\ r.kind \notin Asking
      BY DEF Request, Asking
    <2>2. /\ Holding(v, run, listed, due, L) /\ SameBut(p, v, {"stop"})
          /\ p.stop \subseteq v.stop /\ <<"fill", p.fillRun>> \in v.stop
      BY <1>3, StoppedTo
    <2>3. q = [u EXCEPT !.fillRun = 0]
      BY <1>1, <1>3 DEF DisposeFill, Post, Stop, PageFields
    <2> HIDE DEF r, v
    <2>4. /\ Holding(u, run, listed, due, L) /\ SameBut(v, u, {"out"})
          /\ Range(u.out) = Range(v.out) \cup {r}
      BY <2>1, <2>2, QuietlyPosted
    <2> HIDE DEF u
    <2>5. /\ SameBut(u, q, {"fillRun"}) /\ q.fillRun = 0 /\ q.out = u.out
          /\ u.fillRun = p.fillRun /\ q.fillLive = u.fillLive /\ u.stop = v.stop
          /\ v.out = p.out
      BY <2>2, <2>3, <2>4 DEF SameBut, PageFields, Holding, Ready, Formed
    <2>6. FillFate(u.fillLive, 0, u.stop, Owed(u, L))
      <3>1. FillFate(u.fillLive, p.fillRun, u.stop, Owed(u, L))
        BY <2>4, <2>5 DEF Holding, Works
      <3> QED BY <2>2, <2>5, <3>1 DEF FillFate, Told
    <2>7. SameBut(u, q, Memory \cup {"fillLive", "fillRun"})
      BY <2>5 DEF SameBut
    <2>8. Holding(q, run, listed, due, L)
      BY <2>4, <2>5, <2>6, <2>7, FatesSettled
    <2>9. SameBut(p, q, {"out", "stop", "fillRun"})
      BY <2>2, <2>4, <2>5 DEF SameBut, PageFields
    <2> QED BY <2>1, <2>4, <2>5, <2>8, <2>9 DEF PostsOnly
  <1> QED BY <1>2, <1>3

LEMMA SessionCancelled ==
    ASSUME NEW p, NEW run, NEW listed, NEW due, NEW L, Holding(p, run, listed, due, L),
           NEW q, q = CancelFillSession(p)
    PROVE  /\ Holding(q, run, listed, due, L)
           /\ SameBut(p, q, {"out", "stop", "fillRun", "fillSession"})
           /\ q.fillRun = IF CancelsFill(p) THEN 0 ELSE p.fillRun
           /\ Range(p.out) \subseteq Range(q.out)
  <1>1. DOMAIN p = PageFields
    BY DEF Holding, Ready, Formed
  <1>2. PICK u : /\ u = IF CancelsFill(p) THEN DisposeFill(p) ELSE p
                 /\ q = [u EXCEPT !.fillSession = 0]
    BY DEF CancelFillSession
  <1>3. /\ Holding(u, run, listed, due, L) /\ SameBut(p, u, {"out", "stop", "fillRun"})
        /\ u.fillRun = IF CancelsFill(p) THEN 0 ELSE p.fillRun
        /\ Range(p.out) \subseteq Range(u.out)
    <2>1. CASE CancelsFill(p)
      <3>1. u = DisposeFill(p)
        BY <1>2, <2>1
      <3> QED BY <2>1, <3>1, FillDisposed
    <2>2. CASE ~CancelsFill(p)
      BY <1>1, <1>2, <2>2 DEF SameBut
    <2> QED BY <2>1, <2>2
  <1>4. /\ SameBut(u, q, {"fillSession"}) /\ q.fillRun = u.fillRun /\ q.out = u.out
        /\ q.fillLive = u.fillLive
    BY <1>2, <1>3 DEF SameBut, PageFields
  <1>5. SameBut(u, q, Memory \cup {"fillLive", "fillRun"})
    BY <1>4 DEF SameBut, Memory
  <1>6. Holding(q, run, listed, due, L)
    <2>1. FillFate(u.fillLive, u.fillRun, u.stop, Owed(u, L))
      BY <1>3 DEF Holding, Works
    <2> QED BY <1>3, <1>4, <1>5, <2>1, FatesSettled
  <1>7. SameBut(p, q, {"out", "stop", "fillRun", "fillSession"})
    BY <1>3, <1>4 DEF SameBut
  <1> QED BY <1>3, <1>4, <1>6, <1>7

LEMMA FillIsRejected ==
    ASSUME NEW p, NEW run, NEW due, NEW L, Holding(p, run, TRUE, due, L), run # 0,
           NEW q, q = FillRejected(p, run)
    PROVE  /\ Holding(q, 0, TRUE, due, L)
           /\ SameBut(p, q, {"store", "fillSession", "fillActive"})
           /\ KeepsAnalysis(p.store, q.store) /\ KeepsRepair(p.store, q.store)
           /\ KeepsShown(p.store, q.store)
           /\ q.out = p.out
  <1> DEFINE t == EndHoleFillCandidate(p.store, run, "cancelled")
             S == Owed(p, L)
  <1>1. DOMAIN p = PageFields /\ FormedStore(p.store)
    BY DEF Holding, Ready, Formed
  <1>2. FillEnds(p.store, run, p.setup.tools, TRUE, S) /\ Alike(S, S, {"fill"})
    BY DEF Holding, Works, Alike
  <1> HIDE DEF S
  <1>3. /\ FillEnds(t, 0, p.setup.tools, TRUE, S) /\ FormedStore(t)
        /\ KeepsAnalysis(p.store, t) /\ KeepsRepair(p.store, t) /\ KeepsShown(p.store, t)
    BY <1>1, <1>2, FillEnded
  <1>4. q = [p EXCEPT !.store = t, !.fillSession = 0, !.fillActive = 0]
    BY DEF FillRejected
  <1> HIDE DEF t
  <1>5. /\ SameBut(p, q, {"store", "fillSession", "fillActive"}) /\ q.store = t
        /\ q.edit = p.edit /\ q.setup = p.setup /\ q.repairLive = p.repairLive
        /\ q.fillLive = p.fillLive /\ q.fillRun = p.fillRun /\ q.out = p.out
    BY <1>1, <1>4 DEF SameBut, PageFields
  <1>6. SameBut(p, q, Inner)
    BY <1>5 DEF Inner, SameBut, Memory
  <1>7. Sliced(p, q, {}, S, run, TRUE, due, 0, TRUE, due)
    BY <1>3, <1>5 DEF Sliced
  <1>8. Alike(L, L, {})
    BY AlikeWith
  <1>9. Holding(q, 0, TRUE, due, L)
    <2>1. FormedStore(q.store) /\ DOMAIN q.edit = DOMAIN p.edit
      BY <1>3, <1>5
    <2> QED BY <1>6, <1>7, <1>8, <2>1, Stored DEF S
  <1> QED BY <1>3, <1>5, <1>9

LEMMA RejectionFollows ==
    ASSUME NEW before, NEW p, NEW due, NEW L, Holding(p, before.fillRun, TRUE, due, L),
           p.fillRun = IF CancelsFill(before) THEN 0 ELSE before.fillRun,
           NEW q, q = ThenRejected(before, p)
    PROVE  /\ Holding(q, q.fillRun, TRUE, due, L)
           /\ SameBut(p, q, {"store", "fillSession", "fillActive"})
           /\ KeepsAnalysis(p.store, q.store) /\ KeepsRepair(p.store, q.store)
           /\ KeepsShown(p.store, q.store)
  <1>1. CASE CancelsFill(before)
    <2>1. before.fillRun # 0 /\ q = FillRejected(p, before.fillRun)
      BY <1>1 DEF CancelsFill, ThenRejected
    <2>2. /\ Holding(q, 0, TRUE, due, L)
          /\ SameBut(p, q, {"store", "fillSession", "fillActive"})
          /\ KeepsAnalysis(p.store, q.store) /\ KeepsRepair(p.store, q.store)
          /\ KeepsShown(p.store, q.store)
      BY <2>1, FillIsRejected
    <2>3. q.fillRun = 0
      BY <1>1, <2>2 DEF SameBut, PageFields
    <2> QED BY <2>2, <2>3
  <1>2. CASE ~CancelsFill(before)
    <2>1. q = p /\ DOMAIN p = PageFields
      BY <1>2 DEF ThenRejected, Holding, Ready, Formed
    <2> QED BY <1>2, <2>1 DEF SameBut, KeepsAnalysis, KeepsRepair, KeepsShown
  <1> QED BY <1>1, <1>2
-----------------------------------------------------------------------------
(* Starting work                                                            *)

LEMMA NewToken ==
    ASSUME NEW p, NEW run, NEW listed, NEW due, NEW L, Holding(p, run, listed, due, L), Bounded,
           NEW stream, NEW token, token = Fresh(p, stream)
    PROVE  /\ token \in Nat /\ token # 0 /\ token \notin Numbers(p, stream)
           /\ \A x \in UnderWay \cup Range(p.out) : Stream(x.kind) = stream => x.token # token
  <1>1. PICK T : p.out \in Seq(T)
    BY DEF Holding, Ready
  <1>2. IsFiniteSet(p.stop) /\ IsFiniteSet(words) /\ IsFiniteSet(UnderWay)
    BY DEF Holding, Ready, Bounded
  <1> QED BY <1>1, <1>2, FreshNumber

LEMMA AnalysisStarted ==
    ASSUME NEW p, NEW run, NEW listed, NEW due, NEW L, Holding(p, run, listed, due, L),
           Bounded, L \subseteq UnderWay, NEW q, q = StartAnalysis(p)
    PROVE  /\ Holding(q, run, listed, due, L)
           /\ SameBut(p, q, {"out", "stop", "store", "analysisSession"})
           /\ KeepsRepair(p.store, q.store) /\ KeepsHoleFill(p.store, q.store)
           /\ KeepsShown(p.store, q.store)
  <1> DEFINE token == Fresh(p, "analysis")
             u == Stop(p, "analysis", p.analysisSession)
             t == BeginAnalysis(p.store, token)
             v == [u EXCEPT !.store = t, !.analysisSession = token]
             r == Request("analyze", token, Model(p), 0, 0)
             Z == OwedWith(p, L, r)
             kinds == {"analyze"}
  <1>1. DOMAIN p = PageFields /\ FormedStore(p.store)
    BY DEF Holding, Ready, Formed
  <1>2. /\ token # 0
        /\ \A x \in UnderWay \cup Range(p.out) : x.kind = "analyze" => x.token # token
    <2>1. \A x : x.kind = "analyze" => Stream(x.kind) = "analysis"
      BY DEF Stream
    <2> QED BY <2>1, NewToken
  <1> HIDE DEF token
  <1>3. /\ Holding(u, run, listed, due, L) /\ SameBut(p, u, {"stop"})
        /\ p.stop \subseteq u.stop /\ IsFiniteSet(u.stop)
    <2>1. \A stream, number, x : x = Stop(p, stream, number) =>
            /\ Holding(x, run, listed, due, L) /\ SameBut(p, x, {"stop"})
            /\ p.stop \subseteq x.stop /\ IsFiniteSet(x.stop)
      BY StoppedTo
    <2> QED BY <2>1
  <1>4. /\ FormedStore(t) /\ KeepsRepair(p.store, t) /\ KeepsHoleFill(p.store, t)
        /\ KeepsShown(p.store, t)
    BY <1>1, AnalysisFrame
  <1>5. t.analysisToken = token
    BY <1>1 DEF BeginAnalysis, FormedStore, ShapedStore, StoreFields
  <1>6. r.kind = "analyze" /\ r.token = token /\ r.subject = Shown(t)
    BY <1>4 DEF Request, Model, Shown, KeepsShown
  <1>7. AnalysisEnds(t, Z)
    <2>1. \A x \in Z : x.kind = "analyze" /\ x.token = token => x = r
      BY <1>2 DEF OwedWith, Owed
    <2>2. r \in Z
      BY DEF OwedWith
    <2> HIDE DEF Z, t, r
    <2> QED BY <1>2, <1>5, <1>6, <2>1, <2>2 DEF AnalysisEnds, Pending
  <1>8. q = Post(v, r)
    BY <1>1 DEF StartAnalysis, Stop, PageFields, token
  <1> HIDE DEF t, u, r
  <1>9. /\ SameBut(p, v, {"stop", "store", "analysisSession"}) /\ v.store = t /\ v.stop = u.stop
        /\ v.edit = p.edit /\ v.setup = p.setup /\ v.repairLive = p.repairLive
        /\ v.fillLive = p.fillLive /\ v.fillRun = p.fillRun
    BY <1>1, <1>3 DEF SameBut, PageFields
  <1> HIDE DEF v
  <1>10. Sliced(p, v, kinds, Z, run, listed, due, run, listed, due)
    <2> HIDE DEF Z
    <2> QED BY <1>4, <1>6, <1>7, <1>9 DEF Sliced
  <1>11. Holding(q, run, listed, due, L) /\ SameBut(v, q, {"out"})
    <2>1. Prepares(p, v)
      BY <1>3, <1>4, <1>9 DEF Prepares, SameBut, Memory
    <2>2. NewJob(p, r)
      BY <1>6 DEF IsJob, NewJob
    <2>3. r.kind \in kinds
      BY <1>6
    <2> HIDE DEF kinds
    <2> QED BY <1>8, <1>10, <2>1, <2>2, <2>3, StoredAndPosted
  <1>12. q.store = t
    BY <1>9, <1>11 DEF SameBut, PageFields
  <1> QED BY <1>4, <1>9, <1>11, <1>12 DEF SameBut

(* A list begins when none of the model on screen has, or after it failed.  *)
LEMMA ListingStarted ==
    ASSUME NEW p, NEW listed, NEW due, NEW L, Holding(p, p.fillRun, listed, due, L),
           ~listed \/ p.store.holeFill.inventory = "failed", "fill" \in p.setup.tools,
           Bounded, L \subseteq UnderWay, NEW q, q = ListOpenings(p)
    PROVE  /\ Holding(q, q.fillRun, TRUE, due, L) /\ SameBut(p, q, {"out", "store"})
           /\ KeepsAnalysis(p.store, q.store) /\ KeepsRepair(p.store, q.store)
           /\ KeepsShown(p.store, q.store)
  <1> DEFINE token == Fresh(p, "fill")
             run == p.fillRun
             t == BeginHoleFillListing(p.store, token)
             v == [p EXCEPT !.store = t]
             r == Request("list", token, Model(p), 0, 0)
             S == Owed(p, L)
             Z == OwedWith(p, L, r)
             kinds == {"list"}
             h == p.store.holeFill
  <1>1. DOMAIN p = PageFields /\ FormedStore(p.store) /\ IsFiniteSet(p.stop)
    BY DEF Holding, Ready, Formed
  <1>2. token # 0 /\ token # run
        /\ \A x \in UnderWay \cup Range(p.out) : x.kind = "fill" => x.token # token
    <2>1. \A x : x.kind = "fill" => Stream(x.kind) = "fill"
      BY DEF Stream
    <2>2. run \in Numbers(p, "fill")
      BY DEF Numbers
    <2> QED BY <2>1, <2>2, NewToken
  <1> HIDE DEF token
  <1>3. /\ FormedStore(t) /\ KeepsAnalysis(p.store, t) /\ KeepsRepair(p.store, t)
        /\ KeepsShown(p.store, t) /\ t.holeFillToken = token
        /\ t.holeFill.inventory = "listing" /\ t.holeFill.workState = h.workState
        /\ t.holeFill.commitState = h.commitState
    BY <1>1, FillFrame DEF FillsTo
  <1>4. r.kind = "list" /\ r.token = token
    BY DEF Request
  <1>5. FillEnds(t, run, p.setup.tools, TRUE, Z)
    <2>1. FillEnds(p.store, run, p.setup.tools, listed, S)
      BY DEF Holding, Works
    <2>2. h.workState = "idle"
      BY <2>1 DEF FillEnds
    <2>3. Claims({"commitFill", "undoFill"}, S) => Claims({"commitFill", "undoFill"}, Z)
      BY DEF Claims, OwedWith
    <2>4. Pending("list", token, Z)
      BY <1>2, <1>4 DEF Pending, OwedWith
    <2> HIDE DEF S, Z, t, r
    <2> QED BY <1>2, <1>3, <2>1, <2>2, <2>3, <2>4 DEF FillEnds
  <1>6. q = Post(v, r)
    BY DEF ListOpenings, token
  <1> HIDE DEF t, r
  <1>7. /\ SameBut(p, v, {"store"}) /\ v.store = t /\ v.stop = p.stop
        /\ v.edit = p.edit /\ v.setup = p.setup /\ v.repairLive = p.repairLive
        /\ v.fillLive = p.fillLive /\ v.fillRun = p.fillRun
    BY <1>1 DEF SameBut, PageFields
  <1> HIDE DEF v
  <1>8. Sliced(p, v, kinds, Z, run, listed, due, run, TRUE, due)
    <2> HIDE DEF Z
    <2> QED BY <1>3, <1>5, <1>7 DEF Sliced
  <1>9. Holding(q, run, TRUE, due, L) /\ SameBut(v, q, {"out"})
    <2>1. Prepares(p, v)
      BY <1>1, <1>3, <1>7 DEF Prepares, SameBut, Memory
    <2>2. NewJob(p, r)
      BY <1>4 DEF IsJob, NewJob
    <2>3. r.kind \in kinds
      BY <1>4
    <2>4. Holding(p, run, listed, due, L)
      OBVIOUS
    <2> HIDE DEF kinds, run
    <2> QED BY <1>6, <1>8, <2>1, <2>2, <2>3, <2>4, StoredAndPosted
  <1>10. q.store = t /\ q.fillRun = v.fillRun
    BY <1>7, <1>9 DEF SameBut, PageFields
  <1>11. q.fillRun = run
    BY <1>7, <1>10
  <1>12. SameBut(p, q, {"out", "store"})
    BY <1>7, <1>9 DEF SameBut
  <1> HIDE DEF run
  <1> QED BY <1>3, <1>9, <1>10, <1>11, <1>12

LEMMA PlanStarted ==
    ASSUME NEW p, NEW run, NEW listed, NEW due, NEW L, Holding(p, run, listed, due, L),
           "repair" \in p.setup.tools, Bounded, L \subseteq UnderWay, NEW q, q = StartPlan(p)
    PROVE  /\ Holding(q, run, listed, FALSE, L)
           /\ SameBut(p, q, {"out", "stop", "store", "repairSession"})
           /\ KeepsAnalysis(p.store, q.store) /\ KeepsHoleFill(p.store, q.store)
           /\ KeepsShown(p.store, q.store)
  <1> DEFINE token == Fresh(p, "repair")
             u == Stop(p, "repair", p.repairSession)
             t == BeginRepairPlan(p.store, token)
             v == [u EXCEPT !.store = t, !.repairSession = token]
             r == Request("plan", token, Model(p), 0, 0)
             S == Owed(p, L)
             Z == OwedWith(p, L, r)
             kinds == {"plan"}
  <1>1. DOMAIN p = PageFields /\ FormedStore(p.store)
    BY DEF Holding, Ready, Formed
  <1>2. /\ token # 0
        /\ \A x \in UnderWay \cup Range(p.out) : x.kind = "build" => x.token # token
    <2>1. \A x : x.kind = "build" => Stream(x.kind) = "repair"
      BY DEF Stream
    <2> QED BY <2>1, NewToken
  <1> HIDE DEF token
  <1>3. /\ Holding(u, run, listed, due, L) /\ SameBut(p, u, {"stop"})
        /\ p.stop \subseteq u.stop /\ IsFiniteSet(u.stop)
    <2>1. \A stream, number, x : x = Stop(p, stream, number) =>
            /\ Holding(x, run, listed, due, L) /\ SameBut(p, x, {"stop"})
            /\ p.stop \subseteq x.stop /\ IsFiniteSet(x.stop)
      BY StoppedTo
    <2> QED BY <2>1
  <1>4. /\ FormedStore(t) /\ KeepsAnalysis(p.store, t) /\ KeepsHoleFill(p.store, t)
        /\ KeepsShown(p.store, t) /\ t.repairToken = token
        /\ t.repair.candidateState = "idle"
        /\ t.repair.commitState = p.store.repair.commitState
    BY <1>1, PlanFrame DEF KeepsBesideRepair
  <1>5. r.kind = "plan" /\ r.token = token
    BY DEF Request
  <1>6. PlanEnds(t, Z) /\ RepairEnds(t, p.repairLive, p.setup.tools, Z)
    <2>1. RepairEnds(p.store, p.repairLive, p.setup.tools, S)
      BY DEF Holding, Works
    <2>2. Claims({"commitRepair", "undoRepair"}, S) => Claims({"commitRepair", "undoRepair"}, Z)
      BY DEF Claims, OwedWith
    <2>3. Pending("plan", token, Z)
      BY <1>2, <1>5 DEF Pending, OwedWith
    <2>4. \A x \in Z : x.kind = "build" => x.token # token
      BY <1>2, <1>5 DEF OwedWith, Owed
    <2> HIDE DEF S, Z, t, r
    <2> QED BY <1>4, <2>1, <2>2, <2>3, <2>4 DEF PlanEnds, RepairEnds
  <1>7. q = Post(v, r)
    BY <1>1 DEF StartPlan, Stop, PageFields, token
  <1> HIDE DEF t, u, r
  <1>8. /\ SameBut(p, v, {"stop", "store", "repairSession"}) /\ v.store = t /\ v.stop = u.stop
        /\ v.edit = p.edit /\ v.setup = p.setup /\ v.repairLive = p.repairLive
        /\ v.fillLive = p.fillLive /\ v.fillRun = p.fillRun
    BY <1>1, <1>3 DEF SameBut, PageFields
  <1> HIDE DEF v
  <1>9. Sliced(p, v, kinds, Z, run, listed, due, run, listed, FALSE)
    <2>1. RepairFate(v.repairLive, v.stop, Z) \/ kinds \cap {"build", "discardRepair"} = {}
      OBVIOUS
    <2> HIDE DEF Z
    <2> QED BY <1>4, <1>6, <1>8, <2>1 DEF Sliced
  <1>10. Holding(q, run, listed, FALSE, L) /\ SameBut(v, q, {"out"})
    <2>1. Prepares(p, v)
      BY <1>3, <1>4, <1>8 DEF Prepares, SameBut, Memory
    <2>2. NewJob(p, r)
      BY <1>5 DEF IsJob, NewJob
    <2>3. r.kind \in kinds
      BY <1>5
    <2> HIDE DEF kinds
    <2> QED BY <1>7, <1>9, <2>1, <2>2, <2>3, StoredAndPosted
  <1>11. q.store = t
    BY <1>8, <1>10 DEF SameBut, PageFields
  <1> QED BY <1>4, <1>8, <1>10, <1>11 DEF SameBut
-----------------------------------------------------------------------------
(* The effects.                                                             *)

(* The effect that plans will ask for the plan that is due.                 *)
PlanDue(p) ==
    /\ Settled(p) /\ ReportIsCurrent(p)
    /\ "repair" \in p.setup.tools /\ p.plannedFor # Model(p)

(* What a handler must leave for its effects.                               *)
Ends(p, L) ==
    \E due \in BOOLEAN :
        Holding(p, p.fillRun, Settled(p), due, L) /\ (due => PlanDue(p))

LEMMA Remembered ==
    ASSUME NEW p, NEW listed, NEW due, NEW L, Holding(p, p.fillRun, listed, due, L),
           NEW q, SameBut(p, q, Memory)
    PROVE  Holding(q, q.fillRun, listed, due, L) /\ q.store = p.store /\ q.setup = p.setup
  <1>1. /\ q.fillRun = p.fillRun /\ q.fillLive = p.fillLive /\ q.store = p.store
        /\ q.setup = p.setup /\ SameBut(p, q, Memory \cup {"fillLive", "fillRun"})
    BY DEF SameBut, PageFields, Memory
  <1>2. FillFate(p.fillLive, p.fillRun, p.stop, Owed(p, L))
    BY DEF Holding, Works
  <1>3. Holding(q, p.fillRun, listed, due, L)
    <2> DEFINE run == p.fillRun
    <2>1. Holding(p, run, listed, due, L)
      OBVIOUS
    <2> HIDE DEF run
    <2>2. Holding(q, run, listed, due, L)
      BY <1>1, <1>2, <2>1, FatesSettled
    <2> QED BY <2>2 DEF run
  <1> QED BY <1>1, <1>3

LEMMA SubjectStarted ==
    ASSUME NEW p, NEW L, Holding(p, p.fillRun, FALSE, FALSE, L), ~Settled(p), Bounded,
           L \subseteq UnderWay, NEW q, q = SubjectEffects(p)
    PROVE  Holding(q, q.fillRun, TRUE, FALSE, L) /\ Settled(q)
  <1> DEFINE b == [p EXCEPT !.startedFor = Model(p)]
             a == StartAnalysis(b)
  <1>1. q = IF "fill" \in p.setup.tools THEN ListOpenings(a) ELSE a
    BY DEF SubjectEffects, Settled
  <1>2. SameBut(p, b, Memory) /\ b.startedFor = Model(p)
    BY DEF Holding, Ready, Formed, SameBut, PageFields, Memory
  <1> HIDE DEF b
  <1>3. /\ Holding(b, b.fillRun, FALSE, FALSE, L) /\ b.store = p.store /\ b.setup = p.setup
        /\ Settled(b)
    <2>1. Holding(b, b.fillRun, FALSE, FALSE, L) /\ b.store = p.store /\ b.setup = p.setup
      BY <1>2, Remembered
    <2> QED BY <1>2, <2>1 DEF Settled, Model
  <1>4. /\ Holding(a, b.fillRun, FALSE, FALSE, L)
        /\ SameBut(b, a, {"out", "stop", "store", "analysisSession"})
        /\ KeepsShown(b.store, a.store)
    <2> DEFINE run == b.fillRun
    <2>1. Holding(b, run, FALSE, FALSE, L)
      BY <1>3
    <2> HIDE DEF run
    <2>2. /\ Holding(a, run, FALSE, FALSE, L)
          /\ SameBut(b, a, {"out", "stop", "store", "analysisSession"})
          /\ KeepsShown(b.store, a.store)
      BY <2>1, AnalysisStarted
    <2> QED BY <2>2 DEF run
  <1> HIDE DEF a
  <1>5. /\ a.fillRun = b.fillRun /\ a.setup = p.setup /\ a.startedFor = b.startedFor
        /\ Settled(a)
    BY <1>3, <1>4 DEF SameBut, PageFields, Settled, Model, Shown, Subject, KeepsShown
  <1>6. CASE "fill" \in p.setup.tools
    <2>1. /\ Holding(q, q.fillRun, TRUE, FALSE, L) /\ SameBut(a, q, {"out", "store"})
          /\ KeepsShown(a.store, q.store)
      <3>1. /\ q = ListOpenings(a) /\ "fill" \in a.setup.tools
            /\ Holding(a, a.fillRun, FALSE, FALSE, L)
        BY <1>1, <1>4, <1>5, <1>6
      <3> QED BY <3>1, ListingStarted
    <2> QED BY <1>5, <2>1 DEF SameBut, PageFields, Settled, Model, Shown, Subject, KeepsShown
  <1>7. CASE "fill" \notin p.setup.tools
    <2>1. q = a /\ Holding(a, a.fillRun, FALSE, FALSE, L)
      BY <1>1, <1>4, <1>5, <1>7
    <2>2. FillEnds(a.store, a.fillRun, a.setup.tools, TRUE, Owed(a, L))
      BY <1>5, <1>7, <2>1 DEF Holding, Works, FillEnds
    <2> QED BY <1>5, <2>1, <2>2 DEF Holding, Works
  <1> QED BY <1>6, <1>7

LEMMA EffectsEnd ==
    ASSUME NEW p, NEW L, Ends(p, L), Bounded, L \subseteq UnderWay, NEW q, q = Effects(p)
    PROVE  Holding(q, q.fillRun, TRUE, FALSE, L) /\ Settled(q)
  <1> DEFINE s == SubjectEffects(p)
  <1>1. PICK due \in BOOLEAN :
            /\ Holding(s, s.fillRun, TRUE, due, L) /\ Settled(s) /\ (due => PlanDue(s))
    <2>1. PICK due \in BOOLEAN :
            Holding(p, p.fillRun, Settled(p), due, L) /\ (due => PlanDue(p))
      BY DEF Ends
    <2>2. CASE Settled(p)
      BY <2>1, <2>2 DEF SubjectEffects, Settled
    <2>3. CASE ~Settled(p)
      <3>1. Holding(p, p.fillRun, FALSE, FALSE, L)
        <4>1. Settled(p) = FALSE /\ due = FALSE
          BY <2>1, <2>3 DEF Settled, PlanDue
        <4> QED BY <2>1, <4>1
      <3>2. Holding(s, s.fillRun, TRUE, FALSE, L) /\ Settled(s)
        BY <2>3, <3>1, SubjectStarted
      <3> HIDE DEF s
      <3> QED BY <3>2
    <2> QED BY <2>2, <2>3
  <1>2. q = PlanEffect(s)
    BY DEF Effects
  <1> HIDE DEF s
  <1>3. ASSUME NEW m, NEW v, v = [s EXCEPT !.plannedFor = m]
        PROVE  /\ Holding(v, v.fillRun, TRUE, due, L) /\ Settled(v)
               /\ v.setup = s.setup
    <2>1. SameBut(s, v, Memory) /\ v.startedFor = s.startedFor
      BY <1>1, <1>3 DEF Holding, Ready, Formed, SameBut, PageFields, Memory
    <2>2. Holding(v, v.fillRun, TRUE, due, L) /\ v.store = s.store /\ v.setup = s.setup
      BY <1>1, <2>1, Remembered
    <2> QED BY <1>1, <2>1, <2>2 DEF Settled, Model
  <1>4. CASE ~ReportIsCurrent(s) \/ "repair" \notin s.setup.tools
    <2>1. q = [s EXCEPT !.plannedFor = Nothing] /\ ~due
      BY <1>1, <1>2, <1>4 DEF PlanEffect, PlanDue
    <2> QED BY <1>3, <2>1
  <1>5. CASE ReportIsCurrent(s) /\ "repair" \in s.setup.tools /\ s.plannedFor = Model(s)
    BY <1>1, <1>2, <1>5 DEF PlanEffect, PlanDue
  <1>6. CASE ReportIsCurrent(s) /\ "repair" \in s.setup.tools /\ s.plannedFor # Model(s)
    <2> DEFINE v == [s EXCEPT !.plannedFor = Model(s)]
    <2>1. q = StartPlan(v)
      BY <1>2, <1>6 DEF PlanEffect
    <2>2. Holding(v, v.fillRun, TRUE, due, L) /\ Settled(v) /\ "repair" \in v.setup.tools
      BY <1>3, <1>6
    <2> HIDE DEF v
    <2>3. /\ Holding(q, v.fillRun, TRUE, FALSE, L)
          /\ SameBut(v, q, {"out", "stop", "store", "repairSession"})
          /\ KeepsShown(v.store, q.store)
      <3> DEFINE run == v.fillRun
      <3>1. Holding(v, run, TRUE, due, L)
        BY <2>2
      <3> HIDE DEF run
      <3>2. /\ Holding(q, run, TRUE, FALSE, L)
            /\ SameBut(v, q, {"out", "stop", "store", "repairSession"})
            /\ KeepsShown(v.store, q.store)
        BY <2>1, <2>2, <3>1, PlanStarted
      <3> QED BY <3>2 DEF run
    <2>4. q.fillRun = v.fillRun /\ q.startedFor = v.startedFor
      BY <2>3 DEF SameBut, PageFields
    <2> QED BY <2>2, <2>3, <2>4 DEF Settled, Model, Shown, Subject, KeepsShown
  <1> QED BY <1>4, <1>5, <1>6
-----------------------------------------------------------------------------
(* What the user does.                                                      *)

(* L are the requests under way, without the one that is being answered.    *)
OnPage(L) == Settled(page) /\ Holding(page, page.fillRun, TRUE, FALSE, L)

LEMMA PageHolds ==
    ASSUME HandledInv, NEW run, NEW listed, NEW due, NEW L,
           Works(page, run, listed, due, L)
    PROVE  Holding(page, run, listed, due, L)
  <1>1. /\ page \in Pages /\ page.store \in Stores /\ page.out = <<>> /\ page.stop = {}
    BY DEF HandledInv, PageInv, StoreInv
  <1>2. DOMAIN page = PageFields /\ DOMAIN page.edit = {"applying", "record", "revision"}
    <2> HIDE DEF Stores, Requests, Subjects, AllSetups, Streams
    <2> QED BY <1>1 DEF Pages, PageFields
  <1>3. FormedStore(page.store)
    <2>1. DOMAIN page.store = StoreFields
      <3> HIDE DEF Analyses, Repairs, HoleFills
      <3> QED BY <1>1 DEF Stores, StoreFields
    <2>2. /\ page.store.analysis \in Analyses /\ page.store.repair \in Repairs
          /\ page.store.holeFill \in HoleFills
      <3> HIDE DEF Analyses, Repairs, HoleFills
      <3> QED BY <1>1 DEF Stores
    <2> QED BY <2>1, <2>2 DEF FormedStore, ShapedStore, StoreFields, RepairFields, HoleFillFields,
          Analyses, Repairs, HoleFills
  <1>4. Ready(page)
    <2>1. NewJobs(page.out) /\ page.out \in Seq({})
      BY <1>1 DEF NewJobs
    <2>2. IsFiniteSet(page.stop)
      BY <1>1, FS_EmptySet
    <2> QED BY <1>2, <1>3, <2>1, <2>2 DEF Ready, Formed
  <1>5. Owed(page, L) = L
    BY <1>1 DEF Owed, Range
  <1> QED BY <1>4, <1>5 DEF Holding

(* A handler that keeps the model on screen.                                *)
LEMMA HandlerLeaves ==
    ASSUME Settled(page), NEW L, NEW q, Holding(q, q.fillRun, TRUE, FALSE, L),
           KeepsShown(page.store, q.store), q.startedFor = page.startedFor
    PROVE  Ends(q, L)
  <1>1. Settled(q) = TRUE
    BY DEF Settled, Model, Shown, Subject, KeepsShown
  <1> QED BY <1>1 DEF Ends

LEMMA AnalysisActionsEnd ==
    ASSUME NEW L, OnPage(L), Bounded, L \subseteq UnderWay,
           RunsAnalysis \/ CancelsAnalysis \/ Replans \/ RetriesListing
    PROVE  \E p : PageBecomes(p, toPage) /\ Ends(p, L)
  <1> DEFINE run == page.fillRun
  <1>1. Holding(page, run, TRUE, FALSE, L) /\ Settled(page)
    BY DEF OnPage
  <1>2. DOMAIN page = PageFields
    BY <1>1 DEF Holding, Ready, Formed
  <1> HIDE DEF run
  <1>3. ASSUME NEW q, PageBecomes(q, toPage), Holding(q, run, TRUE, FALSE, L),
               KeepsShown(page.store, q.store), q.startedFor = page.startedFor,
               q.fillRun = page.fillRun
        PROVE  \E p : PageBecomes(p, toPage) /\ Ends(p, L)
    BY <1>1, <1>3, HandlerLeaves DEF run
  <1>4. CASE RunsAnalysis
    <2> DEFINE q == StartAnalysis(page)
    <2>1. PageBecomes(q, toPage)
      BY <1>4 DEF RunsAnalysis, UserDoes
    <2>2. /\ Holding(q, run, TRUE, FALSE, L) /\ KeepsShown(page.store, q.store)
          /\ SameBut(page, q, {"out", "stop", "store", "analysisSession"})
      BY <1>1, AnalysisStarted
    <2> HIDE DEF q
    <2>3. q.startedFor = page.startedFor /\ q.fillRun = page.fillRun
      BY <2>2 DEF SameBut, PageFields
    <2> QED BY <1>3, <2>1, <2>2, <2>3
  <1>5. CASE CancelsAnalysis
    <2> DEFINE q == Stop(page, "analysis", page.analysisSession)
    <2>1. PageBecomes(q, toPage)
      BY <1>5 DEF CancelsAnalysis, UserDoes
    <2>2. Holding(q, run, TRUE, FALSE, L) /\ SameBut(page, q, {"stop"})
      <3>1. \A number, x : x = Stop(page, "analysis", number) =>
              Holding(x, run, TRUE, FALSE, L) /\ SameBut(page, x, {"stop"})
        BY <1>1, StoppedTo
      <3> QED BY <3>1
    <2> HIDE DEF q
    <2>3. q.startedFor = page.startedFor /\ q.fillRun = page.fillRun
          /\ KeepsShown(page.store, q.store)
      BY <2>2 DEF SameBut, PageFields, KeepsShown
    <2> QED BY <1>3, <2>1, <2>2, <2>3
  <1>6. CASE Replans
    <2> DEFINE q == StartPlan(page)
    <2>1. PageBecomes(q, toPage) /\ page.store.repair.planState = "failed"
      BY <1>6 DEF Replans, UserDoes, RepairAction
    <2>2. "repair" \in page.setup.tools
      BY <1>1, <2>1 DEF Holding, Works, RepairEnds
    <2>3. /\ Holding(q, run, TRUE, FALSE, L) /\ KeepsShown(page.store, q.store)
          /\ SameBut(page, q, {"out", "stop", "store", "repairSession"})
      BY <1>1, <2>2, PlanStarted
    <2> HIDE DEF q
    <2>4. q.startedFor = page.startedFor /\ q.fillRun = page.fillRun
      BY <2>3 DEF SameBut, PageFields
    <2> QED BY <1>3, <2>1, <2>3, <2>4
  <1>7. CASE RetriesListing
    <2> DEFINE q == ListOpenings(page)
    <2>1. /\ PageBecomes(q, toPage) /\ page.store.holeFill.inventory = "failed"
          /\ "fill" \in page.setup.tools
      BY <1>7 DEF RetriesListing, UserDoes
    <2>2. /\ Holding(q, q.fillRun, TRUE, FALSE, L) /\ KeepsShown(page.store, q.store)
          /\ SameBut(page, q, {"out", "store"})
      BY <1>1, <2>1, ListingStarted DEF run
    <2> HIDE DEF q
    <2>3. q.startedFor = page.startedFor
      BY <2>2 DEF SameBut, PageFields
    <2> QED BY <1>1, <2>1, <2>2, <2>3, HandlerLeaves
  <1> QED BY <1>4, <1>5, <1>6, <1>7

LEMMA SelectsPartEnds ==
    ASSUME NEW L, OnPage(L), SelectsPart
    PROVE  \E p : PageBecomes(p, toPage) /\ Ends(p, L)
  <1>1. PICK part \in page.setup.parts \ {page.store.part} :
            UserDoes([page EXCEPT !.store = SelectPart(@, part)])
    BY DEF SelectsPart
  <1> DEFINE run == page.fillRun
             t == SelectPart(page.store, part)
             q == [page EXCEPT !.store = t]
             S == Owed(page, L)
  <1>2. Holding(page, run, TRUE, FALSE, L) /\ Settled(page)
    BY DEF OnPage
  <1>3. DOMAIN page = PageFields /\ FormedStore(page.store)
    BY <1>2 DEF Holding, Ready, Formed
  <1>4. PageBecomes(q, toPage)
    BY <1>1 DEF UserDoes
  <1>5. Idle(t) /\ t.part = part
    <2>1. Idle(t)
      <3> HIDE DEF t
      <3> QED BY <1>3, AnotherModel DEF t
    <2> QED BY <1>3, <2>1 DEF SelectPart, FormedStore, ShapedStore, StoreFields
  <1> HIDE DEF t
  <1>6. /\ SameBut(page, q, {"store"}) /\ q.store = t /\ q.setup = page.setup
        /\ q.startedFor = page.startedFor /\ q.edit = page.edit /\ q.fillRun = page.fillRun
        /\ q.fillLive = page.fillLive /\ q.repairLive = page.repairLive
    BY <1>3 DEF SameBut, PageFields
  <1> HIDE DEF q
  <1>7. Settled(q) = FALSE
    BY <1>1, <1>2, <1>5, <1>6 DEF Settled, Model, Shown, Subject
  <1>8. Holding(q, run, FALSE, FALSE, L)
    <2>1. /\ AnalysisEnds(t, S) /\ PlanEnds(t, S)
          /\ RepairEnds(t, page.repairLive, page.setup.tools, S)
          /\ FillEnds(t, run, page.setup.tools, FALSE, S)
      <3>1. /\ RepairEnds(page.store, page.repairLive, page.setup.tools, S)
            /\ FillEnds(page.store, run, page.setup.tools, TRUE, S)
        BY <1>2 DEF Holding, Works
      <3>2. /\ Claims({"plan"}, S) => "repair" \in page.setup.tools
            /\ run # 0 => "fill" \in page.setup.tools
        <4> HIDE DEF S, run
        <4> QED BY <3>1 DEF RepairEnds, FillEnds
      <3> HIDE DEF S, run
      <3> QED BY <1>5, <3>2, IdleEnds
    <2> HIDE DEF S, run
    <2>2. Sliced(page, q, {}, S, run, TRUE, FALSE, run, FALSE, FALSE)
      BY <1>6, <2>1 DEF Sliced
    <2>3. Alike(L, L, {})
      BY AlikeWith
    <2>4. /\ SameBut(page, q, Inner)
          /\ FormedStore(q.store) /\ DOMAIN q.edit = DOMAIN page.edit
      BY <1>5, <1>6 DEF Inner, SameBut, Idle
    <2> QED BY <1>2, <2>2, <2>3, <2>4, Stored DEF S
  <1>9. Ends(q, L)
    BY <1>6, <1>7, <1>8 DEF Ends, run
  <1> QED BY <1>4, <1>9

LEMMA RepairStored ==
    ASSUME NEW p, NEW run, NEW listed, NEW due, NEW L, Holding(p, run, listed, due, L),
           NEW q, SameBut(p, q, Memory \cup {"store"}), KeepsBesideRepair(p.store, q.store),
           NEW left, left \/ PlanEnds(q.store, Owed(p, L)),
           RepairEnds(q.store, p.repairLive, p.setup.tools, Owed(p, L))
    PROVE  Holding(q, run, listed, left, L)
  <1>1. /\ q.setup = p.setup /\ q.edit = p.edit /\ q.repairLive = p.repairLive
        /\ q.fillLive = p.fillLive /\ q.fillRun = p.fillRun /\ q.stop = p.stop
        /\ SameBut(p, q, Inner)
    BY DEF Inner, SameBut, PageFields, Memory
  <1>2. Sliced(p, q, {}, Owed(p, L), run, listed, due, run, listed, left)
    BY <1>1 DEF Sliced, KeepsBesideRepair
  <1>3. Alike(L, L, {})
    BY AlikeWith
  <1>4. FormedStore(q.store) /\ DOMAIN q.edit = DOMAIN p.edit
    BY <1>1 DEF KeepsBesideRepair
  <1> QED BY <1>1, <1>2, <1>3, <1>4, Stored

LEMMA FillStored ==
    ASSUME NEW p, NEW run, NEW listed, NEW due, NEW L, Holding(p, run, listed, due, L),
           NEW q, SameBut(p, q, Memory \cup {"store"}), FormedStore(q.store),
           KeepsAnalysis(p.store, q.store), KeepsRepair(p.store, q.store),
           KeepsShown(p.store, q.store), NEW now, NEW shown,
           FillEnds(q.store, now, p.setup.tools, shown, Owed(p, L))
    PROVE  Holding(q, now, shown, due, L)
  <1>1. /\ q.setup = p.setup /\ q.edit = p.edit /\ q.repairLive = p.repairLive
        /\ q.fillLive = p.fillLive /\ q.fillRun = p.fillRun /\ q.stop = p.stop
        /\ SameBut(p, q, Inner)
    BY DEF Inner, SameBut, PageFields, Memory
  <1>2. Sliced(p, q, {}, Owed(p, L), run, listed, due, now, shown, due)
    BY <1>1 DEF Sliced
  <1>3. Alike(L, L, {})
    BY AlikeWith
  <1>4. DOMAIN q.edit = DOMAIN p.edit
    BY <1>1
  <1> QED BY <1>1, <1>2, <1>3, <1>4, Stored

(* The plan stays, no build starts, and the slot is claimed for a request.  *)
LEMMA CandidateGoesOn ==
    ASSUME NEW s, NEW t, KeepsPlan(s, t), NEW live, NEW tools, NEW S, PlanEnds(s, S),
           RepairEnds(s, live, tools, S),
           \/ t.repair.candidateState \notin {"building", "cancelling"}
           \/ s.repair.candidateState \in {"building", "cancelling"},
           \/ t.repair.commitState \in {"idle", s.repair.commitState}
           \/ Claims({"commitRepair", "undoRepair"}, S)
    PROVE  PlanEnds(t, S) /\ RepairEnds(t, live, tools, S)
  BY DEF KeepsPlan, PlanEnds, RepairEnds

LEMMA SelectionEnds ==
    ASSUME NEW L, OnPage(L), HandledInv, ChangesSelection
    PROVE  \E p : PageBecomes(p, toPage) /\ Ends(p, L)
  <1> DEFINE run == page.fillRun
             u == ReleaseRepairCandidate(page)
             t == SetRepairSelection(page.store)
             q == [u EXCEPT !.store = t, !.plannedFor = Nothing]
             S == Owed(u, L)
  <1>1. Holding(page, run, TRUE, FALSE, L) /\ Settled(page)
    BY DEF OnPage
  <1>2. FormedStore(page.store)
    BY <1>1 DEF Holding, Ready, Formed
  <1>3. /\ Holding(u, run, TRUE, FALSE, L) /\ SameBut(page, u, {"out", "repairLive"})
        /\ u.repairLive = 0
    <2> HIDE DEF run
    <2> QED BY <1>1, RepairReleased
  <1> HIDE DEF u
  <1>4. /\ DOMAIN u = PageFields /\ u.store = page.store /\ u.setup = page.setup
        /\ u.startedFor = page.startedFor /\ u.fillRun = page.fillRun
    BY <1>3 DEF SameBut, PageFields
  <1>5. /\ PageBecomes(q, toPage) /\ ReportIsCurrent(page) /\ page.store.repair.plan # Nothing
        /\ page.store.repair.commitState = "idle"
    BY <1>4 DEF ChangesSelection, UserDoes, u
  <1>6. /\ KeepsBesideRepair(page.store, t) /\ t.repairToken = 0
        /\ t.repair.candidateState = "idle" /\ t.repair.commitState = "idle"
    BY <1>2, <1>5, PlanFrame
  <1> HIDE DEF t
  <1>7. /\ SameBut(u, q, Memory \cup {"store"}) /\ q.store = t /\ q.plannedFor = Nothing
        /\ q.setup = page.setup /\ q.startedFor = page.startedFor /\ q.fillRun = run
    BY <1>4 DEF SameBut, PageFields, Memory
  <1> HIDE DEF q
  <1>8. "repair" \in page.setup.tools
    BY <1>1, <1>5 DEF Holding, Works, RepairEnds
  <1>9. RepairEnds(t, u.repairLive, u.setup.tools, S)
    <2> HIDE DEF S
    <2> QED BY <1>3, <1>4, <1>6, <1>8 DEF RepairEnds
  <1>10. Holding(q, run, TRUE, TRUE, L)
    <2> HIDE DEF run
    <2> QED BY <1>3, <1>4, <1>6, <1>7, <1>9, RepairStored
  <1>11. Model(q) = Model(page) /\ Settled(q) = TRUE
    BY <1>1, <1>6, <1>7 DEF Settled, Model, Shown, Subject, KeepsShown, KeepsBesideRepair
  <1>12. PlanDue(q)
    <2>1. Model(page) # Nothing
      BY ShownIs DEF HandledInv, PageInv, StoreInv, Model
    <2>2. ReportIsCurrent(q)
      BY <1>5, <1>6, <1>7, <1>11 DEF ReportIsCurrent, KeepsBesideRepair, KeepsAnalysis
    <2> QED BY <1>7, <1>8, <1>11, <2>1, <2>2 DEF PlanDue
  <1>13. Ends(q, L)
    BY <1>7, <1>10, <1>11, <1>12 DEF Ends
  <1> QED BY <1>5, <1>13

LEMMA RepairPreviewEnds ==
    ASSUME NEW L, OnPage(L), Bounded, L \subseteq UnderWay, PreviewsRepair
    PROVE  \E p : PageBecomes(p, toPage) /\ Ends(p, L)
  <1> DEFINE run == page.fillRun
             u == ReleaseRepairCandidate(page)
             token == Fresh(u, "repair")
             t == BeginRepairCandidate(u.store, token)
             v == [u EXCEPT !.store = t, !.repairActive = token, !.repairSession = token]
             r == Request("build", token, Model(page), 0, 0)
             q == Post(v, r)
             S == Owed(u, L)
             Z == OwedWith(u, L, r)
             kinds == {"build"}
  <1>1. Holding(page, run, TRUE, FALSE, L) /\ Settled(page)
    BY DEF OnPage
  <1>2. /\ PageBecomes(q, toPage) /\ page.store.repair.planState = "ready"
        /\ page.store.repair.commitState = "idle"
    <2> HIDE DEF u
    <2> QED BY DEF PreviewsRepair, UserDoes, RepairAction, u
  <1>3. /\ Holding(u, run, TRUE, FALSE, L) /\ SameBut(page, u, {"out", "repairLive"})
        /\ u.repairLive = 0
    <2> HIDE DEF run
    <2> QED BY <1>1, RepairReleased
  <1> HIDE DEF u
  <1>4. /\ DOMAIN u = PageFields /\ u.store = page.store /\ u.setup = page.setup
        /\ u.startedFor = page.startedFor /\ u.fillRun = page.fillRun
        /\ FormedStore(u.store) /\ IsFiniteSet(u.stop)
    BY <1>3 DEF SameBut, PageFields, Holding, Ready, Formed
  <1>5. /\ token # 0 /\ token # resident.repairCandidate.id
        /\ \A x \in UnderWay \cup Range(u.out) : x.kind \in {"plan", "build"} => x.token # token
    <2>1. \A x : x.kind \in {"plan", "build"} => Stream(x.kind) = "repair"
      BY DEF Stream
    <2>2. resident.repairCandidate.id \in Numbers(u, "repair")
      BY DEF Numbers
    <2>3. /\ token # 0 /\ token \notin Numbers(u, "repair")
          /\ \A x \in UnderWay \cup Range(u.out) : Stream(x.kind) = "repair" => x.token # token
      <3> HIDE DEF run
      <3> QED BY <1>3, NewToken
    <2> HIDE DEF token
    <2> QED BY <2>1, <2>2, <2>3
  <1> HIDE DEF token
  <1>6. /\ KeepsBesideRepair(u.store, t) /\ t.repairToken = token
        /\ t.repair.planState = "ready" /\ t.repair.commitState = "idle"
    BY <1>2, <1>4, PlanFrame
  <1>7. r.kind = "build" /\ r.token = token
    BY DEF Request
  <1>8. RepairEnds(t, 0, u.setup.tools, Z)
    <2>1. RepairEnds(u.store, u.repairLive, u.setup.tools, S)
      BY <1>3 DEF Holding, Works
    <2>2. "repair" \in u.setup.tools
      BY <1>2, <1>4, <2>1 DEF RepairEnds
    <2>3. Pending("build", token, Z)
      BY <1>5, <1>7 DEF Pending, OwedWith
    <2>4. \A x \in Z : x.kind = "plan" => x.token # token
      BY <1>5, <1>7 DEF OwedWith, Owed
    <2> HIDE DEF S, Z, t, r
    <2> QED BY <1>6, <2>2, <2>3, <2>4 DEF RepairEnds
  <1>9. PlanEnds(t, Z)
    <2> HIDE DEF Z, t
    <2> QED BY <1>6 DEF PlanEnds
  <1>10. RepairFate(0, u.stop, Z)
    <2>1. RepairFate(0, u.stop, S)
      BY <1>3 DEF Holding, Works
    <2>2. \A kind, number : Pending(kind, number, S) => Pending(kind, number, Z)
      BY DEF Pending, OwedWith
    <2>3. S \subseteq Z
      BY DEF OwedWith
    <2> HIDE DEF S, Z, r
    <2> QED BY <2>1, <2>2, <2>3 DEF RepairFate
  <1> HIDE DEF t, r
  <1>11. /\ SameBut(u, v, {"store", "repairActive", "repairSession"}) /\ v.store = t
         /\ v.stop = u.stop /\ v.edit = u.edit /\ v.setup = u.setup /\ v.repairLive = 0
         /\ v.fillLive = u.fillLive /\ v.fillRun = u.fillRun
    BY <1>3, <1>4 DEF SameBut, PageFields
  <1> HIDE DEF v
  <1>12. Sliced(u, v, kinds, Z, run, TRUE, FALSE, run, TRUE, FALSE)
    <2> HIDE DEF Z, run
    <2> QED BY <1>6, <1>8, <1>9, <1>10, <1>11 DEF Sliced, KeepsBesideRepair
  <1>13. Holding(q, run, TRUE, FALSE, L) /\ SameBut(v, q, {"out"})
    <2>1. Prepares(u, v)
      BY <1>4, <1>6, <1>11 DEF Prepares, SameBut, Memory, KeepsBesideRepair
    <2>2. NewJob(u, r)
      BY <1>5, <1>7 DEF IsJob, NewJob, SameJob, MadeBy
    <2>3. r.kind \in kinds
      BY <1>7
    <2> HIDE DEF kinds, run
    <2> QED BY <1>3, <1>12, <2>1, <2>2, <2>3, StoredAndPosted
  <1> HIDE DEF q
  <1>14. /\ KeepsShown(page.store, q.store) /\ q.startedFor = page.startedFor
         /\ q.fillRun = run
    <2>1. q.store = v.store /\ q.startedFor = v.startedFor /\ q.fillRun = v.fillRun
      BY <1>13 DEF SameBut, PageFields
    <2>2. v.startedFor = u.startedFor
      BY <1>11 DEF SameBut, PageFields
    <2> QED BY <1>4, <1>6, <1>11, <2>1, <2>2 DEF KeepsBesideRepair
  <1> QED BY <1>1, <1>2, <1>13, <1>14, HandlerLeaves

LEMMA RepairActionsEnd ==
    ASSUME NEW L, OnPage(L),
           CancelsRepair \/ DiscardsRepair \/ AppliesRepair \/ UndoesRepair
    PROVE  \E p : PageBecomes(p, toPage) /\ Ends(p, L)
  <1> DEFINE run == page.fillRun
  <1>1. Holding(page, run, TRUE, FALSE, L) /\ Settled(page)
    BY DEF OnPage
  <1>2. DOMAIN page = PageFields
    BY <1>1 DEF Holding, Ready, Formed
  <1> HIDE DEF run
  <1>3. ASSUME NEW q, PageBecomes(q, toPage), Holding(q, run, TRUE, FALSE, L),
               KeepsShown(page.store, q.store), q.startedFor = page.startedFor,
               q.fillRun = page.fillRun
        PROVE  \E p : PageBecomes(p, toPage) /\ Ends(p, L)
    BY <1>1, <1>3, HandlerLeaves DEF run
  (* What each of them leaves of the slice, after what it posts or stops.   *)
  <1>4. ASSUME NEW u, Holding(u, run, TRUE, FALSE, L), SameBut(page, u, {"out", "stop"}),
               NEW t, KeepsPlan(page.store, t),
               \/ t.repair.candidateState \notin {"building", "cancelling"}
               \/ page.store.repair.candidateState \in {"building", "cancelling"},
               \/ t.repair.commitState \in {"idle", page.store.repair.commitState}
               \/ Claims({"commitRepair", "undoRepair"}, Owed(u, L)),
               NEW q, q = [u EXCEPT !.store = t]
        PROVE  /\ Holding(q, run, TRUE, FALSE, L) /\ KeepsShown(page.store, q.store)
               /\ q.startedFor = page.startedFor /\ q.fillRun = page.fillRun
               /\ DOMAIN q = PageFields
    <2>1. /\ u.store = page.store /\ SameBut(u, q, Memory \cup {"store"}) /\ q.store = t
          /\ q.startedFor = page.startedFor /\ q.fillRun = page.fillRun
          /\ DOMAIN q = PageFields
      BY <1>4 DEF SameBut, PageFields, Memory
    <2>2. PlanEnds(t, Owed(u, L)) /\ RepairEnds(t, u.repairLive, u.setup.tools, Owed(u, L))
      <3>1. /\ PlanEnds(page.store, Owed(u, L))
            /\ RepairEnds(page.store, u.repairLive, u.setup.tools, Owed(u, L))
        BY <1>4, <2>1 DEF Holding, Works
      <3> QED BY <1>4, <3>1, CandidateGoesOn
    <2>3. KeepsBesideRepair(page.store, t)
      BY <1>4 DEF KeepsPlan
    <2>4. Holding(q, run, TRUE, FALSE, L)
      BY <1>4, <2>1, <2>2, <2>3, RepairStored
    <2> QED BY <2>1, <2>3, <2>4 DEF KeepsBesideRepair
  <1>5. FormedStore(page.store)
    BY <1>1 DEF Holding, Ready, Formed
  <1>6. \A u, number : u = Stop(page, "repair", number) =>
            Holding(u, run, TRUE, FALSE, L) /\ SameBut(page, u, {"out", "stop"})
    <2>1. \A u, number : u = Stop(page, "repair", number) =>
            Holding(u, run, TRUE, FALSE, L) /\ SameBut(page, u, {"stop"})
      BY <1>1, StoppedTo
    <2> QED BY <2>1 DEF SameBut
  <1>7. \A u, r : u = Post(page, r) /\ r.kind \in {"commitRepair", "undoRepair"} =>
            /\ Holding(u, run, TRUE, FALSE, L) /\ SameBut(page, u, {"out", "stop"})
            /\ Claims({"commitRepair", "undoRepair"}, Owed(u, L))
    <2> SUFFICES ASSUME NEW u, NEW r, u = Post(page, r),
                        r.kind \in {"commitRepair", "undoRepair"}
                 PROVE  /\ Holding(u, run, TRUE, FALSE, L) /\ SameBut(page, u, {"out", "stop"})
                        /\ Claims({"commitRepair", "undoRepair"}, Owed(u, L))
      OBVIOUS
    <2>1. r.kind \notin Asking
      BY DEF Asking
    <2>2. /\ Holding(u, run, TRUE, FALSE, L) /\ SameBut(page, u, {"out"})
          /\ Range(u.out) = Range(page.out) \cup {r}
      BY <1>1, <2>1, QuietlyPosted
    <2> QED BY <2>2 DEF SameBut, Claims, Owed
  <1>8. CASE CancelsRepair
    <2> DEFINE u == Stop(page, "repair", page.repairSession)
               t == BeginRepairCancellation(page.store, page.repairActive)
               q == [u EXCEPT !.store = t]
    <2>1. Holding(u, run, TRUE, FALSE, L) /\ SameBut(page, u, {"out", "stop"})
      BY <1>6
    <2> HIDE DEF u
    <2>2. u.store = page.store /\ u.repairActive = page.repairActive
      BY <2>1 DEF SameBut, PageFields
    <2>3. PageBecomes(q, toPage)
      BY <1>8, <2>2 DEF CancelsRepair, UserDoes, u
    <2>4. /\ KeepsPlan(page.store, t) /\ t.repair.commitState = page.store.repair.commitState
          /\ t = page.store \/ page.store.repair.candidateState = "building"
      <3>1. \A number, x : x = BeginRepairCancellation(page.store, number) =>
              /\ KeepsPlan(page.store, x) /\ x.repair.commitState = page.store.repair.commitState
              /\ x = page.store \/ page.store.repair.candidateState = "building"
        BY <1>5, CandidateFrame
      <3> QED BY <3>1
    <2> HIDE DEF t
    <2>5. \/ t.repair.candidateState \notin {"building", "cancelling"}
          \/ page.store.repair.candidateState \in {"building", "cancelling"}
      BY <2>4
    <2> QED BY <1>3, <1>4, <2>1, <2>3, <2>4, <2>5
  <1>9. CASE DiscardsRepair
    <2> DEFINE u == Stop(page, "repair", page.repairSession)
               t == ClearRepairCandidate(page.store)
               v == [u EXCEPT !.store = t]
               q == ReleaseRepairCandidate(v)
    <2>1. Holding(u, run, TRUE, FALSE, L) /\ SameBut(page, u, {"out", "stop"})
      BY <1>6
    <2> HIDE DEF u
    <2>2. u.store = page.store
      BY <2>1 DEF SameBut, PageFields
    <2>3. PageBecomes(q, toPage)
      BY <1>9, <2>2 DEF DiscardsRepair, UserDoes, u
    <2>4. /\ KeepsPlan(page.store, t) /\ t.repair.commitState = page.store.repair.commitState
          /\ t.repair.candidateState = "idle"
      BY <1>5, CandidateFrame
    <2> HIDE DEF t
    <2>5. /\ Holding(v, run, TRUE, FALSE, L) /\ KeepsShown(page.store, v.store)
          /\ v.startedFor = page.startedFor /\ v.fillRun = page.fillRun
      BY <1>4, <2>1, <2>4
    <2> HIDE DEF v
    <2>6. Holding(q, run, TRUE, FALSE, L) /\ SameBut(v, q, {"out", "repairLive"})
      BY <2>5, RepairReleased
    <2> HIDE DEF q
    <2>7. q.store = v.store /\ q.startedFor = v.startedFor /\ q.fillRun = v.fillRun
      BY <2>6 DEF SameBut, PageFields
    <2> QED BY <1>3, <2>3, <2>5, <2>6, <2>7
  <1>10. ASSUME NEW r, r.kind \in {"commitRepair", "undoRepair"}, NEW state,
                PageBecomes(Post([page EXCEPT !.store = BeginRepairChange(@, state)], r), toPage)
         PROVE  \E p : PageBecomes(p, toPage) /\ Ends(p, L)
    <2> DEFINE u == Post(page, r)
               t == BeginRepairChange(page.store, state)
               q == [u EXCEPT !.store = t]
    <2>1. q = Post([page EXCEPT !.store = BeginRepairChange(@, state)], r)
      BY <1>2 DEF Post, PageFields
    <2>2. /\ Holding(u, run, TRUE, FALSE, L) /\ SameBut(page, u, {"out", "stop"})
          /\ Claims({"commitRepair", "undoRepair"}, Owed(u, L))
      BY <1>7, <1>10
    <2>3. /\ KeepsPlan(page.store, t)
          /\ t.repair.candidateState = page.store.repair.candidateState
      BY <1>5, CandidateFrame
    <2> HIDE DEF u, t
    <2>4. \/ t.repair.candidateState \notin {"building", "cancelling"}
          \/ page.store.repair.candidateState \in {"building", "cancelling"}
      BY <2>3
    <2>5. PageBecomes(q, toPage)
      BY <1>10, <2>1
    <2> QED BY <1>3, <1>4, <2>2, <2>3, <2>4, <2>5
  <1>11. CASE AppliesRepair
    <2> DEFINE c == page.store.repair.candidate
               r == Request("commitRepair", 0, c.subject, 0, c.id)
    <2>1. r.kind \in {"commitRepair", "undoRepair"}
      BY DEF Request
    <2>2. PageBecomes(Post([page EXCEPT !.store = BeginRepairChange(@, "applying")], r), toPage)
      BY <1>11 DEF AppliesRepair, UserDoes
    <2> QED BY <1>10, <2>1, <2>2
  <1>12. CASE UndoesRepair
    <2> DEFINE r == Request("undoRepair", 0, Model(page), 0, page.store.repair.lastApplied)
    <2>1. r.kind \in {"commitRepair", "undoRepair"}
      BY DEF Request
    <2>2. PageBecomes(Post([page EXCEPT !.store = BeginRepairChange(@, "undoing")], r), toPage)
      BY <1>12 DEF UndoesRepair, UserDoes
    <2> QED BY <1>10, <2>1, <2>2
  <1> QED BY <1>8, <1>9, <1>11, <1>12

(* The actions that cancel the session first, or after, and reject it.      *)
LEMMA FillSelectionsEnd ==
    ASSUME NEW L, OnPage(L), HandledInv, SelectsOpening \/ CancelsFillPreview \/ DiscardsFill
    PROVE  \E p : PageBecomes(p, toPage) /\ Ends(p, L)
  <1> DEFINE run == page.fillRun
             s == page.store
             h == s.holeFill
  <1>1. Holding(page, run, TRUE, FALSE, L) /\ Settled(page)
    BY DEF OnPage
  <1>2. DOMAIN page = PageFields /\ FormedStore(s)
    BY <1>1 DEF Holding, Ready, Formed
  <1>3. h.rows # Nothing => h.inventory = "ready"
    BY DEF HandledInv, PageInv, StoreInv, HoleFillOf
  <1> HIDE DEF run
  <1>4. ASSUME NEW u, Holding(u, run, TRUE, FALSE, L), u.store = s, DOMAIN u = PageFields,
               u.setup = page.setup, NEW t, FormedStore(t),
               KeepsAnalysis(s, t), KeepsRepair(s, t), KeepsShown(s, t),
               FillEnds(t, run, page.setup.tools, TRUE, Owed(u, L)),
               NEW v, v = [u EXCEPT !.store = t]
        PROVE  Holding(v, run, TRUE, FALSE, L) /\ SameBut(u, v, {"store"})
               /\ KeepsShown(s, v.store)
    <2>1. SameBut(u, v, {"store"}) /\ SameBut(u, v, Memory \cup {"store"}) /\ v.store = t
      BY <1>4 DEF SameBut, PageFields, Memory
    <2> HIDE DEF s
    <2> QED BY <1>4, <2>1, FillStored
  <1>5. ASSUME NEW v, Holding(v, run, TRUE, FALSE, L), KeepsShown(s, v.store),
               v.startedFor = page.startedFor,
               v.fillRun = IF CancelsFill(page) THEN 0 ELSE page.fillRun,
               NEW q, q = ThenRejected(page, v), PageBecomes(q, toPage)
        PROVE  \E p : PageBecomes(p, toPage) /\ Ends(p, L)
    <2>1. /\ Holding(q, q.fillRun, TRUE, FALSE, L) /\ KeepsShown(v.store, q.store)
          /\ SameBut(v, q, {"store", "fillSession", "fillActive"})
      BY <1>5, RejectionFollows DEF run
    <2>2. KeepsShown(s, q.store) /\ q.startedFor = page.startedFor
      BY <1>5, <2>1 DEF SameBut, PageFields, KeepsShown
    <2> QED BY <1>1, <1>5, <2>1, <2>2, HandlerLeaves
  <1>6. /\ FillEnds(s, run, page.setup.tools, TRUE, Owed(page, L))
        /\ \A u : Holding(u, run, TRUE, FALSE, L) /\ u.store = s /\ u.setup = page.setup
             => FillEnds(s, run, page.setup.tools, TRUE, Owed(u, L))
    BY <1>1 DEF Holding, Works
  <1>7. CASE SelectsOpening
    <2>1. PICK opening \in page.setup.openings :
            LET cancelled == CancelFillSession(page)
                dropped == IF s.holeFill.selected = opening THEN 0
                           ELSE s.holeFill.candidate.id
                selected == ReleaseFillCandidate(
                    [cancelled EXCEPT !.store = SelectBoundaryLoop(@, opening)], dropped)
            IN  /\ s.holeFill.rows # Nothing
                /\ PageBecomes(ThenRejected(page, selected), toPage)
      BY <1>7 DEF SelectsOpening, UserDoes
    <2> DEFINE u == CancelFillSession(page)
               dropped == IF h.selected = opening THEN 0 ELSE h.candidate.id
               t == SelectBoundaryLoop(s, opening)
               v == [u EXCEPT !.store = t]
               w == ReleaseFillCandidate(v, dropped)
    <2>2. /\ Holding(u, run, TRUE, FALSE, L)
          /\ SameBut(page, u, {"out", "stop", "fillRun", "fillSession"})
          /\ u.fillRun = IF CancelsFill(page) THEN 0 ELSE page.fillRun
      BY <1>1, SessionCancelled
    <2> HIDE DEF u
    <2>3. /\ u.store = s /\ DOMAIN u = PageFields /\ u.setup = page.setup
          /\ u.startedFor = page.startedFor
      BY <2>2 DEF SameBut, PageFields
    <2>4. PageBecomes(ThenRejected(page, w), toPage)
      BY <2>1, <2>3 DEF u
    <2>5. IF h.selected = opening THEN t = s
          ELSE FillsTo(s, t, 0, "ready", "idle", h.commitState)
      BY <1>2, <1>3, <2>1, FillFrame
    <2> HIDE DEF t, dropped
    <2>6. /\ FormedStore(t) /\ KeepsAnalysis(s, t) /\ KeepsRepair(s, t) /\ KeepsShown(s, t)
      BY <1>2, <2>5 DEF FillsTo, KeepsAnalysis, KeepsRepair, KeepsShown
    <2>7. FillEnds(t, run, page.setup.tools, TRUE, Owed(u, L))
      <3>1. FillEnds(s, run, page.setup.tools, TRUE, Owed(u, L))
        BY <1>6, <2>2, <2>3
      <3> QED BY <1>3, <2>1, <2>5, <3>1 DEF FillEnds, FillsTo
    <2>8. Holding(v, run, TRUE, FALSE, L) /\ SameBut(u, v, {"store"}) /\ KeepsShown(s, v.store)
      BY <1>4, <2>2, <2>3, <2>6, <2>7
    <2> HIDE DEF v
    <2>9. Holding(w, run, TRUE, FALSE, L) /\ SameBut(v, w, {"out", "fillLive"})
      BY <2>8, FillReleased
    <2> HIDE DEF w
    <2>10. /\ w.startedFor = page.startedFor /\ KeepsShown(s, w.store)
           /\ w.fillRun = IF CancelsFill(page) THEN 0 ELSE page.fillRun
      BY <2>2, <2>3, <2>8, <2>9 DEF SameBut, PageFields
    <2> QED BY <1>5, <2>4, <2>9, <2>10
  <1>8. CASE CancelsFillPreview
    <2> DEFINE t == BeginHoleFillCancellation(s, page.fillActive)
               v == [page EXCEPT !.store = t]
               w == CancelFillSession(v)
    <2>1. PageBecomes(ThenRejected(page, w), toPage)
      BY <1>8 DEF CancelsFillPreview, UserDoes
    <2>2. \/ t = s
          \/ /\ h.workState = "generating" /\ t.holeFill.selected = h.selected
             /\ FillsTo(s, t, s.holeFillToken, h.inventory, "cancelling", h.commitState)
      <3>1. \A number, x : x = BeginHoleFillCancellation(s, number) =>
              \/ x = s
              \/ /\ h.workState = "generating" /\ x.holeFill.selected = h.selected
                 /\ FillsTo(s, x, s.holeFillToken, h.inventory, "cancelling", h.commitState)
        BY <1>2, FillFrame
      <3> QED BY <3>1
    <2> HIDE DEF t
    <2>3. FormedStore(t) /\ KeepsAnalysis(s, t) /\ KeepsRepair(s, t) /\ KeepsShown(s, t)
      BY <1>2, <2>2 DEF FillsTo, KeepsAnalysis, KeepsRepair, KeepsShown
    <2>4. FillEnds(t, run, page.setup.tools, TRUE, Owed(page, L))
      <3>1. Shown(t) = Shown(s)
        BY <2>3 DEF Shown, KeepsShown
      <3> QED BY <1>6, <2>2, <3>1 DEF FillEnds, FillsTo
    <2>5. /\ Holding(v, run, TRUE, FALSE, L) /\ SameBut(page, v, {"store"})
          /\ KeepsShown(s, v.store)
      BY <1>1, <1>2, <1>4, <2>3, <2>4
    <2> HIDE DEF v
    <2>6. CancelsFill(v) = CancelsFill(page)
      BY <2>5 DEF CancelsFill, SameBut, PageFields
    <2>7. /\ Holding(w, run, TRUE, FALSE, L)
          /\ SameBut(v, w, {"out", "stop", "fillRun", "fillSession"})
          /\ w.fillRun = IF CancelsFill(v) THEN 0 ELSE v.fillRun
      BY <2>5, SessionCancelled
    <2> HIDE DEF w
    <2>8. /\ w.startedFor = page.startedFor /\ KeepsShown(s, w.store)
          /\ w.fillRun = IF CancelsFill(page) THEN 0 ELSE page.fillRun
      BY <2>5, <2>6, <2>7 DEF SameBut, PageFields
    <2> QED BY <1>5, <2>1, <2>7, <2>8
  <1>9. CASE DiscardsFill
    <2> DEFINE u == CancelFillSession(page)
               t == ClearHoleFillCandidate(s)
               v == [u EXCEPT !.store = t]
               id == h.candidate.id
               w == ReleaseFillCandidate(v, id)
    <2>1. /\ Holding(u, run, TRUE, FALSE, L)
          /\ SameBut(page, u, {"out", "stop", "fillRun", "fillSession"})
          /\ u.fillRun = IF CancelsFill(page) THEN 0 ELSE page.fillRun
      BY <1>1, SessionCancelled
    <2> HIDE DEF u
    <2>2. /\ u.store = s /\ DOMAIN u = PageFields /\ u.setup = page.setup
          /\ u.startedFor = page.startedFor
      BY <2>1 DEF SameBut, PageFields
    <2>3. PageBecomes(ThenRejected(page, w), toPage) /\ h.workState = "ready"
      BY <1>9, <2>2 DEF DiscardsFill, UserDoes, u
    <2>4. FillsTo(s, t, 0, h.inventory, "idle", h.commitState)
      <3>1. \A x : x = ClearHoleFillCandidate(s) =>
              IF h.workState = "idle" THEN x = s
              ELSE FillsTo(s, x, 0, h.inventory, "idle", h.commitState)
        BY <1>2, FillFrame
      <3> QED BY <2>3, <3>1
    <2> HIDE DEF t
    <2>5. FormedStore(t) /\ KeepsAnalysis(s, t) /\ KeepsRepair(s, t) /\ KeepsShown(s, t)
      BY <2>4 DEF FillsTo
    <2>6. FillEnds(t, run, page.setup.tools, TRUE, Owed(u, L))
      <3>1. FillEnds(s, run, page.setup.tools, TRUE, Owed(u, L))
        BY <1>6, <2>1, <2>2
      <3>2. h.inventory = "ready"
        BY <2>3, <3>1 DEF FillEnds
      <3> QED BY <2>4, <3>1, <3>2 DEF FillEnds, FillsTo
    <2>7. Holding(v, run, TRUE, FALSE, L) /\ SameBut(u, v, {"store"}) /\ KeepsShown(s, v.store)
      BY <1>4, <2>1, <2>2, <2>5, <2>6
    <2> HIDE DEF v, id
    <2>8. Holding(w, run, TRUE, FALSE, L) /\ SameBut(v, w, {"out", "fillLive"})
      BY <2>7, FillReleased
    <2> HIDE DEF w
    <2>9. /\ w.startedFor = page.startedFor /\ KeepsShown(s, w.store)
          /\ w.fillRun = IF CancelsFill(page) THEN 0 ELSE page.fillRun
      BY <2>1, <2>2, <2>7, <2>8 DEF SameBut, PageFields
    <2> QED BY <1>5, <2>3, <2>8, <2>9
  <1> QED BY <1>7, <1>8, <1>9

LEMMA FillPreviewEnds ==
    ASSUME NEW L, OnPage(L), HandledInv, FillInv, Bounded, L \subseteq UnderWay, PreviewsFill
    PROVE  \E p : PageBecomes(p, toPage) /\ Ends(p, L)
  <1> DEFINE run == page.fillRun
             u == ReleaseFillCandidate(page, page.fillLive)
             token == Fresh(u, "fill")
             d == DisposeFill(u)
             t == BeginHoleFillCandidate(d.store, token)
             v == [d EXCEPT !.store = t, !.fillActive = token, !.fillRun = token,
                            !.fillSession = token]
             r == Request("fill", token, Model(page), page.store.holeFill.selected, 0)
             w == Post(v, r)
             q == IF run = 0 THEN w ELSE FillRejected(w, run)
             h == page.store.holeFill
             S == Owed(d, L)
             Z == OwedWith(d, L, r)
             kinds == {"fill"}
  <1>1. Holding(page, run, TRUE, FALSE, L) /\ Settled(page)
    BY DEF OnPage
  <1>2. /\ PageBecomes(q, toPage) /\ h.inventory = "ready" /\ h.commitState = "idle"
    <2>1. h.rows # Nothing => h.inventory = "ready"
      BY DEF HandledInv, PageInv, StoreInv, HoleFillOf
    <2> HIDE DEF u
    <2> QED BY <2>1 DEF PreviewsFill, UserDoes, u
  <1>3. /\ Holding(u, run, TRUE, FALSE, L) /\ SameBut(page, u, {"out", "fillLive"})
        /\ u.fillLive = 0
        /\ PostsOnly(page, u, "discardFill")
    <2> DEFINE id == page.fillLive
    <2>1. u = ReleaseFillCandidate(page, id)
      OBVIOUS
    <2>2. page.fillLive = id
      OBVIOUS
    <2> HIDE DEF id, u, run
    <2>3. Holding(u, run, TRUE, FALSE, L)
      BY <1>1, <2>1, FillReleased, Zenon
    <2>4. SameBut(page, u, {"out", "fillLive"})
      BY <1>1, <2>1, FillReleased, Zenon
    <2>5. PostsOnly(page, u, "discardFill")
      BY <1>1, <2>1, FillReleased, Zenon
    <2>6. page.fillLive = id => u.fillLive = 0
      <3>1. DOMAIN page = PageFields
        BY <1>1 DEF Holding, Ready, Formed
      <3> QED BY <2>1, <3>1 DEF ReleaseFillCandidate, Post, PageFields
    <2> QED BY <2>2, <2>3, <2>4, <2>5, <2>6
  <1> HIDE DEF u
  <1>4. /\ DOMAIN u = PageFields /\ u.store = page.store /\ u.setup = page.setup
        /\ u.startedFor = page.startedFor /\ u.fillRun = run
    BY <1>3 DEF SameBut, PageFields
  <1>5. /\ token # 0 /\ token # run /\ token # resident.fillCandidate.id
        /\ \A x \in UnderWay : x.kind = "fill" => x.token # token
    <2>1. \A x : x.kind = "fill" => Stream(x.kind) = "fill"
      BY DEF Stream
    <2>2. resident.fillCandidate.id \in Numbers(u, "fill") /\ run \in Numbers(u, "fill")
      BY <1>4 DEF Numbers
    <2>3. /\ token # 0 /\ token \notin Numbers(u, "fill")
          /\ \A x \in UnderWay \cup Range(u.out) : Stream(x.kind) = "fill" => x.token # token
      <3> HIDE DEF run
      <3> QED BY <1>3, NewToken
    <2> HIDE DEF token, run
    <2> QED BY <2>1, <2>2, <2>3
  <1> HIDE DEF token
  <1>6. /\ Holding(d, run, TRUE, FALSE, L) /\ SameBut(u, d, {"out", "stop", "fillRun"})
        /\ d.fillRun = 0
        /\ PostsOnly(u, d, "cancelFill")
    <2>1. d = DisposeFill(u)
      OBVIOUS
    <2> HIDE DEF run, d
    <2> QED BY <1>3, <2>1, FillDisposed, Zenon
  <1> HIDE DEF d
  <1>7. /\ DOMAIN d = PageFields /\ d.store = page.store /\ d.setup = page.setup
        /\ d.startedFor = page.startedFor /\ d.fillLive = 0
        /\ FormedStore(d.store) /\ IsFiniteSet(d.stop)
    BY <1>3, <1>4, <1>6 DEF SameBut, PageFields, Holding, Ready, Formed
  <1>8. \A x \in Range(d.out) : x.kind # "fill"
    <2>1. Range(page.out) = {}
      BY DEF HandledInv, Range
    <2> QED BY <1>3, <1>6, <2>1 DEF PostsOnly
  <1>9. /\ FillsTo(d.store, t, token, "ready", "generating", "idle")
        /\ t.holeFill.selected = h.selected
    <2>1. \A x : x = BeginHoleFillCandidate(d.store, token) =>
            /\ FillsTo(d.store, x, token, h.inventory, "generating", h.commitState)
            /\ x.holeFill.selected = h.selected
      BY <1>7, FillFrame
    <2> QED BY <1>2, <2>1
  <1>10. /\ r.kind = "fill" /\ r.token = token /\ r.subject = Shown(page.store)
         /\ r.opening = h.selected
    BY DEF Request, Model
  <1>11. FillEnds(t, token, d.setup.tools, TRUE, Z)
    <2>1. FillEnds(d.store, run, d.setup.tools, TRUE, S)
      BY <1>6 DEF Holding, Works
    <2>2. "fill" \in d.setup.tools
      BY <1>2, <1>7, <2>1 DEF FillEnds
    <2>3. Pending("fill", token, Z)
      BY <1>5, <1>10 DEF Pending, OwedWith
    <2>4. \A x \in Z : x.kind = "fill" /\ x.token = token => x = r
      BY <1>5, <1>8 DEF OwedWith, Owed
    <2>5. Shown(t) = Shown(page.store)
      BY <1>7, <1>9 DEF FillsTo, KeepsShown, Shown
    <2> HIDE DEF S, Z, t, r
    <2> QED BY <1>5, <1>9, <1>10, <2>2, <2>3, <2>4, <2>5 DEF FillEnds, FillsTo
  <1>12. FillFate(0, token, d.stop, Z)
    <2>1. FillFate(0, 0, d.stop, S)
      BY <1>6, <1>7 DEF Holding, Works
    <2>2. \A kind, number : Pending(kind, number, S) => Pending(kind, number, Z)
      BY DEF Pending, OwedWith
    <2>3. S \subseteq Z
      BY DEF OwedWith
    <2>4. \A x \in S : x.kind = "fill" => x.token # 0
      BY <1>8 DEF Owed, FillInv, FillsOf, AskedBefore, IsFill
    <2>5. \A x \in Z : x.kind = "fill" /\ x.token # token => x \in S
      BY <1>10 DEF OwedWith
    <2> HIDE DEF S, Z, r
    <2> QED BY <2>1, <2>2, <2>3, <2>4, <2>5 DEF FillFate
  <1> HIDE DEF t, r
  <1>13. /\ SameBut(d, v, {"store", "fillActive", "fillRun", "fillSession"}) /\ v.store = t
         /\ v.stop = d.stop /\ v.edit = d.edit /\ v.setup = d.setup /\ v.fillLive = 0
         /\ v.repairLive = d.repairLive /\ v.fillRun = token
    BY <1>7 DEF SameBut, PageFields
  <1> HIDE DEF v
  <1>14. Sliced(d, v, kinds, Z, run, TRUE, FALSE, token, TRUE, FALSE)
    <2> HIDE DEF Z, run
    <2> QED BY <1>9, <1>11, <1>12, <1>13 DEF Sliced, FillsTo
  <1>15. Holding(w, token, TRUE, FALSE, L) /\ SameBut(v, w, {"out"})
    <2>1. Prepares(d, v)
      BY <1>7, <1>9, <1>13 DEF Prepares, SameBut, Memory, FillsTo
    <2>2. NewJob(d, r)
      BY <1>5, <1>8, <1>10 DEF IsJob, NewJob, SameJob, MadeBy
    <2>3. r.kind \in kinds
      BY <1>10
    <2> HIDE DEF kinds, run
    <2> QED BY <1>6, <1>14, <2>1, <2>2, <2>3, StoredAndPosted
  <1> HIDE DEF w
  <1>16. /\ w.store = t /\ w.fillRun = token /\ w.startedFor = page.startedFor
         /\ DOMAIN w = PageFields
    BY <1>7, <1>13, <1>15 DEF SameBut, PageFields
  <1>17. /\ Holding(q, q.fillRun, TRUE, FALSE, L) /\ q.store = t
         /\ q.startedFor = page.startedFor
    <2>1. CASE run = 0
      BY <1>15, <1>16, <2>1
    <2>2. CASE run # 0
      <3>1. EndHoleFillCandidate(w.store, run, "cancelled") = w.store
        BY <1>5, <1>9, <1>16 DEF EndHoleFillCandidate, IsCurrentHoleFill, FillsTo
      <3>2. q = [w EXCEPT !.store = w.store, !.fillSession = 0, !.fillActive = 0]
        BY <2>2, <3>1 DEF FillRejected
      <3> HIDE DEF q
      <3>3. SameBut(w, q, Memory) /\ q.startedFor = w.startedFor
        BY <1>16, <3>2 DEF SameBut, PageFields, Memory
      <3>4. Holding(w, w.fillRun, TRUE, FALSE, L)
        BY <1>15, <1>16
      <3> QED BY <1>16, <3>3, <3>4, Remembered
    <2> QED BY <2>1, <2>2
  <1>18. KeepsShown(page.store, t)
    BY <1>7, <1>9 DEF FillsTo
  <1> HIDE DEF q, t
  <1> QED BY <1>1, <1>2, <1>17, <1>18, HandlerLeaves

LEMMA FillChangesEnd ==
    ASSUME NEW L, OnPage(L), AppliesFill \/ UndoesFill
    PROVE  \E p : PageBecomes(p, toPage) /\ Ends(p, L)
  <1> DEFINE run == page.fillRun
             s == page.store
             kinds == {"commitFill", "undoFill"}
  <1>1. Holding(page, run, TRUE, FALSE, L) /\ Settled(page)
    BY DEF OnPage
  <1>2. DOMAIN page = PageFields /\ FormedStore(s)
    BY <1>1 DEF Holding, Ready, Formed
  <1>3. ASSUME NEW r, r.kind \in kinds, NEW state,
               PageBecomes(Post([page EXCEPT !.store = BeginHoleFillChange(@, state)], r), toPage)
        PROVE  \E p : PageBecomes(p, toPage) /\ Ends(p, L)
    <2> DEFINE u == Post(page, r)
               t == BeginHoleFillChange(s, state)
               q == [u EXCEPT !.store = t]
    <2>1. PageBecomes(q, toPage)
      <3>1. q = Post([page EXCEPT !.store = BeginHoleFillChange(@, state)], r)
        BY <1>2 DEF Post, PageFields
      <3> QED BY <1>3, <3>1
    <2>2. /\ Holding(u, run, TRUE, FALSE, L) /\ SameBut(page, u, {"out"})
          /\ Range(u.out) = Range(page.out) \cup {r}
      <3>1. r.kind \notin Asking
        BY <1>3 DEF Asking
      <3> HIDE DEF run
      <3> QED BY <1>1, <3>1, QuietlyPosted
    <2>3. Claims(kinds, Owed(u, L))
      BY <1>3, <2>2 DEF Claims, Owed
    <2>4. /\ FillsTo(s, t, s.holeFillToken, s.holeFill.inventory, s.holeFill.workState, state)
          /\ t.holeFill.selected = s.holeFill.selected
      BY <1>2, FillFrame
    <2> HIDE DEF u, t
    <2>5. /\ u.store = s /\ u.setup = page.setup /\ u.startedFor = page.startedFor
          /\ u.fillRun = run /\ DOMAIN u = PageFields
      BY <2>2 DEF SameBut, PageFields
    <2>6. /\ SameBut(u, q, Memory \cup {"store"}) /\ q.store = t
          /\ q.startedFor = page.startedFor /\ q.fillRun = run
      BY <2>5 DEF SameBut, PageFields, Memory
    <2> HIDE DEF q
    <2>7. FillEnds(t, run, u.setup.tools, TRUE, Owed(u, L))
      <3>1. FillEnds(s, run, u.setup.tools, TRUE, Owed(u, L))
        BY <2>2, <2>5 DEF Holding, Works
      <3>2. Shown(t) = Shown(s)
        BY <2>4 DEF FillsTo, KeepsShown, Shown
      <3> QED BY <2>3, <2>4, <3>1, <3>2 DEF FillEnds, FillsTo
    <2>8. Holding(q, run, TRUE, FALSE, L)
      <3> HIDE DEF run, s
      <3> QED BY <2>2, <2>4, <2>5, <2>6, <2>7, FillStored DEF FillsTo
    <2>9. KeepsShown(s, q.store)
      BY <2>4, <2>6 DEF FillsTo
    <2> QED BY <1>1, <2>1, <2>6, <2>8, <2>9, HandlerLeaves
  <1>4. CASE AppliesFill
    <2> DEFINE c == s.holeFill.candidate
               r == Request("commitFill", 0, c.subject, c.opening, c.id)
    <2>1. r.kind \in kinds
      BY DEF Request
    <2>2. PageBecomes(Post([page EXCEPT !.store = BeginHoleFillChange(@, "applying")], r), toPage)
      BY <1>4 DEF AppliesFill, UserDoes
    <2> QED BY <1>3, <2>1, <2>2
  <1>5. CASE UndoesFill
    <2> DEFINE r == Request("undoFill", 0, Model(page), 0, s.holeFill.lastApplied)
    <2>1. r.kind \in kinds
      BY DEF Request
    <2>2. PageBecomes(Post([page EXCEPT !.store = BeginHoleFillChange(@, "undoing")], r), toPage)
      BY <1>5 DEF UndoesFill, UserDoes
    <2> QED BY <1>3, <2>1, <2>2
  <1> QED BY <1>4, <1>5

LEMMA TextureActionsEnd ==
    ASSUME NEW L, OnPage(L), AppliesTexture \/ UndoesTexture
    PROVE  \E p : PageBecomes(p, toPage) /\ Ends(p, L)
  <1> DEFINE run == page.fillRun
  <1>1. Holding(page, run, TRUE, FALSE, L) /\ Settled(page)
    BY DEF OnPage
  <1>2. DOMAIN page = PageFields /\ DOMAIN page.edit = {"applying", "record", "revision"}
        /\ FormedStore(page.store)
    BY <1>1 DEF Holding, Ready, Formed
  <1>4. CASE AppliesTexture
    <2> DEFINE r == Request("commitEdit", 0, Model(page), 0, 0)
               u == Post(page, r)
               e == [page.edit EXCEPT !.applying = TRUE]
               q == [u EXCEPT !.edit = e]
               S == Owed(u, L)
    <2>1. r.kind = "commitEdit"
      BY DEF Request
    <2>2. PageBecomes(q, toPage)
      <3>1. q = Post([page EXCEPT !.edit.applying = TRUE], r)
        BY <1>2 DEF Post, PageFields
      <3> QED BY <1>4, <3>1 DEF AppliesTexture, UserDoes
    <2>3. /\ Holding(u, run, TRUE, FALSE, L) /\ SameBut(page, u, {"out"})
          /\ Range(u.out) = Range(page.out) \cup {r}
      <3>1. u = Post(page, r)
        OBVIOUS
      <3>2. r.kind \notin Asking
        BY <2>1 DEF Asking
      <3> HIDE DEF run, u, r
      <3> QED BY <1>1, <3>1, <3>2, QuietlyPosted
    <2>4. DOMAIN e = DOMAIN page.edit
      OBVIOUS
    <2>5. TextureEnds(e, S)
      BY <2>1, <2>3 DEF TextureEnds, Claims, Owed
    <2> HIDE DEF r, u, e
    <2>6. /\ SameBut(u, q, {"edit"}) /\ q.edit = e /\ u.edit = page.edit
          /\ u.store = page.store /\ q.store = u.store /\ q.startedFor = page.startedFor
          /\ q.fillRun = run /\ q.setup = u.setup /\ q.stop = u.stop
          /\ q.repairLive = u.repairLive /\ q.fillLive = u.fillLive /\ q.fillRun = u.fillRun
      BY <2>3 DEF SameBut, PageFields
    <2> HIDE DEF q
    <2>7. /\ KeepsAnalysis(u.store, q.store) /\ KeepsRepair(u.store, q.store)
          /\ KeepsHoleFill(u.store, q.store) /\ KeepsShown(u.store, q.store)
      BY <2>6 DEF KeepsAnalysis, KeepsRepair, KeepsHoleFill, KeepsShown
    <2>8. Sliced(u, q, {}, S, run, TRUE, FALSE, run, TRUE, FALSE)
      <3> HIDE DEF run, S
      <3> QED BY <2>5, <2>6, <2>7 DEF Sliced
    <2>9. Holding(q, run, TRUE, FALSE, L)
      <3>1. Alike(L, L, {})
        BY AlikeWith
      <3>2. SameBut(u, q, Inner)
        BY <2>6 DEF Inner, SameBut
      <3>3. FormedStore(q.store) /\ DOMAIN q.edit = DOMAIN u.edit
        BY <1>2, <2>4, <2>6
      <3> HIDE DEF run
      <3> QED BY <2>3, <2>8, <3>1, <3>2, <3>3, Stored
    <2>10. KeepsShown(page.store, q.store)
      BY <2>6 DEF KeepsShown
    <2> QED BY <1>1, <2>2, <2>6, <2>9, <2>10, HandlerLeaves
  <1>5. CASE UndoesTexture
    <2> DEFINE r == Request("undoEdit", 0, Model(page), 0, page.edit.record)
               u == Post(page, r)
    <2>1. r.kind \in {"commitEdit", "undoEdit"}
      BY DEF Request
    <2>2. PageBecomes(u, toPage)
      BY <1>5 DEF UndoesTexture, UserDoes
    <2>3. Holding(u, run, TRUE, FALSE, L) /\ SameBut(page, u, {"out"})
      <3>1. u = Post(page, r)
        OBVIOUS
      <3>2. r.kind \notin Asking
        BY <2>1 DEF Asking
      <3> HIDE DEF run, u, r
      <3> QED BY <1>1, <3>1, <3>2, QuietlyPosted
    <2> HIDE DEF u
    <2>4. /\ u.store = page.store /\ u.startedFor = page.startedFor /\ u.fillRun = run
      BY <2>3 DEF SameBut, PageFields
    <2>5. KeepsShown(page.store, u.store)
      BY <2>4 DEF KeepsShown
    <2> QED BY <1>1, <2>2, <2>3, <2>4, <2>5, HandlerLeaves
  <1> QED BY <1>4, <1>5

LEMMA UserEnds ==
    ASSUME HandledInv, FillInv, OnPage(UnderWay), Bounded, UserActs
    PROVE  \E p : PageBecomes(p, toPage) /\ Ends(p, UnderWay)
  <1> DEFINE L == UnderWay
  <1>1. OnPage(L) /\ L \subseteq UnderWay
    OBVIOUS
  <1> HIDE DEF L
  <1> SUFFICES \E p : PageBecomes(p, toPage) /\ Ends(p, L)
    BY DEF L
  <1> QED BY <1>1, AnalysisActionsEnd, SelectsPartEnds, SelectionEnds, RepairPreviewEnds,
        RepairActionsEnd, FillSelectionsEnd, FillPreviewEnds, FillChangesEnd,
        TextureActionsEnd DEF UserActs
-----------------------------------------------------------------------------
(* What the page hears. L are the requests that stay under way.             *)

Left == Range(toWorker) \cup serving \cup {a.request : a \in Range(Tail(toPage))}

Answering(L) ==
    /\ OnPage(UnderWay) /\ page.out = <<>>
    /\ Answered \in UnderWay /\ L \subseteq UnderWay /\ UnderWay \subseteq L \cup {Answered}

LEMMA AnswerTaken ==
    ASSUME HandledInv, Works(page, page.fillRun, Settled(page), FALSE, UnderWay), toPage # <<>>
    PROVE  Answering(Left)
  <1>1. /\ toPage \in Seq(AnswersOf) /\ Head(toPage) = toPage[1]
        /\ Answered = toPage[1].request /\ Answered \in UnderWay
    BY FirstAnswer
  <1>2. /\ \A i \in 1 .. Len(Tail(toPage)) :
             i + 1 \in 1 .. Len(toPage) /\ Tail(toPage)[i] = toPage[i + 1]
        /\ \A j \in 1 .. Len(toPage) : j # 1 => \E i \in 1 .. Len(Tail(toPage)) : j = i + 1
    BY <1>1, AnswersLeft
  <1>3. /\ DOMAIN Tail(toPage) = 1 .. Len(Tail(toPage)) /\ DOMAIN toPage = 1 .. Len(toPage)
    <2> HIDE DEF AnswersOf
    <2> QED BY <1>1
  <1>4. Range(Tail(toPage)) \subseteq Range(toPage)
    <2> DEFINE B == Tail(toPage)
    <2> SUFFICES ASSUME NEW i \in DOMAIN B PROVE B[i] \in Range(toPage)
      BY DEF Range
    <2>1. i + 1 \in DOMAIN toPage /\ B[i] = toPage[i + 1]
      BY <1>2, <1>3
    <2> HIDE DEF B
    <2> QED BY <2>1 DEF Range
  <1>5. Range(toPage) \subseteq Range(Tail(toPage)) \cup {toPage[1]}
    <2> DEFINE B == Tail(toPage)
    <2> SUFFICES ASSUME NEW j \in DOMAIN toPage PROVE toPage[j] \in Range(B) \cup {toPage[1]}
      BY DEF Range
    <2>1. CASE j # 1
      <3>1. PICK i \in 1 .. Len(B) : j = i + 1
        BY <1>2, <1>3, <2>1
      <3>2. B[i] = toPage[j] /\ i \in DOMAIN B
        BY <1>2, <1>3, <3>1
      <3> HIDE DEF B
      <3> QED BY <3>2 DEF Range
    <2> QED BY <2>1
  <1>6. Left \subseteq UnderWay /\ UnderWay \subseteq Left \cup {Answered}
    BY <1>1, <1>4, <1>5 DEF Left, UnderWay
  <1>7. Settled(page) = TRUE
    BY <1>1 DEF HandledInv, ChannelInv, Settled
  <1>8. Works(page, page.fillRun, TRUE, FALSE, UnderWay)
    BY <1>7
  <1>9. Holding(page, page.fillRun, TRUE, FALSE, UnderWay)
    BY <1>8, PageHolds
  <1> QED BY <1>1, <1>6, <1>7, <1>9 DEF Answering, OnPage, HandledInv

(* What the answer r ends, it ends alone.                                   *)
LEMMA Shrunk ==
    ASSUME NEW S, NEW L, L \subseteq S, NEW r, S \subseteq L \cup {r}
    PROVE  /\ Alike(S, L, {r.kind})
           /\ \A kind, token : Pending(kind, token, S) /\ (r.kind # kind \/ r.token # token)
                => Pending(kind, token, L)
           /\ \A kinds : r.kind \notin kinds /\ Claims(kinds, S) => Claims(kinds, L)
           /\ \A kinds : Claims(kinds, L) => Claims(kinds, S)
  BY DEF Alike, Pending, Claims

LEMMA OnThePage ==
    ASSUME NEW L, Answering(L)
    PROVE  /\ DOMAIN page = PageFields /\ FormedStore(page.store)
           /\ Works(page, page.fillRun, TRUE, FALSE, UnderWay)
           /\ Holding(page, page.fillRun, TRUE, FALSE, UnderWay) /\ Settled(page)
           /\ Owed(page, L) = L
  <1>1. \A S : Owed(page, S) = S
    BY DEF Owed, Range, Answering
  <1> QED BY <1>1 DEF Answering, OnPage, Holding, Ready, Formed

LEMMA AnswerStored ==
    ASSUME NEW L, Answering(L), NEW q, SameBut(page, q, Inner),
           FormedStore(q.store), DOMAIN q.edit = DOMAIN page.edit, NEW now, NEW shown,
           Sliced(page, q, {Answered.kind}, L, page.fillRun, TRUE, FALSE, now, shown, FALSE)
    PROVE  Holding(q, now, shown, FALSE, L) /\ q.out = <<>>
  <1> DEFINE S == UnderWay
             run == page.fillRun
             kinds == {Answered.kind}
             yes == TRUE
             no == FALSE
  <1>1. Alike(S, L, kinds)
    <2> HIDE DEF S
    <2> QED BY Shrunk DEF Answering, S
  <1>2. Owed(page, L) = L
    BY DEF Owed, Range, Answering
  <1>3. Holding(page, run, yes, no, S)
    BY DEF Answering, OnPage
  <1>4. Sliced(page, q, kinds, Owed(page, L), run, yes, no, now, shown, no)
    BY <1>2
  <1>5. page.out = <<>>
    BY DEF Answering
  <1> HIDE DEF S, run, kinds, yes, no
  <1>6. Holding(q, now, shown, no, L) /\ q.out = page.out
    BY <1>1, <1>3, <1>4, Stored
  <1> QED BY <1>5, <1>6 DEF no

LEMMA AnswerEnds ==
    ASSUME NEW L, Answering(L), NEW q, SameBut(page, q, Inner),
           FormedStore(q.store), DOMAIN q.edit = DOMAIN page.edit,
           KeepsShown(page.store, q.store), q.startedFor = page.startedFor,
           Sliced(page, q, {Answered.kind}, L, page.fillRun, TRUE, FALSE, q.fillRun, TRUE, FALSE)
    PROVE  Ends(q, L)
  <1> DEFINE now == q.fillRun
  <1>1. Holding(q, now, TRUE, FALSE, L)
    <2>1. Sliced(page, q, {Answered.kind}, L, page.fillRun, TRUE, FALSE, now, TRUE, FALSE)
      OBVIOUS
    <2> HIDE DEF now
    <2> QED BY <2>1, AnswerStored
  <1>2. Settled(page)
    BY DEF Answering, OnPage
  <1> QED BY <1>1, <1>2, HandlerLeaves

LEMMA AnalysisAnswersEnd ==
    ASSUME NEW L, Answering(L), ReceivesAnalysis
    PROVE  \E p : PageReceives(p) /\ Ends(p, L)
  <1> DEFINE s == page.store
             r == Answered
             o == [page EXCEPT !.analysisSession = 0]
  <1>1. PICK t \in {CommitAnalysis(s, r.token, r.subject), FailAnalysis(s, r.token),
                    CancelAnalysis(s, r.token)} :
          PageReceives([o EXCEPT !.store = t]) /\ r.kind = "analyze"
    <2>1. o.store = s
      OBVIOUS
    <2> HIDE DEF PageReceives, o, r, s
    <2>2. [o EXCEPT !.store = CommitAnalysis(@, r.token, r.subject)]
            = [o EXCEPT !.store = CommitAnalysis(s, r.token, r.subject)]
          /\ [o EXCEPT !.store = FailAnalysis(@, r.token)]
               = [o EXCEPT !.store = FailAnalysis(s, r.token)]
          /\ [o EXCEPT !.store = CancelAnalysis(@, r.token)]
               = [o EXCEPT !.store = CancelAnalysis(s, r.token)]
      BY <2>1
    <2> QED BY <2>2 DEF ReceivesAnalysis, Receives, r, o
  <1> DEFINE q == [o EXCEPT !.store = t]
  <1>2. /\ DOMAIN page = PageFields /\ FormedStore(s) /\ AnalysisEnds(s, UnderWay)
    BY OnThePage DEF Works
  <1>3. FormedStore(t) /\ KeepsRepair(s, t) /\ KeepsHoleFill(s, t) /\ KeepsShown(s, t)
    BY <1>2, AnalysisFrame
  <1>4. AnalysisEnds(t, L)
    <2>1. r.token = s.analysisToken /\ r.token # 0 => r.subject = Shown(s)
      BY <1>1, <1>2 DEF AnalysisEnds, Answering
    <2>2. \/ t = s /\ (r.token = 0 \/ r.token # s.analysisToken)
          \/ t.analysisToken = 0 /\ t.analysis.state # "analyzing"
      <3> HIDE DEF r
      <3> USE DEF FormedStore, ShapedStore, StoreFields, IsCurrentAnalysis
      <3>1. CASE t = CommitAnalysis(s, r.token, r.subject)
        BY <1>2, <2>1, <3>1 DEF CommitAnalysis
      <3>2. CASE t = FailAnalysis(s, r.token)
        BY <1>2, <3>2 DEF FailAnalysis
      <3>3. CASE t = CancelAnalysis(s, r.token)
        BY <1>2, <3>3 DEF CancelAnalysis
      <3> QED BY <1>1, <3>1, <3>2, <3>3 DEF r
    <2>3. \A token : Pending("analyze", token, UnderWay) /\ token # r.token
            => Pending("analyze", token, L)
      BY DEF Pending, Answering
    <2>4. CASE t = s /\ (r.token = 0 \/ r.token # s.analysisToken)
      BY <1>2, <2>3, <2>4 DEF AnalysisEnds, Answering, Pending
    <2>5. CASE t.analysisToken = 0 /\ t.analysis.state # "analyzing"
      BY <2>5 DEF AnalysisEnds
    <2> QED BY <2>2, <2>4, <2>5
  <1>5. /\ SameBut(page, q, {"store", "analysisSession"}) /\ q.store = t
        /\ q.startedFor = page.startedFor /\ q.edit = page.edit /\ q.setup = page.setup
        /\ q.repairLive = page.repairLive /\ q.fillLive = page.fillLive
        /\ q.fillRun = page.fillRun /\ q.stop = page.stop
    BY <1>2 DEF SameBut, PageFields
  <1> HIDE DEF q
  <1>6. Sliced(page, q, {r.kind}, L, page.fillRun, TRUE, FALSE, q.fillRun, TRUE, FALSE)
    BY <1>1, <1>3, <1>4, <1>5 DEF Sliced
  <1>7. SameBut(page, q, Inner)
    BY <1>5 DEF SameBut, Memory, Inner
  <1>8. Ends(q, L)
    BY <1>3, <1>5, <1>6, <1>7, AnswerEnds
  <1> QED BY <1>1, <1>8 DEF q

LEMMA PlanAnswersEnd ==
    ASSUME NEW L, Answering(L), HandledInv, ReceivesPlan
    PROVE  \E p : PageReceives(p) /\ Ends(p, L)
  <1> DEFINE s == page.store
             r == Answered
             o == [page EXCEPT !.repairSession = 0]
             live == page.repairLive
             tools == page.setup.tools
  <1>1. PICK t \in {CommitRepairPlan(s, r.token, r.subject), FailRepairPlan(s, r.token)} :
          PageReceives([o EXCEPT !.store = t]) /\ r.kind = "plan"
    <2>1. o.store = s
      OBVIOUS
    <2> HIDE DEF PageReceives, o, r, s
    <2>2. [o EXCEPT !.store = CommitRepairPlan(@, r.token, r.subject)]
            = [o EXCEPT !.store = CommitRepairPlan(s, r.token, r.subject)]
          /\ [o EXCEPT !.store = FailRepairPlan(@, r.token)]
               = [o EXCEPT !.store = FailRepairPlan(s, r.token)]
      BY <2>1
    <2> QED BY <2>2 DEF ReceivesPlan, Receives, r, o
  <1> DEFINE q == [o EXCEPT !.store = t]
  <1>2. /\ DOMAIN page = PageFields /\ FormedStore(s)
        /\ PlanEnds(s, UnderWay) /\ RepairEnds(s, live, tools, UnderWay)
    BY OnThePage DEF Works
  <1>3. r \in UnderWay /\ L \subseteq UnderWay /\ UnderWay \subseteq L \cup {r}
    BY DEF Answering
  <1>4. IsCurrentRepair(s, r.token) => r.subject.revision = s.revision
    BY <1>1, <1>3, RequestsUnderWay DEF RequestOf, IsCurrentRepair, Model, Shown, Subject
  <1>5. /\ KeepsBesideRepair(s, t)
        /\ t.repair.candidateState = s.repair.candidateState
        /\ t.repair.commitState = s.repair.commitState
        /\ \/ t = s /\ ~IsCurrentRepair(s, r.token)
           \/ /\ IsCurrentRepair(s, r.token) /\ t.repairToken \in {0, s.repairToken}
              /\ t.repair.planState # "planning"
    <2> DEFINE token == r.token
               subject == r.subject
    <2> HIDE DEF token, subject, s
    <2>1. CASE t = CommitRepairPlan(s, token, subject)
      BY <1>2, <1>4, <2>1, PlanFrame DEF token, subject
    <2>2. CASE t = FailRepairPlan(s, token)
      BY <1>2, <2>2, PlanFrame DEF token
    <2> QED BY <1>1, <2>1, <2>2 DEF token, subject
  <1> HIDE DEF s, r, live, tools
  <1>6. /\ \A kind, token : Pending(kind, token, UnderWay) /\ (r.kind # kind \/ r.token # token)
             => Pending(kind, token, L)
        /\ \A kinds : r.kind \notin kinds /\ Claims(kinds, UnderWay) => Claims(kinds, L)
        /\ Claims({"plan"}, UnderWay)
    BY <1>1, <1>3 DEF Pending, Claims
  <1>7. PlanEnds(t, L)
    BY <1>2, <1>5, <1>6 DEF PlanEnds, Pending, IsCurrentRepair
  <1>8. RepairEnds(t, live, tools, L)
    <2>1. t.repair.candidateState \in {"building", "cancelling"} =>
            t = s /\ Pending("build", t.repairToken, L)
            /\ \A x \in L : x.kind = "plan" => x.token # t.repairToken
      BY <1>1, <1>2, <1>3, <1>5, <1>6 DEF RepairEnds, IsCurrentRepair
    <2>2. "repair" \in tools
      BY <1>2, <1>6 DEF RepairEnds
    <2>3. t.repair.commitState # "idle" => Claims({"commitRepair", "undoRepair"}, L)
      BY <1>1, <1>2, <1>5, <1>6 DEF RepairEnds
    <2>4. \A x \in L : x.kind = "build" /\ x.token = t.repairToken /\ x.token # 0
            => live \in {0, x.token}
      BY <1>2, <1>3, <1>5 DEF RepairEnds
    <2> QED BY <2>1, <2>2, <2>3, <2>4 DEF RepairEnds
  <1>9. /\ SameBut(page, q, {"store", "repairSession"}) /\ q.store = t
        /\ q.startedFor = page.startedFor /\ q.edit = page.edit /\ q.setup = page.setup
        /\ q.repairLive = page.repairLive /\ q.fillLive = page.fillLive
        /\ q.fillRun = page.fillRun /\ q.stop = page.stop
    BY <1>2 DEF SameBut, PageFields
  <1> HIDE DEF q
  <1>10. Sliced(page, q, {r.kind}, L, page.fillRun, TRUE, FALSE, q.fillRun, TRUE, FALSE)
    BY <1>1, <1>5, <1>7, <1>8, <1>9 DEF Sliced, KeepsBesideRepair, s, live, tools
  <1>11. SameBut(page, q, Inner)
    BY <1>9 DEF SameBut, Memory, Inner
  <1>12. Ends(q, L)
    BY <1>5, <1>9, <1>10, <1>11, AnswerEnds DEF KeepsBesideRepair, s, r
  <1> QED BY <1>1, <1>12 DEF q

(* The handler also posts x, which nothing waits for.                       *)
LEMMA AnswerPosted ==
    ASSUME NEW L, Answering(L), NEW x, ~IsJob(x), NEW v, SameBut(page, v, Inner),
           FormedStore(v.store), DOMAIN v.edit = DOMAIN page.edit, NEW now,
           Sliced(page, v, {Answered.kind, x.kind}, OwedWith(page, L, x), page.fillRun,
                  TRUE, FALSE, now, TRUE, FALSE),
           NEW q, q = Post(v, x)
    PROVE  Holding(q, now, TRUE, FALSE, L) /\ SameBut(v, q, {"out"})
  <1> DEFINE S == UnderWay
             Z == OwedWith(page, L, x)
             run == page.fillRun
             kinds == {Answered.kind, x.kind}
             yes == TRUE
             no == FALSE
  <1>1. Alike(Owed(page, S), Z, kinds)
    <2>1. Owed(page, S) = S /\ Z = L \cup {x}
      BY DEF Owed, OwedWith, Range, Answering
    <2>2. L \subseteq S /\ S \subseteq L \cup {Answered}
      BY DEF Answering
    <2> HIDE DEF S, Z
    <2> QED BY <2>1, <2>2 DEF Alike
  <1>2. Holding(page, run, yes, no, S)
    BY DEF Answering, OnPage
  <1>3. Sliced(page, v, kinds, Z, run, yes, no, now, yes, no)
    OBVIOUS
  <1>4. Prepares(page, v)
    BY <1>2 DEF Prepares, SameBut, Inner, Memory, PageFields, Holding, Ready
  <1> HIDE DEF S, Z, run, kinds, yes, no
  <1>5. Ready(v) /\ Works(v, now, yes, no, Z) /\ v.out = page.out
    BY <1>1, <1>2, <1>3, <1>4, Prepared
  <1>6. NewJob(v, x)
    BY DEF NewJob
  <1>7. Works(v, now, yes, no, OwedWith(v, L, x))
    <2>1. OwedWith(v, L, x) = Z
      BY <1>5 DEF OwedWith, Owed, Z
    <2> QED BY <1>5, <2>1
  <1>8. Holding(q, now, yes, no, L) /\ SameBut(v, q, {"out"})
    BY <1>5, <1>6, <1>7, Posted
  <1> QED BY <1>8 DEF yes, no

Heard(L) ==
    LET r == Answered IN
    /\ \A x \in L : ~SameJob(r, x)
    /\ Outcome = "failed" => ~MadeBy(r, resident)
    /\ Outcome = "cancelled" /\ r.kind = "build" => Cancelled(r)
    /\ Outcome = "result" /\ r.kind = "commitRepair" /\ resident.repairCandidate.id # 0
         => Pending("build", resident.repairCandidate.id, L)
    /\ Outcome = "result" /\ r.kind = "commitFill" /\ resident.fillCandidate.id # 0
         => Pending("fill", resident.fillCandidate.id, L)

(* A build that ended without a candidate for the page.                     *)
LEMMA BuildEnded ==
    ASSUME NEW L, Answering(L), Answered.kind = "build", NEW state,
           state \notin {"building", "cancelling"},
           MadeBy(Answered, resident) => Told({}, "repair", Answered.token),
           NEW q, SameBut(page, q, {"store", "repairSession", "repairActive"}),
           q.store = EndRepairCandidate(page.store, Answered.token, state)
    PROVE  /\ Holding(q, q.fillRun, TRUE, FALSE, L) /\ KeepsShown(page.store, q.store)
           /\ q.startedFor = page.startedFor /\ q.fillRun = page.fillRun
  <1> DEFINE s == page.store
             r == Answered
             live == page.repairLive
             tools == page.setup.tools
             t == EndRepairCandidate(s, r.token, state)
  <1>2. /\ DOMAIN page = PageFields /\ FormedStore(s)
        /\ PlanEnds(s, UnderWay) /\ RepairEnds(s, live, tools, UnderWay)
        /\ RepairFate(live, page.stop, UnderWay)
    BY OnThePage DEF Works
  <1>3. r \in UnderWay /\ L \subseteq UnderWay /\ UnderWay \subseteq L \cup {r}
    BY DEF Answering
  <1>4. /\ KeepsPlan(s, t) /\ t.repair.commitState = s.repair.commitState
        /\ ~IsCurrentRepair(s, r.token) => t = s
        /\ IsCurrentRepair(s, r.token) => t.repair.candidateState = state
    <2> DEFINE token == r.token
    <2> HIDE DEF token, s
    <2> QED BY <1>2, CandidateFrame DEF token, s
  <1>5. /\ SameBut(page, q, {"store", "repairSession", "repairActive"}) /\ q.store = t
        /\ q.startedFor = page.startedFor /\ q.edit = page.edit /\ q.setup = page.setup
        /\ q.repairLive = page.repairLive /\ q.fillLive = page.fillLive
        /\ q.fillRun = page.fillRun /\ q.stop = page.stop
    BY <1>2 DEF SameBut, PageFields
  <1> HIDE DEF s, r, live, tools, t
  <1>6. /\ \A kind, token : Pending(kind, token, UnderWay) /\ (r.kind # kind \/ r.token # token)
             => Pending(kind, token, L)
        /\ \A kinds : r.kind \notin kinds /\ Claims(kinds, UnderWay) => Claims(kinds, L)
        /\ \A kinds : Claims(kinds, L) => Claims(kinds, UnderWay)
        /\ r.kind = "build"
    <2>1. r.kind = "build"
      BY DEF r
    <2> QED BY <1>3, <2>1 DEF Pending, Claims
  <1>7. PlanEnds(t, L)
    BY <1>2, <1>4, <1>6 DEF PlanEnds, KeepsPlan
  <1>8. RepairEnds(t, live, tools, L)
    <2>1. t.repair.candidateState \in {"building", "cancelling"} =>
            t = s /\ Pending("build", t.repairToken, L)
            /\ \A x \in L : x.kind = "plan" => x.token # t.repairToken
      BY <1>2, <1>3, <1>4, <1>6 DEF RepairEnds, IsCurrentRepair, Pending
    <2>2. t.repair.planState # "unavailable" \/ t.repair.plan # Nothing \/ Claims({"plan"}, L)
            => "repair" \in tools
      BY <1>2, <1>4, <1>6 DEF RepairEnds, KeepsPlan
    <2>3. t.repair.commitState # "idle" => Claims({"commitRepair", "undoRepair"}, L)
      BY <1>2, <1>4, <1>6 DEF RepairEnds
    <2>4. \A x \in L : x.kind = "build" /\ x.token = t.repairToken /\ x.token # 0
            => live \in {0, x.token}
      BY <1>2, <1>3, <1>4 DEF RepairEnds, KeepsPlan
    <2> QED BY <2>1, <2>2, <2>3, <2>4 DEF RepairEnds
  <1>9. RepairFate(live, page.stop, L)
    <2>1. \A x : x \in UnderWay /\ x.kind = "discardRepair" => x \in L
      BY <1>3, <1>6
    <2>2. MadeBy(r, resident) => Told(page.stop, "repair", r.token)
      BY DEF Told, r
    <2>3. Pending("build", resident.repairCandidate.id, UnderWay) /\ ~MadeBy(r, resident)
            => Pending("build", resident.repairCandidate.id, L)
      BY <1>6 DEF MadeBy, Pending
    <2>4. MadeBy(r, resident) => r.token = resident.repairCandidate.id
      BY <1>6 DEF MadeBy
    <2> QED BY <1>2, <2>1, <2>2, <2>3, <2>4 DEF RepairFate
  <1>10. Sliced(page, q, {r.kind}, L, page.fillRun, TRUE, FALSE, q.fillRun, TRUE, FALSE)
    <2>1. r.kind = "build"
      BY <1>6
    <2>2. KeepsAnalysis(s, t) /\ KeepsHoleFill(s, t) /\ KeepsShown(s, t)
      BY <1>4 DEF KeepsPlan, KeepsBesideRepair
    <2> QED BY <1>5, <1>7, <1>8, <1>9, <2>1, <2>2 DEF Sliced, s, live, tools
  <1>11. SameBut(page, q, Inner) /\ FormedStore(q.store) /\ DOMAIN q.edit = DOMAIN page.edit
    BY <1>4, <1>5 DEF SameBut, Memory, Inner, KeepsPlan, KeepsBesideRepair
  <1>12. Holding(q, q.fillRun, TRUE, FALSE, L)
    <2> DEFINE now == q.fillRun
    <2>1. Sliced(page, q, {Answered.kind}, L, page.fillRun, TRUE, FALSE, now, TRUE, FALSE)
      BY <1>10 DEF r
    <2> HIDE DEF now
    <2> QED BY <1>11, <2>1, AnswerStored DEF now
  <1> QED BY <1>4, <1>5, <1>12 DEF KeepsPlan, KeepsBesideRepair, s

(* The candidate takes the place that the build found empty.                *)
LEMMA BuildInstalled ==
    ASSUME NEW L, Answering(L), Answered.kind = "build", NEW c, c.id = Answered.token,
           IsCurrentRepair(page.store, Answered.token),
           NEW t, t = CommitRepairCandidate(page.store, c),
           NEW q, SameBut(page, q, {"repairSession", "store", "repairLive"}),
           q.store = t, q.repairLive = Answered.token
    PROVE  Ends(q, L)
  <1> DEFINE s == page.store
             r == Answered
             live == page.repairLive
             tools == page.setup.tools
  <1>2. /\ FormedStore(s)
        /\ PlanEnds(s, UnderWay) /\ RepairEnds(s, live, tools, UnderWay)
        /\ RepairFate(live, page.stop, UnderWay)
    BY OnThePage DEF Works
  <1>3. r \in UnderWay /\ L \subseteq UnderWay /\ UnderWay \subseteq L \cup {r}
        /\ r.kind = "build" /\ r.token = s.repairToken /\ r.token # 0
    BY DEF Answering, IsCurrentRepair
  <1>4. /\ KeepsPlan(s, t) /\ t.repair.candidateState = "ready"
        /\ t.repair.commitState = s.repair.commitState
    <2> HIDE DEF s
    <2> QED BY <1>2, CandidateFrame DEF s
  <1>5. /\ q.startedFor = page.startedFor /\ q.edit = page.edit /\ q.setup = page.setup
        /\ q.fillLive = page.fillLive /\ q.fillRun = page.fillRun /\ q.stop = page.stop
    BY DEF SameBut, PageFields
  <1> HIDE DEF s, r, live, tools
  <1>6. /\ \A kind, token : Pending(kind, token, UnderWay) /\ (r.kind # kind \/ r.token # token)
             => Pending(kind, token, L)
        /\ \A kinds : r.kind \notin kinds /\ Claims(kinds, UnderWay) => Claims(kinds, L)
        /\ \A kinds : Claims(kinds, L) => Claims(kinds, UnderWay)
    BY <1>3 DEF Pending, Claims
  <1>7. PlanEnds(t, L)
    BY <1>2, <1>3, <1>4, <1>6 DEF PlanEnds, KeepsPlan
  <1>8. RepairEnds(t, r.token, tools, L)
    <2>2. t.repair.planState # "unavailable" \/ t.repair.plan # Nothing \/ Claims({"plan"}, L)
            => "repair" \in tools
      BY <1>2, <1>4, <1>6 DEF RepairEnds, KeepsPlan
    <2>3. t.repair.commitState # "idle" => Claims({"commitRepair", "undoRepair"}, L)
      BY <1>2, <1>3, <1>4, <1>6 DEF RepairEnds
    <2>4. t.repairToken = r.token
      BY <1>3, <1>4 DEF KeepsPlan
    <2> QED BY <1>4, <2>2, <2>3, <2>4 DEF RepairEnds
  <1>9. RepairFate(r.token, page.stop, L)
    <2>1. live \in {0, r.token}
      BY <1>2, <1>3 DEF RepairEnds
    <2>2. \A x : x \in UnderWay /\ x.kind = "discardRepair" => x \in L
      BY <1>3
    <2>3. Pending("build", resident.repairCandidate.id, UnderWay)
            /\ resident.repairCandidate.id # r.token
            => Pending("build", resident.repairCandidate.id, L)
      BY <1>6
    <2> QED BY <1>2, <2>1, <2>2, <2>3 DEF RepairFate
  <1>10. Sliced(page, q, {r.kind}, L, page.fillRun, TRUE, FALSE, q.fillRun, TRUE, FALSE)
    <2>2. KeepsAnalysis(s, t) /\ KeepsHoleFill(s, t) /\ KeepsShown(s, t)
      BY <1>4 DEF KeepsPlan, KeepsBesideRepair
    <2>3. q.repairLive = r.token
      BY DEF r
    <2> QED BY <1>3, <1>5, <1>7, <1>8, <1>9, <2>2, <2>3 DEF Sliced, s, tools
  <1>11. SameBut(page, q, Inner) /\ FormedStore(q.store) /\ DOMAIN q.edit = DOMAIN page.edit
    BY <1>4, <1>5 DEF SameBut, Memory, Inner, KeepsPlan, KeepsBesideRepair
  <1>12. KeepsShown(page.store, q.store)
    BY <1>4 DEF KeepsPlan, KeepsBesideRepair, s
  <1> QED BY <1>5, <1>10, <1>11, <1>12, AnswerEnds DEF r

(* A result nobody waits for: the worker is told.                           *)
LEMMA BuildDiscarded ==
    ASSUME NEW L, Answering(L), Answered.kind = "build",
           ~IsCurrentRepair(page.store, Answered.token),
           NEW o, SameBut(page, o, {"repairSession"}),
           NEW x, x.kind = "discardRepair", x.id = Answered.token,
           NEW q, q = Post(o, x)
    PROVE  Ends(q, L)
  <1> DEFINE s == page.store
             r == Answered
             live == page.repairLive
             tools == page.setup.tools
             Z == OwedWith(page, L, x)
  <1>2. /\ FormedStore(s)
        /\ PlanEnds(s, UnderWay) /\ RepairEnds(s, live, tools, UnderWay)
        /\ RepairFate(live, page.stop, UnderWay) /\ Owed(page, L) = L
    BY OnThePage DEF Works
  <1>3. r \in UnderWay /\ L \subseteq UnderWay /\ UnderWay \subseteq L \cup {r}
        /\ r.kind = "build" /\ (r.token # s.repairToken \/ r.token = 0)
    BY DEF Answering, IsCurrentRepair
  <1>4. Z = L \cup {x}
    BY <1>2 DEF OwedWith
  <1>5. /\ o.startedFor = page.startedFor /\ o.edit = page.edit /\ o.setup = page.setup
        /\ o.fillLive = page.fillLive /\ o.fillRun = page.fillRun /\ o.stop = page.stop
        /\ o.store = page.store /\ o.repairLive = page.repairLive
    BY DEF SameBut, PageFields
  <1> HIDE DEF s, r, live, tools, Z
  <1>6. /\ \A kind, token : Pending(kind, token, UnderWay) /\ (r.kind # kind \/ r.token # token)
             => Pending(kind, token, Z)
        /\ \A kinds : r.kind \notin kinds /\ Claims(kinds, UnderWay) => Claims(kinds, Z)
        /\ \A kinds : x.kind \notin kinds /\ Claims(kinds, Z) => Claims(kinds, UnderWay)
    BY <1>3, <1>4 DEF Pending, Claims
  <1>7. PlanEnds(s, Z)
    BY <1>2, <1>3, <1>6 DEF PlanEnds
  <1>8. RepairEnds(s, live, tools, Z)
    <2>1. \A y \in Z : y.kind \in {"plan", "build"} => y \in UnderWay
      BY <1>3, <1>4
    <2>2. s.repair.candidateState \in {"building", "cancelling"} =>
            Pending("build", s.repairToken, Z)
      BY <1>2, <1>3, <1>6 DEF RepairEnds, Pending
    <2>3. s.repair.commitState # "idle" => Claims({"commitRepair", "undoRepair"}, Z)
      BY <1>2, <1>3, <1>6 DEF RepairEnds
    <2>4. Claims({"plan"}, Z) => Claims({"plan"}, UnderWay)
      BY <1>6
    <2> QED BY <1>2, <2>1, <2>2, <2>3, <2>4 DEF RepairEnds
  <1>9. RepairFate(live, page.stop, Z)
    <2>2. \A y : y \in UnderWay /\ y.kind = "discardRepair" => y \in Z
      BY <1>3, <1>4
    <2>3. Pending("build", resident.repairCandidate.id, UnderWay)
            /\ resident.repairCandidate.id # r.token
            => Pending("build", resident.repairCandidate.id, Z)
      BY <1>6
    <2>4. x \in Z /\ x.id = r.token
      BY <1>4 DEF r
    <2> QED BY <1>2, <2>2, <2>3, <2>4 DEF RepairFate
  <1>10. Sliced(page, o, {r.kind, x.kind}, Z, page.fillRun, TRUE, FALSE, o.fillRun, TRUE, FALSE)
    <2>2. KeepsAnalysis(s, s) /\ KeepsHoleFill(s, s) /\ KeepsShown(s, s)
      BY DEF KeepsAnalysis, KeepsHoleFill, KeepsShown
    <2> QED BY <1>3, <1>5, <1>7, <1>8, <1>9, <2>2 DEF Sliced, s, tools, live
  <1>11. SameBut(page, o, Inner) /\ FormedStore(o.store) /\ DOMAIN o.edit = DOMAIN page.edit
    BY <1>2, <1>5 DEF SameBut, Memory, Inner, s
  <1>12. ~IsJob(x)
    BY DEF IsJob
  <1>13. Holding(q, o.fillRun, TRUE, FALSE, L) /\ SameBut(o, q, {"out"})
    <2> DEFINE now == o.fillRun
    <2>1. Sliced(page, o, {Answered.kind, x.kind}, OwedWith(page, L, x), page.fillRun,
                 TRUE, FALSE, now, TRUE, FALSE)
      BY <1>10 DEF r, Z
    <2> HIDE DEF now
    <2>2. Holding(q, now, TRUE, FALSE, L) /\ SameBut(o, q, {"out"})
      BY <1>11, <1>12, <2>1, AnswerPosted
    <2> QED BY <2>2 DEF now
  <1>14. /\ q.fillRun = o.fillRun /\ q.startedFor = page.startedFor
         /\ KeepsShown(page.store, q.store)
    BY <1>5, <1>13 DEF SameBut, PageFields, KeepsShown
  <1>15. Settled(page)
    BY OnThePage
  <1> QED BY <1>13, <1>14, <1>15, HandlerLeaves

LEMMA RepairAnswersEnd ==
    ASSUME NEW L, Answering(L), HandledInv, Heard(L), ReceivesRepairCandidate
    PROVE  \E p : PageReceives(p) /\ Ends(p, L)
  <1> DEFINE s == page.store
             r == Answered
             token == r.token
             c == Candidate(token, r.subject, 0)
             o == [page EXCEPT !.repairSession = 0]
             x == [o EXCEPT !.repairActive = 0]
             d == Request("discardRepair", 0, Nothing, 0, c.id)
             e == EndRepairCandidate(s, token, "cancelled")
             f == EndRepairCandidate(s, token, "failed")
             shown == [o EXCEPT !.store = CommitRepairCandidate(s, c), !.repairLive = c.id]
             cancelled == [x EXCEPT !.store = e]
             failed == [x EXCEPT !.store = f]
  <1>1. r.kind = "build" /\ toPage # <<>>
    BY DEF ReceivesRepairCandidate, Receives
  <1>2. DOMAIN page = PageFields /\ FormedStore(s) /\ Settled(page)
    BY OnThePage
  <1>3. c.id = token
    BY DEF Candidate
  <1>4. /\ SameBut(page, o, {"repairSession"}) /\ o.store = s
        /\ SameBut(page, x, {"repairSession", "repairActive"}) /\ x.store = s
    BY <1>2 DEF SameBut, PageFields
  <1>5. \/ MayInstallRepair(s, token, c) /\ PageReceives(shown)
        \/ ~MayInstallRepair(s, token, c) /\ PageReceives(Post(o, d))
        \/ /\ Outcome = "cancelled"
           /\ PageReceives(cancelled) \/ PageReceives(Post(cancelled, d))
        \/ Outcome = "failed" /\ PageReceives(failed)
    <2> HIDE DEF token, c, s
    <2>1. /\ shown = [o EXCEPT !.store = CommitRepairCandidate(@, c), !.repairLive = c.id]
          /\ cancelled = [x EXCEPT !.store = EndRepairCandidate(@, token, "cancelled")]
          /\ failed = [x EXCEPT !.store = EndRepairCandidate(@, token, "failed")]
      <3> HIDE DEF o, x
      <3> QED BY <1>4
    <2> HIDE DEF shown, cancelled, failed, PageReceives, o, x, d
    <2>2. CASE Receives({"build"}, "result")
               /\ PageReceives(IF MayInstallRepair(s, token, c) THEN shown ELSE Post(o, d))
      BY <2>2
    <2>3. CASE Receives({"build"}, "cancelled")
               /\ PageReceives(IF Head(toPage).outcome = "result" THEN Post(cancelled, d)
                               ELSE cancelled)
      BY <2>3 DEF Receives
    <2>4. CASE Receives({"build"}, "failed") /\ PageReceives(failed)
      BY <2>4 DEF Receives
    <2> QED BY <2>1, <2>2, <2>3, <2>4 DEF ReceivesRepairCandidate, token, c, s, o, x, d
  <1> HIDE DEF PageReceives
  <1>6. CASE MayInstallRepair(s, token, c) /\ PageReceives(shown)
    <2> DEFINE t == CommitRepairCandidate(s, c)
    <2>1. /\ SameBut(page, shown, {"repairSession", "store", "repairLive"})
          /\ shown.store = t /\ shown.repairLive = token
      <3> DEFINE id == c.id
      <3>1. shown = [o EXCEPT !.store = t, !.repairLive = id] /\ id = token
        BY <1>3
      <3> HIDE DEF t, c, id, o, shown, token
      <3> QED BY <1>4, <3>1 DEF SameBut, PageFields
    <2>2. IsCurrentRepair(page.store, Answered.token)
      BY <1>6 DEF MayInstallRepair
    <2>3. c.id = Answered.token /\ t = CommitRepairCandidate(page.store, c)
          /\ shown.repairLive = Answered.token
      BY <1>3, <2>1
    <2> HIDE DEF c, t, shown
    <2>4. Ends(shown, L)
      BY <1>1, <2>1, <2>2, <2>3, BuildInstalled
    <2> QED BY <1>6, <2>4
  <1>7. CASE ~MayInstallRepair(s, token, c) /\ PageReceives(Post(o, d))
    <2>1. ~IsCurrentRepair(page.store, Answered.token)
      <3>1. IsCurrentRepair(s, token) => r.subject.revision = s.revision
        <4>1. r \in UnderWay
          BY DEF Answering
        <4> HIDE DEF r
        <4> QED BY <1>1, <4>1, RequestsUnderWay
              DEF RequestOf, IsCurrentRepair, Model, Shown, Subject, r
      <3>2. c.subject = r.subject
        BY DEF Candidate
      <3> QED BY <1>7, <3>1, <3>2 DEF MayInstallRepair
    <2> DEFINE p == Post(o, d)
    <2>2. d.kind = "discardRepair" /\ d.id = Answered.token /\ p = Post(o, d)
      BY <1>3 DEF Request
    <2> HIDE DEF o, d, p, c
    <2>3. Ends(p, L)
      BY <1>1, <1>4, <2>1, <2>2, BuildDiscarded
    <2> QED BY <1>7, <2>3 DEF p
  <1>8. ASSUME NEW t, NEW state \in {"cancelled", "failed"},
               t = EndRepairCandidate(page.store, Answered.token, state),
               Outcome = state
        PROVE  LET q == [x EXCEPT !.store = t] IN
               /\ Holding(q, q.fillRun, TRUE, FALSE, L) /\ Ends(q, L)
               /\ KeepsShown(page.store, q.store) /\ q.startedFor = page.startedFor
    <2> DEFINE q == [x EXCEPT !.store = t]
    <2>1. /\ SameBut(page, q, {"store", "repairSession", "repairActive"})
          /\ q.store = EndRepairCandidate(page.store, Answered.token, state)
      <3>1. q.store = t /\ SameBut(x, q, {"store"})
        <4> HIDE DEF x
        <4> QED BY <1>4 DEF SameBut, PageFields
      <3> HIDE DEF q, x
      <3> QED BY <1>4, <1>8, <3>1 DEF SameBut
    <2>2. MadeBy(Answered, resident) => Told({}, "repair", Answered.token)
      <3>1. Outcome = "cancelled" => Cancelled(Answered)
        BY <1>1 DEF Heard
      <3>2. Outcome = "failed" => ~MadeBy(Answered, resident)
        BY DEF Heard
      <3>3. Stream("build") = "repair"
        BY DEF Stream
      <3> QED BY <1>1, <1>8, <3>1, <3>2, <3>3 DEF Told, Cancelled
    <2> HIDE DEF q, x
    <2>3. state \notin {"building", "cancelling"}
      BY <1>8
    <2>4. /\ Holding(q, q.fillRun, TRUE, FALSE, L) /\ KeepsShown(page.store, q.store)
          /\ q.startedFor = page.startedFor
      BY <1>1, <2>1, <2>2, <2>3, BuildEnded
    <2> QED BY <1>2, <2>4, HandlerLeaves DEF q
  <1>9. CASE Outcome = "cancelled" /\ (PageReceives(cancelled) \/ PageReceives(Post(cancelled, d)))
    <2>1. /\ Holding(cancelled, cancelled.fillRun, TRUE, FALSE, L) /\ Ends(cancelled, L)
          /\ KeepsShown(page.store, cancelled.store)
          /\ cancelled.startedFor = page.startedFor
      <3> HIDE DEF x
      <3> QED BY <1>8, <1>9
    <2> DEFINE p == Post(cancelled, d)
               run == cancelled.fillRun
    <2>2. d.kind \notin Asking /\ p = Post(cancelled, d)
      BY DEF Request, Asking
    <2> HIDE DEF cancelled, p, d
    <2>3. Holding(p, run, TRUE, FALSE, L) /\ SameBut(cancelled, p, {"out"})
      <3>1. Holding(cancelled, run, TRUE, FALSE, L)
        BY <2>1
      <3> HIDE DEF run
      <3> QED BY <2>2, <3>1, QuietlyPosted
    <2>4. p.fillRun = run /\ KeepsShown(page.store, p.store) /\ p.startedFor = page.startedFor
      BY <2>1, <2>3 DEF SameBut, PageFields
    <2>5. Ends(p, L)
      BY <1>2, <2>3, <2>4, HandlerLeaves
    <2> QED BY <1>9, <2>1, <2>5 DEF p
  <1>10. CASE Outcome = "failed" /\ PageReceives(failed)
    <2>1. Ends(failed, L)
      <3> HIDE DEF x
      <3> QED BY <1>8, <1>10
    <2> QED BY <1>10, <2>1
  <1> QED BY <1>5, <1>6, <1>7, <1>9, <1>10

LEMMA ListingAnswersEnd ==
    ASSUME NEW L, Answering(L), HandledInv, ReceivesListing
    PROVE  \E p : PageReceives(p) /\ Ends(p, L)
  <1> DEFINE s == page.store
             r == Answered
             run == page.fillRun
             tools == page.setup.tools
  <1>1. PICK t \in {CommitHoleFillListing(s, r.token, r.subject), FailHoleFillListing(s, r.token)} :
          PageReceives([page EXCEPT !.store = t]) /\ r.kind = "list"
    BY DEF ReceivesListing, Receives
  <1> DEFINE q == [page EXCEPT !.store = t]
  <1>2. /\ DOMAIN page = PageFields /\ FormedStore(s) /\ FillEnds(s, run, tools, TRUE, UnderWay)
    BY OnThePage DEF Works
  <1>3. r \in UnderWay /\ L \subseteq UnderWay /\ UnderWay \subseteq L \cup {r}
    BY DEF Answering
  <1>4. /\ "fill" \in tools
        /\ IsCurrentHoleFill(s, r.token) => s.holeFill.inventory # "ready"
    <2> HIDE DEF r
    <2> QED BY <1>1, <1>3, RequestsUnderWay
          DEF RequestOf, HandledInv, ListsOf, ListOf, IsCurrentHoleFill
  <1>5. /\ FormedStore(t) /\ KeepsAnalysis(s, t) /\ KeepsRepair(s, t) /\ KeepsShown(s, t)
        /\ \/ t = s /\ ~IsCurrentHoleFill(s, r.token)
           \/ /\ IsCurrentHoleFill(s, r.token)
              /\ \E inventory \in {"ready", "failed"} :
                    FillsTo(s, t, 0, inventory, s.holeFill.workState, s.holeFill.commitState)
    <2> DEFINE token == r.token
               subject == r.subject
               h == s.holeFill
    <2> HIDE DEF token, subject, s, h
    <2>1. h = s.holeFill
      BY DEF h
    <2>2. CASE t = CommitHoleFillListing(s, token, subject)
      <3>1. IF IsCurrentHoleFill(s, token)
            THEN FillsTo(s, t, 0, "ready", h.workState, h.commitState)
            ELSE t = s
        BY <1>2, <2>1, <2>2, FillFrame
      <3> QED BY <1>2, <2>1, <3>1 DEF token, FillsTo, KeepsAnalysis, KeepsRepair, KeepsShown
    <2>3. CASE t = FailHoleFillListing(s, token)
      <3>1. IF IsCurrentHoleFill(s, token)
            THEN FillsTo(s, t, 0, "failed", h.workState, h.commitState)
            ELSE t = s
        BY <1>2, <2>1, <2>3, FillFrame
      <3> QED BY <1>2, <2>1, <3>1 DEF token, FillsTo, KeepsAnalysis, KeepsRepair, KeepsShown
    <2> QED BY <1>1, <2>2, <2>3 DEF token, subject
  <1> HIDE DEF s, r, run, tools
  <1>6. /\ \A kind, token : Pending(kind, token, UnderWay) /\ (r.kind # kind \/ r.token # token)
             => Pending(kind, token, L)
        /\ \A kinds : r.kind \notin kinds /\ Claims(kinds, UnderWay) => Claims(kinds, L)
    BY <1>3 DEF Pending, Claims
  <1>7. FillEnds(t, run, tools, TRUE, L)
    <2>1. CASE t = s /\ ~IsCurrentHoleFill(s, r.token)
      <3>1. s.holeFill.inventory = "listing" => Pending("list", s.holeFillToken, L)
        BY <1>2, <1>6, <2>1 DEF FillEnds, IsCurrentHoleFill, Pending
      <3>2. /\ \A token : Pending("fill", token, UnderWay) => Pending("fill", token, L)
            /\ Claims({"commitFill", "undoFill"}, UnderWay) => Claims({"commitFill", "undoFill"}, L)
        BY <1>1, <1>6
      <3> QED BY <1>2, <1>3, <2>1, <3>1, <3>2 DEF FillEnds
    <2>2. ASSUME IsCurrentHoleFill(s, r.token), NEW inventory \in {"ready", "failed"},
                 FillsTo(s, t, 0, inventory, s.holeFill.workState, s.holeFill.commitState)
          PROVE  FillEnds(t, run, tools, TRUE, L)
      <3>1. t.holeFill.workState = "idle"
        BY <1>2, <1>4, <2>2 DEF FillEnds, FillsTo
      <3>2. t.holeFill.commitState # "idle" => Claims({"commitFill", "undoFill"}, L)
        BY <1>1, <1>2, <1>6, <2>2 DEF FillEnds, FillsTo
      <3>3. t.holeFillToken = 0 /\ t.holeFill.inventory \in {"ready", "failed"}
        BY <2>2 DEF FillsTo
      <3> QED BY <1>4, <3>1, <3>2, <3>3 DEF FillEnds
    <2> QED BY <1>5, <2>1, <2>2
  <1>8. /\ SameBut(page, q, {"store"}) /\ q.store = t
        /\ q.startedFor = page.startedFor /\ q.edit = page.edit /\ q.setup = page.setup
        /\ q.repairLive = page.repairLive /\ q.fillLive = page.fillLive
        /\ q.fillRun = page.fillRun /\ q.stop = page.stop
    BY <1>2 DEF SameBut, PageFields
  <1> HIDE DEF q
  <1>9. Sliced(page, q, {r.kind}, L, page.fillRun, TRUE, FALSE, q.fillRun, TRUE, FALSE)
    BY <1>1, <1>5, <1>7, <1>8 DEF Sliced, s, run, tools
  <1>10. SameBut(page, q, Inner) /\ FormedStore(q.store) /\ DOMAIN q.edit = DOMAIN page.edit
    BY <1>5, <1>8 DEF SameBut, Memory, Inner
  <1>11. Ends(q, L)
    BY <1>5, <1>8, <1>9, <1>10, AnswerEnds DEF s, r
  <1> QED BY <1>1, <1>11 DEF q

LEMMA FillForgotten ==
    ASSUME NEW L, Answering(L), Answered.kind = "fill", Answered.token # page.fillRun
    PROVE  Ends(page, L)
  <1> DEFINE s == page.store
             r == Answered
             run == page.fillRun
             live == page.fillLive
             tools == page.setup.tools
  <1>2. /\ DOMAIN page = PageFields /\ FormedStore(s) /\ FillEnds(s, run, tools, TRUE, UnderWay)
        /\ FillFate(live, run, page.stop, UnderWay)
    BY OnThePage DEF Works
  <1>3. r \in UnderWay /\ L \subseteq UnderWay /\ UnderWay \subseteq L \cup {r}
        /\ r.kind = "fill" /\ r.token # run
    BY DEF Answering
  <1> HIDE DEF s, r, run, tools, live
  <1>4. /\ \A kind, token : Pending(kind, token, UnderWay) /\ (r.kind # kind \/ r.token # token)
             => Pending(kind, token, L)
        /\ \A kinds : r.kind \notin kinds /\ Claims(kinds, UnderWay) => Claims(kinds, L)
    BY <1>3 DEF Pending, Claims
  <1>5. FillEnds(s, run, tools, TRUE, L)
    <2>1. s.holeFill.inventory = "listing" => Pending("list", s.holeFillToken, L)
      BY <1>2, <1>3, <1>4 DEF FillEnds
    <2>2. /\ Pending("fill", run, UnderWay) => Pending("fill", run, L)
          /\ Claims({"commitFill", "undoFill"}, UnderWay) => Claims({"commitFill", "undoFill"}, L)
      BY <1>3, <1>4
    <2> QED BY <1>2, <1>3, <2>1, <2>2 DEF FillEnds
  <1>6. FillFate(live, run, page.stop, L)
    <2>1. Pending("fill", resident.fillCandidate.id, UnderWay)
            => \/ Pending("fill", resident.fillCandidate.id, L)
               \/ Told(page.stop, "fill", resident.fillCandidate.id)
      BY <1>2, <1>3, <1>4 DEF FillFate
    <2>2. \A x \in UnderWay : x.kind = "discardFill" => x \in L
      BY <1>3
    <2> QED BY <1>2, <1>3, <2>1, <2>2 DEF FillFate
  <1>7. Sliced(page, page, {r.kind}, L, page.fillRun, TRUE, FALSE, page.fillRun, TRUE, FALSE)
    <2>1. KeepsAnalysis(s, s) /\ KeepsRepair(s, s) /\ KeepsShown(s, s)
      BY DEF KeepsAnalysis, KeepsRepair, KeepsShown
    <2> QED BY <1>3, <1>5, <1>6, <2>1 DEF Sliced, s, run, tools, live
  <1>8. SameBut(page, page, Inner) /\ KeepsShown(page.store, page.store)
    BY <1>2 DEF SameBut, KeepsShown
  <1> QED BY <1>2, <1>7, <1>8, AnswerEnds DEF s, r

(* The fill that the page ran has returned. Z are the requests afterwards.  *)
LEMMA FillFateEnds ==
    ASSUME NEW L, Answering(L), Heard(L), Answered.kind = "fill",
           Answered.token = page.fillRun, page.fillRun # 0,
           NEW Z, L \subseteq Z, \A x \in Z : x.kind = "fill" => x \in L, NEW live,
           resident.fillCandidate.id = page.fillRun =>
             \/ live = page.fillRun
             \/ \E x \in Z : x.kind = "discardFill" /\ x.id = page.fillRun
    PROVE  FillFate(live, 0, page.stop, Z)
  <1> DEFINE r == Answered
             run == page.fillRun
             id == resident.fillCandidate.id
  <1>1. FillFate(page.fillLive, run, page.stop, UnderWay)
    BY OnThePage DEF Works
  <1>2. r \in UnderWay /\ L \subseteq UnderWay /\ UnderWay \subseteq L \cup {r}
        /\ r.kind = "fill" /\ r.token = run
    BY DEF Answering
  <1>3. \A x \in L : x.kind = "fill" => x.token # run
    BY DEF Heard, SameJob, IsJob
  <1>4. /\ id = run => live = run \/ \E x \in Z : x.kind = "discardFill" /\ x.id = run
        /\ run # 0
    OBVIOUS
  <1> HIDE DEF r, run
  <1>5. id # 0 => \/ live = id \/ Pending("fill", id, Z)
                  \/ \E x \in Z : x.kind = "discardFill" /\ x.id = id
                  \/ Told(page.stop, "fill", id)
    BY <1>1, <1>2, <1>4 DEF FillFate, Pending
  <1>6. \A x \in Z : x.kind = "fill" => Told(page.stop, "fill", x.token)
    BY <1>1, <1>2, <1>3 DEF FillFate
  <1> QED BY <1>5, <1>6 DEF FillFate

LEMMA FillInstalled ==
    ASSUME NEW L, Answering(L), Heard(L), Answered.kind = "fill",
           Answered.token = page.fillRun, page.fillRun # 0,
           IsCurrentHoleFill(page.store, page.fillRun), NEW c,
           NEW q, SameBut(page, q, {"store", "fillRun", "fillSession", "fillLive"}),
           q.store = CommitHoleFillCandidate(page.store, c), q.fillRun = 0,
           q.fillLive = page.fillRun
    PROVE  Ends(q, L)
  <1> DEFINE s == page.store
             t == CommitHoleFillCandidate(s, c)
             h == s.holeFill
             r == Answered
             run == page.fillRun
             tools == page.setup.tools
  <1>2. FormedStore(s) /\ FillEnds(s, run, tools, TRUE, UnderWay)
    BY OnThePage DEF Works
  <1>3. r \in UnderWay /\ L \subseteq UnderWay /\ UnderWay \subseteq L \cup {r}
        /\ r.kind = "fill" /\ r.token = run /\ run # 0 /\ s.holeFillToken = run
    BY DEF Answering, IsCurrentHoleFill
  <1>4. FillsTo(s, t, 0, h.inventory, "ready", h.commitState)
    <2>1. h = s.holeFill
      OBVIOUS
    <2> HIDE DEF s, h
    <2> QED BY <1>2, <2>1, FillFrame
  <1>5. FillFate(run, 0, page.stop, L)
    BY FillFateEnds
  <1>6. /\ q.startedFor = page.startedFor /\ q.edit = page.edit /\ q.setup = page.setup
        /\ q.repairLive = page.repairLive /\ q.stop = page.stop /\ q.store = t
        /\ q.fillLive = run /\ q.fillRun = 0
    BY DEF SameBut, PageFields
  <1> HIDE DEF s, r, run, tools, t, h
  <1>7. FillEnds(t, 0, tools, TRUE, L)
    <2>1. h.inventory = "ready"
      BY <1>2, <1>3 DEF FillEnds, h
    <2>2. h.commitState # "idle" => Claims({"commitFill", "undoFill"}, L)
      <3>1. h.commitState # "idle" => Claims({"commitFill", "undoFill"}, UnderWay)
        BY <1>2 DEF FillEnds, h
      <3> QED BY <1>3, <3>1 DEF Claims
    <2>3. "fill" \in tools
      BY <1>2, <1>3 DEF FillEnds
    <2> QED BY <1>4, <2>1, <2>2, <2>3 DEF FillEnds, FillsTo
  <1>8. Sliced(page, q, {r.kind}, L, page.fillRun, TRUE, FALSE, q.fillRun, TRUE, FALSE)
    <2>1. KeepsAnalysis(s, t) /\ KeepsRepair(s, t) /\ KeepsShown(s, t)
      BY <1>4 DEF FillsTo
    <2> QED BY <1>3, <1>5, <1>6, <1>7, <2>1 DEF Sliced, s, tools
  <1>9. SameBut(page, q, Inner) /\ FormedStore(q.store) /\ DOMAIN q.edit = DOMAIN page.edit
        /\ KeepsShown(page.store, q.store)
    BY <1>4, <1>6 DEF SameBut, Memory, Inner, FillsTo, s
  <1> QED BY <1>6, <1>8, <1>9, AnswerEnds DEF r

(* A result that fits nothing on screen: the worker is told.                *)
LEMMA FillRefused ==
    ASSUME NEW L, Answering(L), Heard(L), Answered.kind = "fill",
           Answered.token = page.fillRun, page.fillRun # 0,
           page.store.holeFill.workState \notin {"generating", "cancelling"},
           NEW v, SameBut(page, v, {"fillRun", "fillSession", "fillLive"}),
           v.fillRun = 0, v.fillLive = 0,
           NEW x, x.kind = "discardFill", x.id = page.fillRun,
           NEW q, q = Post(v, x)
    PROVE  Ends(q, L)
  <1> DEFINE s == page.store
             h == s.holeFill
             r == Answered
             run == page.fillRun
             tools == page.setup.tools
             Z == OwedWith(page, L, x)
  <1>2. /\ FormedStore(s) /\ FillEnds(s, run, tools, TRUE, UnderWay) /\ Settled(page)
        /\ Owed(page, L) = L
    BY OnThePage DEF Works
  <1>3. r \in UnderWay /\ L \subseteq UnderWay /\ UnderWay \subseteq L \cup {r}
        /\ r.kind = "fill" /\ r.token = run /\ run # 0
        /\ h.workState \notin {"generating", "cancelling"}
    BY DEF Answering
  <1>4. Z = L \cup {x}
    BY <1>2 DEF OwedWith
  <1>5. FillFate(0, 0, page.stop, Z)
    <2>1. x \in Z /\ L \subseteq Z /\ \A y \in Z : y.kind = "fill" => y \in L
      BY <1>4
    <2>2. x.kind = "discardFill" /\ x.id = page.fillRun
      OBVIOUS
    <2> HIDE DEF Z
    <2> QED BY <2>1, <2>2, FillFateEnds
  <1>6. /\ v.startedFor = page.startedFor /\ v.edit = page.edit /\ v.setup = page.setup
        /\ v.repairLive = page.repairLive /\ v.stop = page.stop /\ v.store = s
    BY DEF SameBut, PageFields
  <1> HIDE DEF s, r, run, tools, h, Z
  <1>7. FillEnds(s, 0, tools, TRUE, Z)
    <2>1. /\ h.commitState # "idle" => Claims({"commitFill", "undoFill"}, Z)
          /\ h.inventory = "listing" => Pending("list", s.holeFillToken, Z)
      <3>1. /\ h.commitState # "idle" => Claims({"commitFill", "undoFill"}, UnderWay)
            /\ h.inventory = "listing" => Pending("list", s.holeFillToken, UnderWay)
        BY <1>2 DEF FillEnds, h
      <3> QED BY <1>3, <1>4, <3>1 DEF Claims, Pending
    <2> QED BY <1>2, <1>3, <2>1 DEF FillEnds, h
  <1>8. Sliced(page, v, {r.kind, x.kind}, Z, page.fillRun, TRUE, FALSE, v.fillRun, TRUE, FALSE)
    <2>1. KeepsAnalysis(s, s) /\ KeepsRepair(s, s) /\ KeepsShown(s, s)
      BY DEF KeepsAnalysis, KeepsRepair, KeepsShown
    <2> QED BY <1>3, <1>5, <1>6, <1>7, <2>1 DEF Sliced, s, tools
  <1>9. SameBut(page, v, Inner) /\ FormedStore(v.store) /\ DOMAIN v.edit = DOMAIN page.edit
    BY <1>2, <1>6 DEF SameBut, Memory, Inner
  <1>10. ~IsJob(x)
    BY DEF IsJob
  <1>11. Holding(q, v.fillRun, TRUE, FALSE, L) /\ SameBut(v, q, {"out"})
    <2> DEFINE now == v.fillRun
    <2>1. Sliced(page, v, {Answered.kind, x.kind}, OwedWith(page, L, x), page.fillRun,
                 TRUE, FALSE, now, TRUE, FALSE)
      BY <1>8 DEF r, Z
    <2> HIDE DEF now
    <2>2. Holding(q, now, TRUE, FALSE, L) /\ SameBut(v, q, {"out"})
      BY <1>9, <1>10, <2>1, AnswerPosted
    <2> QED BY <2>2 DEF now
  <1>12. /\ q.fillRun = v.fillRun /\ q.startedFor = page.startedFor
         /\ KeepsShown(page.store, q.store)
    BY <1>6, <1>11 DEF SameBut, PageFields, KeepsShown, s
  <1> QED BY <1>2, <1>11, <1>12, HandlerLeaves

LEMMA FillFailed ==
    ASSUME NEW L, Answering(L), Heard(L), Answered.kind = "fill",
           Answered.token = page.fillRun, page.fillRun # 0, Outcome = "failed",
           NEW q, SameBut(page, q, {"store", "fillRun", "fillSession", "fillActive"}),
           q.store = EndHoleFillCandidate(page.store, page.fillRun, "failed"), q.fillRun = 0
    PROVE  Ends(q, L)
  <1> DEFINE s == page.store
             r == Answered
             run == page.fillRun
             tools == page.setup.tools
             t == EndHoleFillCandidate(s, run, "failed")
             kinds == {"fill"}
  <1>2. FormedStore(s) /\ FillEnds(s, run, tools, TRUE, UnderWay) /\ run # 0
    BY OnThePage DEF Works
  <1>3. r \in UnderWay /\ L \subseteq UnderWay /\ UnderWay \subseteq L \cup {r}
        /\ r.kind = "fill" /\ r.token = run
    BY DEF Answering
  <1>4. FillFate(page.fillLive, 0, page.stop, L)
    <2>1. resident.fillCandidate.id # page.fillRun
      BY DEF Heard, MadeBy
    <2> QED BY <2>1, FillFateEnds
  <1>5. Alike(UnderWay, L, kinds)
    <2> HIDE DEF r, run
    <2> QED BY <1>3 DEF Alike
  <1>6. /\ q.startedFor = page.startedFor /\ q.edit = page.edit /\ q.setup = page.setup
        /\ q.repairLive = page.repairLive /\ q.stop = page.stop /\ q.store = t
        /\ q.fillLive = page.fillLive /\ q.fillRun = 0
    BY DEF SameBut, PageFields
  <1>7. /\ FillEnds(t, 0, tools, TRUE, L) /\ FormedStore(t)
        /\ KeepsAnalysis(s, t) /\ KeepsRepair(s, t) /\ KeepsShown(s, t)
    <2>1. "failed" \notin {"generating", "cancelling"}
      OBVIOUS
    <2> DEFINE state == "failed"
               S == UnderWay
    <2>2. state \notin {"generating", "cancelling"} /\ t = EndHoleFillCandidate(s, run, state)
      BY <2>1
    <2>3. FillEnds(s, run, tools, TRUE, S) /\ Alike(S, L, kinds)
      BY <1>2, <1>5
    <2> HIDE DEF s, run, tools, t, state, S
    <2>4. \A x : x = EndHoleFillCandidate(s, run, state) =>
            /\ FillEnds(x, 0, tools, TRUE, L) /\ FormedStore(x)
            /\ KeepsAnalysis(s, x) /\ KeepsRepair(s, x) /\ KeepsShown(s, x)
      BY <1>2, <2>2, <2>3, FillEnded
    <2> QED BY <2>2, <2>4
  <1> HIDE DEF s, r, run, tools, t
  <1>8. Sliced(page, q, {r.kind}, L, page.fillRun, TRUE, FALSE, q.fillRun, TRUE, FALSE)
    BY <1>3, <1>4, <1>6, <1>7 DEF Sliced, s, tools
  <1>9. SameBut(page, q, Inner) /\ FormedStore(q.store) /\ DOMAIN q.edit = DOMAIN page.edit
        /\ KeepsShown(page.store, q.store)
    BY <1>6, <1>7 DEF SameBut, Memory, Inner, s
  <1> QED BY <1>6, <1>8, <1>9, AnswerEnds DEF r

LEMMA FillAnswersEnd ==
    ASSUME NEW L, Answering(L), HandledInv, FillInv, Heard(L), ReceivesFill
    PROVE  \E p : PageReceives(p) /\ Ends(p, L)
  <1> DEFINE s == page.store
             h == s.holeFill
             r == Answered
             run == page.fillRun
             token == r.token
             c == Candidate(token, r.subject, r.opening)
             o == [page EXCEPT !.fillRun = 0, !.fillSession = 0]
             x == [o EXCEPT !.fillActive = 0]
             t == CommitHoleFillCandidate(s, c)
             f == EndHoleFillCandidate(s, token, "failed")
             shown == [o EXCEPT !.store = t, !.fillLive = c.id]
             failed == [x EXCEPT !.store = f]
  <1>1. r.kind = "fill" /\ toPage # <<>> /\ r \in UnderWay
    BY DEF ReceivesFill, Answering
  <1>2. /\ DOMAIN page = PageFields /\ FormedStore(s) /\ Settled(page)
        /\ FillEnds(s, run, page.setup.tools, TRUE, UnderWay)
        /\ FillFate(page.fillLive, run, page.stop, UnderWay)
    BY OnThePage DEF Works
  <1>3. c.id = token /\ c.subject = r.subject /\ c.opening = r.opening
    BY DEF Candidate
  <1>4. token # 0
    <2> HIDE DEF r
    <2> QED BY <1>1 DEF FillInv, FillsOf, AskedBefore, IsFill
  <1>5. /\ SameBut(page, o, {"fillRun", "fillSession"}) /\ o.store = s
        /\ o.fillRun = 0 /\ o.fillLive = page.fillLive
    BY <1>2 DEF SameBut, PageFields
  <1>6. SameBut(o, x, {"fillActive"}) /\ x.store = s /\ x.fillRun = 0
    <2> HIDE DEF o
    <2> QED BY <1>5 DEF SameBut, PageFields
  <1>7. \/ run # token /\ PageReceives(page)
        \/ /\ run = token
           /\ \/ MayInstallFill(s, token, c) /\ PageReceives(shown)
              \/ ~MayInstallFill(s, token, c) /\ PageReceives(ReleaseFillCandidate(o, c.id))
              \/ Outcome = "failed" /\ PageReceives(failed)
    <2> HIDE DEF c, s, token
    <2>1. /\ shown = [o EXCEPT !.store = CommitHoleFillCandidate(@, c), !.fillLive = c.id]
          /\ failed = [x EXCEPT !.store = EndHoleFillCandidate(@, token, "failed")]
      <3> HIDE DEF o, x
      <3> QED BY <1>5, <1>6
    <2> HIDE DEF shown, failed, PageReceives, o, x
    <2>2. CASE run = token /\ PageReceives(IF MayInstallFill(s, token, c) THEN shown
                                           ELSE ReleaseFillCandidate(o, c.id))
      BY <2>2
    <2>3. CASE run = token /\ Receives({"fill"}, "failed") /\ PageReceives(failed)
      BY <2>3 DEF Receives
    <2> QED BY <2>1, <2>2, <2>3 DEF ReceivesFill, token, c, s, o, x
  <1> HIDE DEF PageReceives
  <1>8. CASE run # token /\ PageReceives(page)
    BY <1>1, <1>8, FillForgotten
  <1>9. CASE run = token /\ MayInstallFill(s, token, c) /\ PageReceives(shown)
    <2>1. SameBut(page, shown, {"store", "fillRun", "fillSession", "fillLive"})
          /\ shown.store = t /\ shown.fillRun = 0 /\ shown.fillLive = run
      <3> DEFINE id == c.id
      <3>1. shown = [o EXCEPT !.store = t, !.fillLive = id] /\ id = run
        BY <1>3, <1>9
      <3> HIDE DEF t, c, id, o, shown, run
      <3> QED BY <1>5, <3>1 DEF SameBut, PageFields
    <2>2. IsCurrentHoleFill(page.store, page.fillRun)
      BY <1>9 DEF MayInstallFill
    <2>3. Answered.token = page.fillRun /\ page.fillRun # 0
      BY <1>4, <1>9
    <2>4. shown.store = CommitHoleFillCandidate(page.store, c) /\ shown.fillLive = page.fillRun
      BY <2>1
    <2> HIDE DEF c, t, shown
    <2>5. Ends(shown, L)
      BY <1>1, <2>1, <2>2, <2>3, <2>4, FillInstalled
    <2> QED BY <1>9, <2>5
  <1>10. CASE run = token /\ ~MayInstallFill(s, token, c)
              /\ PageReceives(ReleaseFillCandidate(o, c.id))
    <2>1. h.workState \notin {"generating", "cancelling"}
      <3> SUFFICES ASSUME h.workState \in {"generating", "cancelling"} PROVE FALSE
        OBVIOUS
      <3>1. run = s.holeFillToken /\ r.subject = Shown(s) /\ r.opening = h.selected
        <4> HIDE DEF r
        <4> QED BY <1>1, <1>2, <1>10 DEF FillEnds
      <3> QED BY <1>3, <1>4, <1>10, <3>1 DEF MayInstallFill, IsCurrentHoleFill
    <2> DEFINE v == [o EXCEPT !.fillLive = 0]
               d == Request("discardFill", 0, Nothing, 0, run)
               p == Post(v, d)
    <2>2. o.fillLive = 0
      BY <1>2, <1>4, <1>5, <1>10 DEF FillFate
    <2>3. ReleaseFillCandidate(o, c.id) = p
      <3>1. c.id = run /\ run # 0
        BY <1>3, <1>4, <1>10
      <3> DEFINE id == c.id
      <3>2. id = run /\ id # 0
        BY <3>1
      <3>3. (IF o.fillLive = id THEN 0 ELSE o.fillLive) = 0
        BY <2>2
      <3>4. ReleaseFillCandidate(o, id)
              = Post([o EXCEPT !.fillLive = IF o.fillLive = id THEN 0 ELSE o.fillLive],
                     Request("discardFill", 0, Nothing, 0, id))
        <4> HIDE DEF o, id
        <4> QED BY <3>2 DEF ReleaseFillCandidate
      <3> HIDE DEF o, id, run
      <3>5. ReleaseFillCandidate(o, id) = p
        BY <3>2, <3>3, <3>4
      <3> QED BY <3>5 DEF id
    <2>4. SameBut(page, v, {"fillRun", "fillSession", "fillLive"}) /\ v.fillRun = 0 /\ v.fillLive = 0
      <3> HIDE DEF o
      <3> QED BY <1>5 DEF SameBut, PageFields
    <2>5. d.kind = "discardFill" /\ d.id = page.fillRun /\ p = Post(v, d)
      BY DEF Request
    <2>6. Answered.token = page.fillRun /\ page.fillRun # 0
          /\ page.store.holeFill.workState \notin {"generating", "cancelling"}
      BY <1>4, <1>10, <2>1
    <2> HIDE DEF v, d, p
    <2>7. Ends(p, L)
      BY <1>1, <2>4, <2>5, <2>6, FillRefused
    <2> QED BY <1>10, <2>3, <2>7
  <1>11. CASE run = token /\ Outcome = "failed" /\ PageReceives(failed)
    <2>1. SameBut(page, failed, {"store", "fillRun", "fillSession", "fillActive"})
          /\ failed.store = f /\ failed.fillRun = 0
      <3>1. failed = [x EXCEPT !.store = f]
        OBVIOUS
      <3> HIDE DEF f, o, x, failed
      <3> QED BY <1>5, <1>6, <3>1 DEF SameBut, PageFields
    <2>2. /\ Answered.token = page.fillRun /\ page.fillRun # 0
          /\ failed.store = EndHoleFillCandidate(page.store, page.fillRun, "failed")
      BY <1>4, <1>11, <2>1
    <2> HIDE DEF failed, f
    <2>3. Ends(failed, L)
      BY <1>1, <1>11, <2>1, <2>2, FillFailed
    <2> QED BY <1>11, <2>3
  <1> QED BY <1>7, <1>8, <1>9, <1>10, <1>11

(* Another revision comes on screen, where nothing goes on.                 *)
LEMMA ModelInstalled ==
    ASSUME NEW L, Answering(L), Answered.kind \in Changes, NEW t, Idle(t),
           t.revision # page.store.revision,
           NEW q, SameBut(page, q, {"store", "repairLive", "fillLive", "edit"}), q.store = t,
           DOMAIN q.edit = DOMAIN page.edit,
           \/ Answered.kind # "commitEdit" /\ q.edit.applying = page.edit.applying
           \/ TextureEnds(q.edit, L),
           q.repairLive = page.repairLive \/ RepairFate(q.repairLive, page.stop, L),
           q.fillLive = page.fillLive \/ FillFate(q.fillLive, page.fillRun, page.stop, L)
    PROVE  Ends(q, L)
  <1> DEFINE r == Answered
             run == page.fillRun
             tools == page.setup.tools
             s == page.store
  <1>1. /\ RepairEnds(s, page.repairLive, tools, UnderWay)
        /\ FillEnds(s, run, tools, TRUE, UnderWay) /\ Settled(page)
    BY OnThePage DEF Works
  <1>2. L \subseteq UnderWay
    BY DEF Answering
  <1>3. Claims({"plan"}, L) => "repair" \in tools
    BY <1>1, <1>2 DEF RepairEnds, Claims
  <1>4. run # 0 => "fill" \in tools
    BY <1>1 DEF FillEnds
  <1> HIDE DEF r, run, tools, s
  <1>5. \A live : /\ AnalysisEnds(t, L) /\ PlanEnds(t, L) /\ RepairEnds(t, live, tools, L)
                  /\ FillEnds(t, run, tools, FALSE, L)
    BY <1>3, <1>4, IdleEnds
  <1>6. /\ q.startedFor = page.startedFor /\ q.setup = page.setup /\ q.stop = page.stop
        /\ q.fillRun = run
    BY DEF SameBut, PageFields, run
  <1>7. r.kind \in Changes
    BY DEF r
  <1>8. Sliced(page, q, {r.kind}, L, run, TRUE, FALSE, run, FALSE, FALSE)
    <2>1. /\ AnalysisEnds(q.store, L) /\ PlanEnds(q.store, L)
          /\ RepairEnds(q.store, q.repairLive, q.setup.tools, L)
          /\ FillEnds(q.store, run, q.setup.tools, FALSE, L)
      BY <1>5, <1>6 DEF tools
    <2>2. TextureEnds(q.edit, L) \/ ("commitEdit" \notin {r.kind} /\ q.edit.applying = page.edit.applying)
      BY DEF r
    <2>3. {r.kind} \cap {"build", "discardRepair"} = {} /\ {r.kind} \cap {"fill", "discardFill"} = {}
      BY <1>7 DEF Changes
    <2>4. RepairFate(q.repairLive, q.stop, L) \/ q.repairLive = page.repairLive
      BY <1>6
    <2>5. \/ FillFate(q.fillLive, q.fillRun, q.stop, L)
          \/ q.fillLive = page.fillLive /\ q.fillRun = page.fillRun
      BY <1>6 DEF run
    <2> QED BY <2>1, <2>2, <2>3, <2>4, <2>5 DEF Sliced
  <1>9. SameBut(page, q, Inner) /\ FormedStore(q.store)
    BY DEF SameBut, Memory, Inner, Idle
  <1>10. Holding(q, run, FALSE, FALSE, L)
    <2> DEFINE no == FALSE
    <2>1. Sliced(page, q, {Answered.kind}, L, page.fillRun, TRUE, FALSE, run, no, FALSE)
      BY <1>8 DEF r, run
    <2> HIDE DEF no
    <2>2. Holding(q, run, no, FALSE, L)
      BY <1>9, <2>1, AnswerStored
    <2> QED BY <2>2 DEF no
  <1>11. Settled(q) = FALSE
    BY <1>1, <1>6 DEF Settled, Model, Shown, Subject
  <1> QED BY <1>6, <1>10, <1>11 DEF Ends

(* What came back is of another revision than the one on screen.            *)
LEMMA AnotherRevision ==
    ASSUME HandledInv, VersionInv, toPage # <<>>, Answered.kind \in Changes,
           Outcome = "result"
    PROVE  Head(toPage).revision # page.store.revision
  <1>1. toPage \in Seq(AnswersOf) /\ Head(toPage) = toPage[1] /\ Answered = toPage[1].request
    BY FirstAnswer
  <1>2. 1 \in 1 .. Len(toPage)
    BY <1>1, AnswersLeft
  <1>3. Head(toPage).outcome = "result"
    BY DEF Outcome
  <1>4. Moves(toPage[1])
    BY <1>1, <1>3 DEF Moves
  <1>5. MoveOf(toPage[1])
    BY <1>2, <1>4 DEF VersionInv
  <1>6. page.store.revision \in Nat
    <2>1. page.store \in Stores
      BY DEF HandledInv, PageInv, StoreInv
    <2> HIDE DEF Analyses, Repairs, HoleFills
    <2> QED BY <2>1 DEF Stores
  <1> QED BY <1>1, <1>5, <1>6 DEF MoveOf

LEMMA RevisionInstalled ==
    ASSUME NEW s, FormedStore(s), NEW revision,
           NEW t \in {ApplyRepairResult(s, revision), ApplyUndoResult(s, revision),
                      ApplyHoleFillResult(s, revision), ApplyGeometryEditResult(s, revision)}
    PROVE  Idle(t) /\ t.revision = revision
  <1>1. Idle(t)
    BY AnotherModel
  <1>2. t.revision = revision
    BY DEF ApplyRepairResult, ApplyUndoResult, ApplyHoleFillResult, ApplyGeometryEditResult,
           Install, FormedStore, ShapedStore, StoreFields
  <1> QED BY <1>1, <1>2

LEMMA RepairChangesEnd ==
    ASSUME NEW L, Answering(L), HandledInv, VersionInv, Heard(L), ReceivesRepairChange
    PROVE  \E p : PageReceives(p) /\ Ends(p, L)
  <1> DEFINE s == page.store
             r == Answered
             run == page.fillRun
             live == page.repairLive
             tools == page.setup.tools
             revision == Head(toPage).revision
  <1>1. toPage # <<>> /\ r.kind \in {"commitRepair", "undoRepair"} /\ r.kind \in Changes
    BY DEF ReceivesRepairChange, Receives, Changes
  <1>2. /\ DOMAIN page = PageFields /\ FormedStore(s)
        /\ PlanEnds(s, UnderWay) /\ RepairEnds(s, live, tools, UnderWay)
    BY OnThePage DEF Works
  <1>3. r \in UnderWay /\ L \subseteq UnderWay /\ UnderWay \subseteq L \cup {r}
    BY DEF Answering
  <1>4. CASE r.kind = "commitRepair" /\ Outcome = "result"
    <2> DEFINE t == ApplyRepairResult(s, revision)
               q == [page EXCEPT !.store = t, !.repairLive = 0]
    <2>1. PageReceives(q)
      BY <1>4 DEF ReceivesRepairChange, Receives
    <2>2. Idle(t) /\ t.revision # page.store.revision
      <3>1. revision # s.revision
        BY <1>1, <1>4, AnotherRevision
      <3> HIDE DEF s, revision, t
      <3>2. Idle(t) /\ t.revision = revision
        BY <1>2, RevisionInstalled DEF t
      <3> QED BY <3>1, <3>2 DEF s
    <2> HIDE DEF t
    <2>3. /\ SameBut(page, q, {"store", "repairLive", "fillLive", "edit"}) /\ q.store = t
          /\ q.edit = page.edit /\ q.fillLive = page.fillLive /\ q.repairLive = 0
      BY <1>2 DEF SameBut, PageFields
    <2>4. RepairFate(q.repairLive, page.stop, L)
      BY <1>4, <2>3 DEF RepairFate, Heard
    <2> HIDE DEF q
    <2>5. DOMAIN q.edit = DOMAIN page.edit
          /\ Answered.kind # "commitEdit" /\ q.edit.applying = page.edit.applying
      BY <1>1, <2>3
    <2>6. Ends(q, L)
      BY <1>1, <2>2, <2>3, <2>4, <2>5, ModelInstalled
    <2> QED BY <2>1, <2>6
  <1>5. CASE r.kind = "undoRepair" /\ Outcome = "result"
    <2> DEFINE t == ApplyUndoResult(s, revision)
               q == [page EXCEPT !.store = t]
    <2>1. PageReceives(q)
      BY <1>5 DEF ReceivesRepairChange, Receives
    <2>2. Idle(t) /\ t.revision # page.store.revision
      <3>1. revision # s.revision
        BY <1>1, <1>5, AnotherRevision
      <3> HIDE DEF s, revision, t
      <3>2. Idle(t) /\ t.revision = revision
        BY <1>2, RevisionInstalled DEF t
      <3> QED BY <3>1, <3>2 DEF s
    <2> HIDE DEF t
    <2>3. /\ SameBut(page, q, {"store", "repairLive", "fillLive", "edit"}) /\ q.store = t
          /\ q.edit = page.edit /\ q.fillLive = page.fillLive /\ q.repairLive = page.repairLive
      BY <1>2 DEF SameBut, PageFields
    <2> HIDE DEF q
    <2>5. DOMAIN q.edit = DOMAIN page.edit
          /\ Answered.kind # "commitEdit" /\ q.edit.applying = page.edit.applying
      BY <1>1, <2>3
    <2>6. Ends(q, L)
      BY <1>1, <2>2, <2>3, <2>5, ModelInstalled
    <2> QED BY <2>1, <2>6
  <1>6. CASE Outcome = "failed"
    <2> DEFINE t == FailRepairChange(s)
               q == [page EXCEPT !.store = t]
    <2>1. PageReceives(q)
      BY <1>6 DEF ReceivesRepairChange, Receives
    <2>2. /\ KeepsPlan(s, t) /\ t.repair.candidateState = s.repair.candidateState
          /\ t.repair.commitState = "idle"
      <3> HIDE DEF s, t
      <3> QED BY <1>2, CandidateFrame DEF t
    <2>3. /\ SameBut(page, q, {"store"}) /\ q.store = t
          /\ q.startedFor = page.startedFor /\ q.edit = page.edit /\ q.setup = page.setup
          /\ q.repairLive = page.repairLive /\ q.fillLive = page.fillLive
          /\ q.fillRun = page.fillRun /\ q.stop = page.stop
      BY <1>2 DEF SameBut, PageFields
    <2> HIDE DEF s, r, live, tools, t, q
    <2>4. /\ \A kind, token : kind \in {"plan", "build"} /\ Pending(kind, token, UnderWay)
               => Pending(kind, token, L)
          /\ \A kinds : Claims(kinds, L) => Claims(kinds, UnderWay)
      BY <1>1, <1>3 DEF Pending, Claims
    <2>5. PlanEnds(t, L)
      BY <1>2, <2>2, <2>4 DEF PlanEnds, KeepsPlan
    <2>6. RepairEnds(t, live, tools, L)
      BY <1>2, <1>3, <2>2, <2>4 DEF RepairEnds, KeepsPlan
    <2>7. Sliced(page, q, {r.kind}, L, page.fillRun, TRUE, FALSE, q.fillRun, TRUE, FALSE)
      <3>1. KeepsAnalysis(s, t) /\ KeepsHoleFill(s, t) /\ KeepsShown(s, t)
        BY <2>2 DEF KeepsPlan, KeepsBesideRepair
      <3>2. r.kind \in {"commitRepair", "undoRepair"}
        BY <1>1
      <3> QED BY <2>3, <2>5, <2>6, <3>1, <3>2 DEF Sliced, s, live, tools
    <2>8. SameBut(page, q, Inner) /\ FormedStore(q.store) /\ DOMAIN q.edit = DOMAIN page.edit
          /\ KeepsShown(page.store, q.store)
      BY <2>2, <2>3 DEF SameBut, Memory, Inner, KeepsPlan, KeepsBesideRepair, s
    <2>9. Ends(q, L)
      BY <2>3, <2>7, <2>8, AnswerEnds DEF r
    <2> QED BY <2>1, <2>9
  <1> QED BY <1>4, <1>5, <1>6 DEF ReceivesRepairChange, Receives
(* A refused change, which leaves the slot that it claimed.                 *)
LEMMA FillChangeRefused ==
    ASSUME NEW L, Answering(L), Answered.kind \in {"commitFill", "undoFill"},
           NEW q, SameBut(page, q, {"store"}), q.store = FailHoleFillChange(page.store)
    PROVE  Holding(q, page.fillRun, TRUE, FALSE, L) /\ KeepsShown(page.store, q.store)
           /\ q.out = <<>> /\ Ends(q, L)
  <1> DEFINE s == page.store
             r == Answered
             run == page.fillRun
             tools == page.setup.tools
             h == s.holeFill
             t == FailHoleFillChange(s)
  <1>1. /\ DOMAIN page = PageFields /\ FormedStore(s)
        /\ FillEnds(s, run, tools, TRUE, UnderWay)
    BY OnThePage DEF Works
  <1>2. r \in UnderWay /\ L \subseteq UnderWay /\ UnderWay \subseteq L \cup {r}
        /\ r.kind \in {"commitFill", "undoFill"}
    BY DEF Answering
  <1>3. /\ FillsTo(s, t, s.holeFillToken, h.inventory, h.workState, "idle")
        /\ t.holeFill.selected = h.selected
    <2> HIDE DEF s
    <2> QED BY <1>1, FillFrame DEF h, t
  <1>4. /\ q.store = t /\ q.startedFor = page.startedFor /\ q.edit = page.edit
        /\ q.setup = page.setup /\ q.repairLive = page.repairLive
        /\ q.fillLive = page.fillLive /\ q.fillRun = run /\ q.stop = page.stop
    BY DEF SameBut, PageFields
  <1> HIDE DEF s, r, run, tools, t
  <1>5. FillEnds(t, run, tools, TRUE, L)
    <2>1. \A kind, token : kind \in {"list", "fill"} /\ Pending(kind, token, UnderWay)
            => Pending(kind, token, L)
      BY <1>2 DEF Pending
    <2>2. Shown(t) = Shown(s)
      BY <1>3 DEF FillsTo, KeepsShown, Shown
    <2>3. /\ h.inventory = "listing" => Pending("list", s.holeFillToken, L)
          /\ h.workState \in {"generating", "cancelling"} => Pending("fill", run, L)
      BY <1>1, <2>1 DEF FillEnds, h
    <2> QED BY <1>1, <1>2, <1>3, <2>2, <2>3 DEF FillEnds, FillsTo, h
  <1>6. Sliced(page, q, {r.kind}, L, page.fillRun, TRUE, FALSE, run, TRUE, FALSE)
    <2>1. /\ KeepsAnalysis(page.store, q.store) /\ KeepsRepair(page.store, q.store)
          /\ KeepsShown(page.store, q.store)
      BY <1>3, <1>4 DEF FillsTo, s
    <2>2. FillEnds(q.store, run, q.setup.tools, TRUE, L)
      BY <1>4, <1>5 DEF tools
    <2>3. /\ q.edit.applying = page.edit.applying /\ q.repairLive = page.repairLive
          /\ q.fillLive = page.fillLive /\ q.fillRun = page.fillRun
      BY <1>4 DEF run
    <2>4. r.kind \notin {"analyze", "plan", "build", "commitRepair", "undoRepair", "commitEdit",
                        "discardRepair", "fill", "discardFill"}
      BY <1>2
    <2> QED BY <2>1, <2>2, <2>3, <2>4 DEF Sliced
  <1>7. SameBut(page, q, Inner) /\ FormedStore(q.store) /\ DOMAIN q.edit = DOMAIN page.edit
    BY <1>3, <1>4 DEF SameBut, Memory, Inner, FillsTo
  <1>8. Holding(q, run, TRUE, FALSE, L) /\ q.out = <<>>
    <2> DEFINE yes == TRUE
    <2>1. Sliced(page, q, {Answered.kind}, L, page.fillRun, TRUE, FALSE, run, yes, FALSE)
      BY <1>6 DEF r
    <2> HIDE DEF yes
    <2>2. Holding(q, run, yes, FALSE, L) /\ q.out = <<>>
      BY <1>7, <2>1, AnswerStored
    <2> QED BY <2>2 DEF yes
  <1>9. KeepsShown(page.store, q.store)
    BY <1>3, <1>4 DEF FillsTo, s
  <1>10. Settled(page)
    BY DEF Answering, OnPage
  <1>11. Ends(q, L)
    BY <1>4, <1>8, <1>9, <1>10, HandlerLeaves
  <1>12. Holding(q, page.fillRun, TRUE, FALSE, L) /\ q.out = <<>>
    BY <1>8 DEF run
  <1> QED BY <1>9, <1>11, <1>12

(* The preview goes with the refused apply.                                 *)
LEMMA FillDropped ==
    ASSUME NEW p, NEW run, NEW L, Holding(p, run, TRUE, FALSE, L), p.fillRun = run,
           Settled(page), KeepsShown(page.store, p.store), p.startedFor = page.startedFor,
           NEW x, x = [p EXCEPT !.store = ClearHoleFillCandidate(@)], NEW id,
           NEW q, q = ReleaseFillCandidate(x, id)
    PROVE  Ends(q, L)
  <1> DEFINE s == p.store
             t == ClearHoleFillCandidate(s)
             h == s.holeFill
             S == Owed(p, L)
  <1>1. DOMAIN p = PageFields /\ FormedStore(s) /\ FillEnds(s, run, p.setup.tools, TRUE, S)
    BY DEF Holding, Ready, Formed, Works
  <1>2. IF h.workState = "idle" THEN t = s
        ELSE FillsTo(s, t, 0, h.inventory, "idle", h.commitState)
    <2> HIDE DEF s
    <2> QED BY <1>1, FillFrame DEF h, t
  <1>3. x = [p EXCEPT !.store = t]
    OBVIOUS
  <1> HIDE DEF t, S
  <1>4. SameBut(p, x, {"store"}) /\ x.store = t /\ x.startedFor = p.startedFor
        /\ x.fillRun = run
    BY <1>1, <1>3 DEF SameBut, PageFields
  <1>5. /\ FillEnds(t, run, p.setup.tools, TRUE, S) /\ FormedStore(t)
        /\ KeepsAnalysis(s, t) /\ KeepsRepair(s, t) /\ KeepsShown(s, t)
    <2>1. CASE h.workState = "idle"
      <3> HIDE DEF s
      <3> QED BY <1>1, <1>2, <2>1 DEF KeepsAnalysis, KeepsRepair, KeepsShown
    <2>2. CASE h.workState # "idle"
      <3>1. FillsTo(s, t, 0, h.inventory, "idle", h.commitState) /\ h.inventory = "ready"
        BY <1>1, <1>2, <2>2 DEF FillEnds
      <3> HIDE DEF s
      <3> QED BY <1>1, <3>1 DEF FillEnds, FillsTo
    <2> QED BY <2>1, <2>2
  <1>6. Holding(x, run, TRUE, FALSE, L)
    <2> DEFINE yes == TRUE
               no == FALSE
    <2>1. Holding(p, run, yes, no, L) /\ FillEnds(x.store, run, p.setup.tools, yes, Owed(p, L))
      BY <1>4, <1>5 DEF S
    <2>2. SameBut(p, x, Memory \cup {"store"})
      BY <1>4 DEF SameBut
    <2> HIDE DEF yes, no
    <2>3. Holding(x, run, yes, no, L)
      BY <1>4, <1>5, <2>1, <2>2, FillStored
    <2> QED BY <2>3 DEF yes, no
  <1>7. Holding(q, run, TRUE, FALSE, L) /\ SameBut(x, q, {"out", "fillLive"})
    <2> DEFINE yes == TRUE
               no == FALSE
    <2>1. Holding(x, run, yes, no, L)
      BY <1>6
    <2> HIDE DEF yes, no
    <2>2. Holding(q, run, yes, no, L)
      BY <2>1, FillReleased, Zenon
    <2>3. SameBut(x, q, {"out", "fillLive"})
      BY <2>1, FillReleased, Zenon
    <2> QED BY <2>2, <2>3 DEF yes, no
  <1>8. q.store = t /\ q.startedFor = page.startedFor /\ q.fillRun = run
    BY <1>4, <1>7 DEF SameBut, PageFields
  <1>9. KeepsShown(page.store, q.store)
    BY <1>5, <1>8 DEF KeepsShown
  <1> QED BY <1>7, <1>8, <1>9, HandlerLeaves

LEMMA FillChangesAnswered ==
    ASSUME NEW L, Answering(L), HandledInv, VersionInv, Heard(L), ReceivesFillChange
    PROVE  \E p : PageReceives(p) /\ Ends(p, L)
  <1> DEFINE s == page.store
             r == Answered
             run == page.fillRun
             revision == Head(toPage).revision
             failed == [page EXCEPT !.store = FailHoleFillChange(@)]
  <1>1. toPage # <<>> /\ r.kind \in {"commitFill", "undoFill"} /\ r.kind \in Changes
    BY DEF ReceivesFillChange, Receives, Changes
  <1>2. /\ DOMAIN page = PageFields /\ FormedStore(s)
        /\ FillFate(page.fillLive, run, page.stop, UnderWay)
    BY OnThePage DEF Works
  <1>3. r \in UnderWay /\ L \subseteq UnderWay /\ UnderWay \subseteq L \cup {r}
    BY DEF Answering
  <1>4. CASE r.kind = "commitFill" /\ Outcome = "result"
    <2> DEFINE t == ApplyHoleFillResult(s, revision)
               q == [page EXCEPT !.store = t, !.fillLive = 0]
    <2>1. PageReceives(q)
      BY <1>4 DEF ReceivesFillChange, Receives
    <2>2. Idle(t) /\ t.revision # page.store.revision
      <3>1. revision # s.revision
        BY <1>1, <1>4, AnotherRevision
      <3> HIDE DEF s, revision, t
      <3>2. Idle(t) /\ t.revision = revision
        BY <1>2, RevisionInstalled DEF t
      <3> QED BY <3>1, <3>2 DEF s
    <2> HIDE DEF t
    <2>3. /\ SameBut(page, q, {"store", "repairLive", "fillLive", "edit"}) /\ q.store = t
          /\ q.edit = page.edit /\ q.fillLive = 0 /\ q.repairLive = page.repairLive
      BY <1>2 DEF SameBut, PageFields
    <2>4. FillFate(0, run, page.stop, L)
      <3>1. resident.fillCandidate.id # 0 => Pending("fill", resident.fillCandidate.id, L)
        BY <1>4 DEF Heard
      <3> QED BY <1>2, <1>3, <3>1 DEF FillFate
    <2>5. FillFate(q.fillLive, page.fillRun, page.stop, L)
      BY <2>3, <2>4
    <2> HIDE DEF q
    <2>6. DOMAIN q.edit = DOMAIN page.edit
          /\ Answered.kind # "commitEdit" /\ q.edit.applying = page.edit.applying
      BY <1>1, <2>3
    <2>7. Ends(q, L)
      BY <1>1, <2>2, <2>3, <2>5, <2>6, ModelInstalled
    <2> QED BY <2>1, <2>7
  <1>5. CASE r.kind = "undoFill" /\ Outcome = "result"
    <2> DEFINE t == ApplyUndoResult(s, revision)
               q == [page EXCEPT !.store = t]
    <2>1. PageReceives(q)
      BY <1>5 DEF ReceivesFillChange, Receives
    <2>2. Idle(t) /\ t.revision # page.store.revision
      <3>1. revision # s.revision
        BY <1>1, <1>5, AnotherRevision
      <3> HIDE DEF s, revision, t
      <3>2. Idle(t) /\ t.revision = revision
        BY <1>2, RevisionInstalled DEF t
      <3> QED BY <3>1, <3>2 DEF s
    <2> HIDE DEF t
    <2>3. /\ SameBut(page, q, {"store", "repairLive", "fillLive", "edit"}) /\ q.store = t
          /\ q.edit = page.edit /\ q.fillLive = page.fillLive /\ q.repairLive = page.repairLive
      BY <1>2 DEF SameBut, PageFields
    <2> HIDE DEF q
    <2>5. DOMAIN q.edit = DOMAIN page.edit
          /\ Answered.kind # "commitEdit" /\ q.edit.applying = page.edit.applying
      BY <1>1, <2>3
    <2>6. Ends(q, L)
      BY <1>1, <2>2, <2>3, <2>5, ModelInstalled
    <2> QED BY <2>1, <2>6
  <1>6. /\ SameBut(page, failed, {"store"}) /\ failed.store = FailHoleFillChange(page.store)
        /\ failed.startedFor = page.startedFor /\ failed.fillRun = run
    <2> DEFINE t == FailHoleFillChange(page.store)
    <2>1. failed = [page EXCEPT !.store = t]
      OBVIOUS
    <2> HIDE DEF t, failed
    <2> QED BY <1>2, <2>1 DEF SameBut, PageFields, t
  <1>7. Holding(failed, run, TRUE, FALSE, L) /\ KeepsShown(page.store, failed.store)
        /\ Ends(failed, L)
    <2> DEFINE p == failed
    <2>1. SameBut(page, p, {"store"}) /\ p.store = FailHoleFillChange(page.store)
      BY <1>6
    <2> HIDE DEF p
    <2>2. Holding(p, page.fillRun, TRUE, FALSE, L) /\ KeepsShown(page.store, p.store)
          /\ Ends(p, L)
      BY <1>1, <2>1, FillChangeRefused
    <2> QED BY <2>2 DEF p
  <1>8. CASE r.kind = "commitFill" /\ Outcome = "failed"
    <2> DEFINE id == page.store.holeFill.candidate.id
               x == [failed EXCEPT !.store = ClearHoleFillCandidate(@)]
               q == ReleaseFillCandidate(x, id)
               yes == TRUE
               no == FALSE
    <2>1. PageReceives(q)
      BY <1>8 DEF ReceivesFillChange, Receives
    <2>2. Settled(page)
      BY DEF Answering, OnPage
    <2>3. /\ Holding(failed, run, yes, no, L) /\ failed.fillRun = run
          /\ KeepsShown(page.store, failed.store) /\ failed.startedFor = page.startedFor
      BY <1>6, <1>7
    <2>4. Ends(q, L)
      <3> HIDE DEF failed, id, run
      <3> QED BY <2>2, <2>3, FillDropped
    <2> QED BY <2>1, <2>4
  <1>9. CASE r.kind = "undoFill" /\ Outcome = "failed"
    <2>1. PageReceives(failed)
      BY <1>9 DEF ReceivesFillChange, Receives
    <2> QED BY <1>7, <2>1
  <1> QED BY <1>4, <1>5, <1>8, <1>9 DEF ReceivesFillChange, Receives

LEMMA TextureChangesAnswered ==
    ASSUME NEW L, Answering(L), HandledInv, VersionInv, ReceivesTextureChange
    PROVE  \E p : PageReceives(p) /\ Ends(p, L)
  <1> DEFINE s == page.store
             r == Answered
             run == page.fillRun
             revision == Head(toPage).revision
             e == [page.edit EXCEPT !.applying = FALSE]
             over == [page EXCEPT !.edit = e]
  <1>1. toPage # <<>> /\ r.kind \in {"commitEdit", "undoEdit"} /\ r.kind \in Changes
    BY DEF ReceivesTextureChange, Receives, Changes
  <1>2. /\ DOMAIN page = PageFields /\ FormedStore(s)
        /\ DOMAIN page.edit = {"applying", "record", "revision"}
    BY OnThePage DEF Holding, Ready, Formed
  <1>3. \A edit : DOMAIN edit = DOMAIN page.edit /\ edit.applying = FALSE => TextureEnds(edit, L)
    BY DEF TextureEnds
  <1>4. ASSUME NEW q, SameBut(page, q, {"edit"}), DOMAIN q.edit = DOMAIN page.edit,
               \/ q.edit.applying = FALSE
               \/ r.kind = "undoEdit" /\ q.edit = page.edit
        PROVE  Ends(q, L)
    <2>1. /\ q.store = page.store /\ q.startedFor = page.startedFor /\ q.setup = page.setup
          /\ q.repairLive = page.repairLive /\ q.fillLive = page.fillLive
          /\ q.fillRun = page.fillRun /\ q.stop = page.stop
      BY <1>4 DEF SameBut, PageFields
    <2>2. /\ KeepsAnalysis(page.store, q.store) /\ KeepsRepair(page.store, q.store)
          /\ KeepsHoleFill(page.store, q.store) /\ KeepsShown(page.store, q.store)
      BY <2>1 DEF KeepsAnalysis, KeepsRepair, KeepsHoleFill, KeepsShown
    <2>3. \/ TextureEnds(q.edit, L)
          \/ "commitEdit" \notin {r.kind} /\ q.edit.applying = page.edit.applying
      BY <1>3, <1>4
    <2>4. Sliced(page, q, {r.kind}, L, page.fillRun, TRUE, FALSE, q.fillRun, TRUE, FALSE)
      <3>1. r.kind \in {"commitEdit", "undoEdit"}
        BY <1>1
      <3> HIDE DEF r
      <3> QED BY <2>1, <2>2, <2>3, <3>1 DEF Sliced
    <2>5. SameBut(page, q, Inner) /\ FormedStore(q.store)
      BY <1>2, <1>4, <2>1 DEF SameBut, Inner
    <2> QED BY <1>4, <2>1, <2>2, <2>4, <2>5, AnswerEnds
  <1>5. SameBut(page, over, {"edit"}) /\ DOMAIN over.edit = DOMAIN page.edit
        /\ over.edit.applying = FALSE
    BY <1>2 DEF SameBut, PageFields
  <1>6. over = [page EXCEPT !.edit.applying = FALSE]
    BY <1>2
  <1>7. Ends(over, L)
    <2> DEFINE q == over
    <2>1. SameBut(page, q, {"edit"}) /\ DOMAIN q.edit = DOMAIN page.edit /\ q.edit.applying = FALSE
      BY <1>5
    <2> HIDE DEF q
    <2>2. Ends(q, L)
      BY <1>4, <2>1
    <2> QED BY <2>2 DEF q
  <1>8. CASE r.kind = "commitEdit" /\ Outcome = "result"
              /\ MayInstallEdit(page.store, Answered.subject.revision)
    <2> DEFINE t == ApplyGeometryEditResult(s, revision)
               g == [e EXCEPT !.record = revision, !.revision = revision]
               q == [page EXCEPT !.store = t, !.edit = g]
    <2>1. PageReceives(q)
      <3>1. q = [over EXCEPT !.store = ApplyGeometryEditResult(@, revision),
                             !.edit.record = revision, !.edit.revision = revision]
        BY <1>2 DEF PageFields
      <3> QED BY <1>6, <1>8, <3>1 DEF ReceivesTextureChange, Receives
    <2>2. Idle(t) /\ t.revision # page.store.revision
      <3>1. revision # s.revision
        BY <1>1, <1>8, AnotherRevision
      <3> HIDE DEF s, revision, t
      <3>2. Idle(t) /\ t.revision = revision
        BY <1>2, RevisionInstalled DEF t
      <3> QED BY <3>1, <3>2 DEF s
    <2>3. DOMAIN g = DOMAIN page.edit /\ TextureEnds(g, L)
      BY <1>2, <1>3
    <2> HIDE DEF t, g
    <2>4. /\ SameBut(page, q, {"store", "repairLive", "fillLive", "edit"}) /\ q.store = t
          /\ q.edit = g /\ q.fillLive = page.fillLive /\ q.repairLive = page.repairLive
      BY <1>2 DEF SameBut, PageFields
    <2> HIDE DEF q
    <2>5. DOMAIN q.edit = DOMAIN page.edit /\ TextureEnds(q.edit, L)
      BY <2>3, <2>4
    <2>6. Ends(q, L)
      BY <1>1, <2>2, <2>4, <2>5, ModelInstalled
    <2> QED BY <2>1, <2>6
  <1>9. CASE \/ r.kind = "commitEdit" /\ Outcome = "failed"
             \/ /\ r.kind = "commitEdit" /\ Outcome = "result"
                /\ ~MayInstallEdit(page.store, Answered.subject.revision)
    <2>1. PageReceives(over)
      BY <1>6, <1>9 DEF ReceivesTextureChange, Receives
    <2> QED BY <1>7, <2>1
  <1>10. CASE r.kind = "undoEdit" /\ Outcome = "result"
    <2> DEFINE t == ApplyUndoResult(s, revision)
               g == [page.edit EXCEPT !.record = 0]
               q == [page EXCEPT !.store = t, !.edit = g]
    <2>1. PageReceives(q)
      <3>1. q = [page EXCEPT !.store = ApplyUndoResult(@, revision), !.edit.record = 0]
        BY <1>2 DEF PageFields
      <3> QED BY <1>10, <3>1 DEF ReceivesTextureChange, Receives
    <2>2. Idle(t) /\ t.revision # page.store.revision
      <3>1. revision # s.revision
        BY <1>1, <1>10, AnotherRevision
      <3> HIDE DEF s, revision, t
      <3>2. Idle(t) /\ t.revision = revision
        BY <1>2, RevisionInstalled DEF t
      <3> QED BY <3>1, <3>2 DEF s
    <2>3. DOMAIN g = DOMAIN page.edit /\ g.applying = page.edit.applying
      BY <1>2
    <2> HIDE DEF t, g
    <2>4. /\ SameBut(page, q, {"store", "repairLive", "fillLive", "edit"}) /\ q.store = t
          /\ q.edit = g /\ q.fillLive = page.fillLive /\ q.repairLive = page.repairLive
      BY <1>2 DEF SameBut, PageFields
    <2> HIDE DEF q
    <2>5. DOMAIN q.edit = DOMAIN page.edit
          /\ Answered.kind # "commitEdit" /\ q.edit.applying = page.edit.applying
      BY <1>10, <2>3, <2>4
    <2>6. Ends(q, L)
      BY <1>1, <2>2, <2>4, <2>5, ModelInstalled
    <2> QED BY <2>1, <2>6
  <1>11. CASE r.kind = "undoEdit" /\ Outcome = "failed"
    <2>1. PageReceives(page)
      BY <1>11 DEF ReceivesTextureChange, Receives
    <2>2. SameBut(page, page, {"edit"})
      BY <1>2 DEF SameBut
    <2> QED BY <1>4, <1>11, <2>1, <2>2
  <1> QED BY <1>8, <1>9, <1>10, <1>11 DEF ReceivesTextureChange, Receives
-----------------------------------------------------------------------------
(* Where each build and fill is, and what the answers on their way say of   *)
(* the candidates. w is what waits for the worker, S what it serves, A what *)
(* waits for the page, and held the document of the worker.                 *)

Once(w, S, A) ==
    /\ \A i, j \in 1 .. Len(w) : SameJob(w[i], w[j]) => i = j
    /\ \A r, x \in S : SameJob(r, x) => r = x
    /\ \A i, j \in 1 .. Len(A) : SameJob(A[i].request, A[j].request) => i = j
    /\ \A i \in 1 .. Len(w) : \A r \in S : ~SameJob(w[i], r)
    /\ \A i \in 1 .. Len(w) : \A j \in 1 .. Len(A) : ~SameJob(w[i], A[j].request)
    /\ \A r \in S : \A j \in 1 .. Len(A) : ~SameJob(r, A[j].request)

(* What waits, or failed, made no candidate. A build that is served may     *)
(* have registered its candidate, a fill may not.                           *)
Unbuilt(w, S, A, held) ==
    /\ \A i \in 1 .. Len(w) : ~MadeBy(w[i], held)
    /\ \A r \in S : r.kind = "fill" => ~MadeBy(r, held)
    /\ \A i \in 1 .. Len(A) : A[i].outcome = "failed" => ~MadeBy(A[i].request, held)

(* A candidate that the worker holds after a change was made since, and the *)
(* page hears of the change first.                                          *)
Behind(S, A, held) ==
    \A i \in 1 .. Len(A) : A[i].outcome = "result" =>
        /\ A[i].request.kind = "commitRepair" /\ held.repairCandidate.id # 0 =>
             \/ \E r \in S : r.kind = "build" /\ r.token = held.repairCandidate.id
             \/ \E j \in 1 .. Len(A) :
                  /\ i < j /\ A[j].request.kind = "build"
                  /\ A[j].request.token = held.repairCandidate.id
        /\ A[i].request.kind = "commitFill" /\ held.fillCandidate.id # 0 =>
             \E j \in 1 .. Len(A) :
               /\ i < j /\ A[j].request.kind = "fill"
               /\ A[j].request.token = held.fillCandidate.id

(* The worker calls a build cancelled only when the page did.               *)
HaveWords(A) ==
    \A i \in 1 .. Len(A) :
        A[i].outcome = "cancelled" /\ A[i].request.kind = "build" => Cancelled(A[i].request)

JobInv ==
    /\ Once(toWorker, serving, toPage) /\ Unbuilt(toWorker, serving, toPage, resident)
    /\ Behind(serving, toPage, resident) /\ HaveWords(toPage)

WorksInv == Works(page, page.fillRun, Settled(page), FALSE, UnderWay)

LEMMA HeardInOrder ==
    ASSUME HandledInv, JobInv, toPage # <<>>
    PROVE  Heard(Left)
  <1> DEFINE B == Tail(toPage)
             r == Answered
             L == Left
  <1>1. /\ toPage \in Seq(AnswersOf) /\ Head(toPage) = toPage[1] /\ r = toPage[1].request
    BY FirstAnswer
  <1>2. /\ 1 \in 1 .. Len(toPage)
        /\ \A i \in 1 .. Len(B) : i + 1 \in 1 .. Len(toPage) /\ B[i] = toPage[i + 1]
        /\ \A j \in 1 .. Len(toPage) : j # 1 => \E i \in 1 .. Len(B) : j = i + 1
    BY <1>1, AnswersLeft
  <1>3. /\ \A x \in Range(toWorker) : \E i \in 1 .. Len(toWorker) : toWorker[i] = x
        /\ \A x \in Range(B) : \E i \in 1 .. Len(B) : B[i] = x
        /\ \A i \in 1 .. Len(B) : B[i] \in Range(B)
    <2>1. toWorker \in Seq(Requests)
      BY DEF HandledInv, ChannelInv
    <2>2. DOMAIN toWorker = 1 .. Len(toWorker)
      <3> HIDE DEF Requests
      <3> QED BY <2>1
    <2>3. DOMAIN B = 1 .. Len(B)
      <3> HIDE DEF AnswersOf
      <3> QED BY <1>1
    <2> HIDE DEF B
    <2> QED BY <2>2, <2>3 DEF Range
  <1>4. \A j \in 1 .. Len(toPage) : j # 1 => toPage[j].request \in L
    <2> SUFFICES ASSUME NEW j \in 1 .. Len(toPage), j # 1 PROVE toPage[j].request \in L
      OBVIOUS
    <2>1. PICK i \in 1 .. Len(B) : j = i + 1
      BY <1>2
    <2>2. B[i] = toPage[j] /\ B[i] \in Range(B)
      BY <1>2, <1>3, <2>1
    <2> HIDE DEF B
    <2>3. B[i].request \in {a.request : a \in Range(B)}
      BY <2>2
    <2> QED BY <2>2, <2>3 DEF Left, B
  <1>5. \A x \in L : ~SameJob(r, x)
    <2> SUFFICES ASSUME NEW x \in L, SameJob(r, x) PROVE FALSE
      OBVIOUS
    <2>1. SameJob(x, r)
      BY DEF SameJob, IsJob
    <2>2. CASE x \in Range(toWorker)
      BY <1>1, <1>2, <1>3, <2>1, <2>2 DEF JobInv, Once
    <2>3. CASE x \in serving
      BY <1>1, <1>2, <2>1, <2>3 DEF JobInv, Once
    <2>4. CASE x \in {a.request : a \in Range(B)}
      <3>1. PICK i \in 1 .. Len(B) : x = B[i].request
        BY <1>3, <2>4
      <3>2. i + 1 \in 1 .. Len(toPage) /\ x = toPage[i + 1].request /\ i + 1 # 1
        <4>1. i + 1 # 1
          <5> HIDE DEF B
          <5> QED OBVIOUS
        <4> QED BY <1>2, <3>1, <4>1
      <3> QED BY <1>1, <1>2, <3>2 DEF JobInv, Once
    <2> QED BY <2>2, <2>3, <2>4 DEF Left
  <1>6. Outcome = "failed" => ~MadeBy(r, resident)
    BY <1>1, <1>2 DEF Outcome, JobInv, Unbuilt
  <1>7. Outcome = "cancelled" /\ r.kind = "build" => Cancelled(r)
    BY <1>1, <1>2 DEF Outcome, JobInv, HaveWords
  <1>8. Outcome = "result" => toPage[1].outcome = "result"
    BY <1>1 DEF Outcome
  <1>9. \A j \in 1 .. Len(toPage) : 1 < j => toPage[j].request \in L
    <2> HIDE DEF L
    <2> QED BY <1>4
  <1>10. serving \subseteq L
    BY DEF Left
  <1>11. Outcome = "result" /\ r.kind = "commitRepair" /\ resident.repairCandidate.id # 0
           => Pending("build", resident.repairCandidate.id, L)
    <2> HIDE DEF L
    <2> QED BY <1>1, <1>2, <1>8, <1>9, <1>10 DEF JobInv, Behind, Pending
  <1>12. Outcome = "result" /\ r.kind = "commitFill" /\ resident.fillCandidate.id # 0
           => Pending("fill", resident.fillCandidate.id, L)
    <2> HIDE DEF L
    <2> QED BY <1>1, <1>2, <1>8, <1>9 DEF JobInv, Behind, Pending
  <1> QED BY <1>5, <1>6, <1>7, <1>11, <1>12 DEF Heard

LEMMA PageHearsEnds ==
    ASSUME HandledInv, FillInv, VersionInv, JobInv, WorksInv, PageHears
    PROVE  \/ PageBecomes(page, toPage) /\ Ends(page, UnderWay)
           \/ \E p : toPage # <<>> /\ PageReceives(p) /\ Ends(p, Left)
  <1>1. CASE Imported
    <2>1. PageBecomes(page, toPage)
      BY <1>1 DEF Imported
    <2>2. Ends(page, UnderWay)
      <3> DEFINE shown == Settled(page)
                 no == FALSE
      <3>1. Works(page, page.fillRun, shown, no, UnderWay)
        BY DEF WorksInv
      <3> HIDE DEF shown, no
      <3>2. Holding(page, page.fillRun, shown, no, UnderWay)
        BY <3>1, PageHolds
      <3>3. \E due \in BOOLEAN :
              Holding(page, page.fillRun, Settled(page), due, UnderWay) /\ (due => PlanDue(page))
        <4>1. no \in BOOLEAN /\ ~no
          BY DEF no
        <4> QED BY <3>2, <4>1 DEF shown
      <3> QED BY <3>3 DEF Ends
    <2> QED BY <2>1, <2>2
  <1>2. CASE toPage # <<>>
    <2> DEFINE L == Left
    <2>1. Answering(L)
      BY <1>2, AnswerTaken DEF WorksInv
    <2>2. Heard(L)
      BY <1>2, HeardInOrder
    <2> HIDE DEF L
    <2> SUFFICES ASSUME ~Imported PROVE \E p : PageReceives(p) /\ Ends(p, L)
      BY <1>1, <1>2 DEF L
    <2> QED BY <2>1, <2>2, AnalysisAnswersEnd, PlanAnswersEnd, RepairAnswersEnd,
          ListingAnswersEnd, FillAnswersEnd, RepairChangesEnd, FillChangesAnswered,
          TextureChangesAnswered DEF PageHears
  <1>3. Imported \/ toPage # <<>>
    BY DEF PageHears, ReceivesAnalysis, ReceivesPlan, ReceivesRepairCandidate, ReceivesListing,
        ReceivesFill, ReceivesRepairChange, ReceivesFillChange, ReceivesTextureChange, Receives
  <1> QED BY <1>1, <1>2, <1>3
-----------------------------------------------------------------------------
(* From one handler of the page to the next.                                *)

(* The first answer has been heard.                                         *)
LEMMA JobsHeard ==
    ASSUME HandledInv, JobInv, toPage # <<>>, NEW B, B = Tail(toPage)
    PROVE  /\ Once(toWorker, serving, B) /\ Unbuilt(toWorker, serving, B, resident)
           /\ Behind(serving, B, resident) /\ HaveWords(B)
  <1>1. toPage \in Seq(AnswersOf)
    BY FirstAnswer
  <1>2. /\ \A i \in 1 .. Len(B) : i + 1 \in 1 .. Len(toPage) /\ B[i] = toPage[i + 1]
        /\ \A j \in 1 .. Len(toPage) : j # 1 => \E i \in 1 .. Len(B) : j = i + 1
    BY <1>1, AnswersLeft
  <1>3. Once(toWorker, serving, B)
    <2>1. \A i, j \in 1 .. Len(B) : i + 1 = j + 1 => i = j
      OBVIOUS
    <2>2. \A i, j \in 1 .. Len(B) : SameJob(B[i].request, B[j].request) => i = j
      BY <1>2, <2>1 DEF JobInv, Once
    <2>3. /\ \A i \in 1 .. Len(toWorker) : \A j \in 1 .. Len(B) : ~SameJob(toWorker[i], B[j].request)
          /\ \A r \in serving : \A j \in 1 .. Len(B) : ~SameJob(r, B[j].request)
      BY <1>2 DEF JobInv, Once
    <2> QED BY <2>2, <2>3 DEF JobInv, Once
  <1>4. Unbuilt(toWorker, serving, B, resident)
    BY <1>2 DEF JobInv, Unbuilt
  <1>5. HaveWords(B)
    BY <1>2 DEF JobInv, HaveWords
  <1>6. ASSUME NEW i \in 1 .. Len(B), NEW j \in 1 .. Len(toPage), i + 1 < j
        PROVE  \E k \in 1 .. Len(B) : i < k /\ B[k] = toPage[j]
    <2>1. PICK k \in 1 .. Len(B) : j = k + 1
      BY <1>2, <1>6
    <2> QED BY <1>2, <1>6, <2>1
  <1>7. Behind(serving, B, resident)
    <2> SUFFICES ASSUME NEW i \in 1 .. Len(B), B[i].outcome = "result"
                 PROVE  /\ B[i].request.kind = "commitRepair" /\ resident.repairCandidate.id # 0 =>
                             \/ \E r \in serving :
                                   r.kind = "build" /\ r.token = resident.repairCandidate.id
                             \/ \E k \in 1 .. Len(B) :
                                  /\ i < k /\ B[k].request.kind = "build"
                                  /\ B[k].request.token = resident.repairCandidate.id
                        /\ B[i].request.kind = "commitFill" /\ resident.fillCandidate.id # 0 =>
                             \E k \in 1 .. Len(B) :
                               /\ i < k /\ B[k].request.kind = "fill"
                               /\ B[k].request.token = resident.fillCandidate.id
      BY DEF Behind
    <2>1. i + 1 \in 1 .. Len(toPage) /\ B[i] = toPage[i + 1]
      BY <1>2
    <2> DEFINE n == i + 1
    <2>2. n \in 1 .. Len(toPage) /\ B[i] = toPage[n]
      BY <2>1
    <2>3. \A j \in 1 .. Len(toPage) : n < j => \E k \in 1 .. Len(B) : i < k /\ B[k] = toPage[j]
      BY <1>6
    <2> HIDE DEF n
    <2>4. CASE B[i].request.kind = "commitRepair" /\ resident.repairCandidate.id # 0
      <3>1. \/ \E r \in serving : r.kind = "build" /\ r.token = resident.repairCandidate.id
            \/ \E j \in 1 .. Len(toPage) :
                 /\ n < j /\ toPage[j].request.kind = "build"
                 /\ toPage[j].request.token = resident.repairCandidate.id
        BY <2>2, <2>4 DEF JobInv, Behind
      <3> QED BY <2>3, <2>4, <3>1
    <2>5. CASE B[i].request.kind = "commitFill" /\ resident.fillCandidate.id # 0
      <3>1. \E j \in 1 .. Len(toPage) :
               /\ n < j /\ toPage[j].request.kind = "fill"
               /\ toPage[j].request.token = resident.fillCandidate.id
        BY <2>2, <2>5 DEF JobInv, Behind
      <3> QED BY <2>3, <2>5, <3>1
    <2> QED BY <2>4, <2>5
  <1> QED BY <1>3, <1>4, <1>5, <1>7

(* What the handler posted is at the end of what waits.                     *)
LEMMA JobsPosted ==
    ASSUME NEW T, NEW w \in Seq(T), NEW U, NEW o \in Seq(U), NEW S, NEW A,
           Once(w, S, A), Unbuilt(w, S, A, resident), NewJobs(o),
           \A i \in 1 .. Len(w) : w[i] \in UnderWay, S \subseteq UnderWay,
           \A i \in 1 .. Len(A) : A[i].request \in UnderWay
    PROVE  Once(w \o o, S, A) /\ Unbuilt(w \o o, S, A, resident)
  <1> DEFINE v == w \o o
             n == Len(w)
  <1>1. \A i \in 1 .. Len(v) :
            \/ i \in 1 .. n /\ v[i] = w[i]
            \/ \E k \in 1 .. Len(o) : i = n + k /\ v[i] = o[k]
    <2>1. /\ n \in Nat /\ Len(o) \in Nat /\ Len(v) = n + Len(o)
          /\ \A i \in 1 .. n : v[i] = w[i]
          /\ \A k \in 1 .. Len(o) : v[n + k] = o[k]
      <3>1. /\ n \in Nat /\ Len(o) \in Nat /\ Len(v) = n + Len(o)
            /\ \A i \in 1 .. n + Len(o) : v[i] = IF i <= n THEN w[i] ELSE o[i - n]
        BY ConcatProperties
      <3> HIDE DEF v, n
      <3>2. \A i \in 1 .. n : i \in 1 .. n + Len(o) /\ i <= n
        BY <3>1
      <3>3. \A k \in 1 .. Len(o) : n + k \in 1 .. n + Len(o) /\ ~(n + k <= n) /\ (n + k) - n = k
        BY <3>1
      <3> QED BY <3>1, <3>2, <3>3
    <2> HIDE DEF v, n
    <2> SUFFICES ASSUME NEW i \in 1 .. Len(v), i \notin 1 .. n
                 PROVE  \E k \in 1 .. Len(o) : i = n + k /\ v[i] = o[k]
      BY <2>1
    <2>2. i - n \in 1 .. Len(o) /\ i = n + (i - n)
      BY <2>1
    <2> QED BY <2>1, <2>2
  <1>2. \A x, y : SameJob(x, y) => SameJob(y, x)
    BY DEF SameJob, IsJob
  <1>3. /\ \A i, j \in 1 .. Len(o) : SameJob(o[i], o[j]) => i = j
        /\ \A k \in 1 .. Len(o) : ~MadeBy(o[k], resident)
        /\ \A k \in 1 .. Len(o) : \A x \in UnderWay : ~SameJob(o[k], x)
    BY DEF NewJobs
  <1> HIDE DEF v, n
  <1>4. \A i, j \in 1 .. Len(v) : SameJob(v[i], v[j]) => i = j
    <2> SUFFICES ASSUME NEW i \in 1 .. Len(v), NEW j \in 1 .. Len(v), SameJob(v[i], v[j])
                 PROVE  i = j
      OBVIOUS
    <2>1. CASE i \in 1 .. n /\ v[i] = w[i]
      <3>1. j \in 1 .. n /\ v[j] = w[j]
        BY <1>1, <1>2, <1>3, <2>1 DEF n
      <3> QED BY <2>1, <3>1 DEF Once, n
    <2>2. ASSUME NEW k \in 1 .. Len(o), i = n + k, v[i] = o[k]
          PROVE  i = j
      <3>1. PICK m \in 1 .. Len(o) : j = n + m /\ v[j] = o[m]
        BY <1>1, <1>3, <2>2 DEF n
      <3>2. k = m
        BY <1>3, <2>2, <3>1
      <3> QED BY <2>2, <3>1, <3>2
    <2> QED BY <1>1, <2>1, <2>2
  <1>5. \A i \in 1 .. Len(v) : \A x \in UnderWay :
           (\A k \in 1 .. n : ~SameJob(w[k], x)) => ~SameJob(v[i], x)
    BY <1>1, <1>3
  <1>6. /\ \A r \in S : \A k \in 1 .. n : ~SameJob(w[k], r)
        /\ \A j \in 1 .. Len(A) : \A k \in 1 .. n : ~SameJob(w[k], A[j].request)
    BY DEF Once, n
  <1>7. Once(v, S, A)
    <2>1. \A i \in 1 .. Len(v) : \A r \in S : ~SameJob(v[i], r)
      BY <1>5, <1>6
    <2>2. \A i \in 1 .. Len(v) : \A j \in 1 .. Len(A) : ~SameJob(v[i], A[j].request)
      BY <1>5, <1>6
    <2> QED BY <1>4, <2>1, <2>2 DEF Once
  <1>8. Unbuilt(v, S, A, resident)
    BY <1>1, <1>3 DEF Unbuilt, n
  <1> QED BY <1>7, <1>8 DEF v

(* A token that nothing carries any more was waited for by nobody.          *)
LEMMA TokensSettled ==
    ASSUME NEW s, NEW t, NEW S, t.analysis = s.analysis, t.repair = s.repair,
           t.holeFill = s.holeFill, KeepsShown(s, t),
           t.analysisToken = Kept(s.analysisToken, "analysis", S),
           t.repairToken = Kept(s.repairToken, "repair", S),
           t.holeFillToken = Kept(s.holeFillToken, "fill", S)
    PROVE  /\ AnalysisEnds(s, S) => AnalysisEnds(t, S)
           /\ PlanEnds(s, S) => PlanEnds(t, S)
           /\ \A live, tools : RepairEnds(s, live, tools, S) => RepairEnds(t, live, tools, S)
           /\ \A run, tools, listed :
                FillEnds(s, run, tools, listed, S) => FillEnds(t, run, tools, listed, S)
  <1>1. /\ t.analysisToken \in {0, s.analysisToken} /\ t.repairToken \in {0, s.repairToken}
        /\ t.holeFillToken \in {0, s.holeFillToken}
    BY DEF Kept
  <1>2. /\ Pending("analyze", s.analysisToken, S) => t.analysisToken = s.analysisToken
        /\ Pending("plan", s.repairToken, S) => t.repairToken = s.repairToken
        /\ Pending("build", s.repairToken, S) => t.repairToken = s.repairToken
        /\ Pending("list", s.holeFillToken, S) => t.holeFillToken = s.holeFillToken
        /\ Pending("fill", s.holeFillToken, S) => t.holeFillToken = s.holeFillToken
    BY DEF Kept, Pending, Stream
  <1>3. Shown(t) = Shown(s)
    BY DEF Shown, Subject, KeepsShown
  <1>4. AnalysisEnds(s, S) => AnalysisEnds(t, S)
    BY <1>1, <1>2, <1>3 DEF AnalysisEnds
  <1>5. PlanEnds(s, S) => PlanEnds(t, S)
    BY <1>1, <1>2 DEF PlanEnds
  <1>6. ASSUME NEW live, NEW tools, RepairEnds(s, live, tools, S)
        PROVE  RepairEnds(t, live, tools, S)
    BY <1>1, <1>2, <1>6 DEF RepairEnds
  <1>7. ASSUME NEW run, NEW tools, NEW listed, FillEnds(s, run, tools, listed, S)
        PROVE  FillEnds(t, run, tools, listed, S)
    BY <1>1, <1>2, <1>3, <1>7 DEF FillEnds
  <1> QED BY <1>4, <1>5, <1>6, <1>7

(* The words that are kept are those that a request or a candidate may      *)
(* still ask for.                                                           *)
LEMMA FatesTold ==
    ASSUME NEW live, NEW fill, NEW run, NEW stops, NEW S,
           resident' = resident,
           words' = {w \in words \cup stops :
                       \/ \E r \in S : r.token = w[2] /\ Stream(r.kind) = w[1]
                       \/ w = <<"repair", resident.repairCandidate.id>>
                       \/ w = <<"fill", resident.fillCandidate.id>>},
           RepairFate(live, stops, S), FillFate(fill, run, stops, S),
           NEW none, none = {}
    PROVE  RepairFate(live, none, S)' /\ FillFate(fill, run, none, S)'
  <1> DEFINE b == resident.repairCandidate.id
             c == resident.fillCandidate.id
  <1>1. /\ <<"repair", b>> \in words \cup stops => <<"repair", b>> \in words'
        /\ <<"fill", c>> \in words \cup stops => <<"fill", c>> \in words'
    OBVIOUS
  <1>2. ASSUME NEW r \in S, r.kind = "fill", <<"fill", r.token>> \in words \cup stops
        PROVE  <<"fill", r.token>> \in words'
    <2> DEFINE w == <<"fill", r.token>>
    <2>1. r.token = w[2] /\ Stream(r.kind) = w[1]
      BY <1>2 DEF Stream
    <2> QED BY <1>2, <2>1
  <1>3. resident'.repairCandidate.id = b /\ resident'.fillCandidate.id = c
    OBVIOUS
  <1>4. RepairFate(live, none, S)'
    BY <1>1, <1>3 DEF RepairFate, Told
  <1>5. FillFate(fill, run, none, S)'
    BY <1>1, <1>2, <1>3 DEF FillFate, Told
  <1> QED BY <1>4, <1>5

LEMMA WorksSettle ==
    ASSUME HandledInv, NEW p, NEW L, Ends(p, L), L \subseteq UnderWay,
           NEW A, L = Range(toWorker) \cup serving \cup {a.request : a \in Range(A)},
           \A i \in 1 .. Len(A) : A[i].request \in L,
           Once(toWorker, serving, A), Unbuilt(toWorker, serving, A, resident),
           Behind(serving, A, resident), HaveWords(A), PageBecomes(p, A)
    PROVE  WorksInv' /\ JobInv'
  <1> DEFINE q == Effects(p)
             v == [q EXCEPT !.out = <<>>, !.stop = {}]
             R == Range(toWorker \o q.out) \cup serving \cup {a.request : a \in Range(A)}
  <1>1. Holding(q, q.fillRun, TRUE, FALSE, L) /\ Settled(q)
    <2>1. Bounded
      BY UnderWayIsBounded DEF HandledInv
    <2> HIDE DEF q
    <2> QED BY <2>1, EffectsEnd DEF q
  <1>2. /\ page' = WithLiveTokens(v, R) /\ toWorker' = toWorker \o q.out /\ toPage' = A
        /\ serving' = serving /\ resident' = resident
        /\ words' = {w \in words \cup q.stop :
                        \/ \E r \in R : r.token = w[2] /\ Stream(r.kind) = w[1]
                        \/ w = <<"repair", resident.repairCandidate.id>>
                        \/ w = <<"fill", resident.fillCandidate.id>>}
    BY DEF PageBecomes
  <1> HIDE DEF q
  <1>3. /\ DOMAIN q = PageFields /\ ShapedStore(q.store) /\ NewJobs(q.out)
        /\ Works(q, q.fillRun, TRUE, FALSE, Owed(q, L))
    BY <1>1 DEF Holding, Ready, Formed, FormedStore
  <1>4. PICK T : q.out \in Seq(T)
    BY <1>1 DEF Holding, Ready
  <1>5. toWorker \in Seq(Requests) /\ DOMAIN toWorker = 1 .. Len(toWorker)
    <2>1. toWorker \in Seq(Requests)
      BY DEF HandledInv, ChannelInv
    <2> HIDE DEF Requests
    <2> QED BY <2>1
  <1>6. Range(toWorker \o q.out) = Range(toWorker) \cup Range(q.out)
    <2> DEFINE U == T \cup Requests
    <2>1. toWorker \in Seq(U) /\ q.out \in Seq(U)
      <3>1. T \subseteq U /\ Requests \subseteq U
        OBVIOUS
      <3> HIDE DEF Requests, U
      <3> QED BY <1>4, <1>5, <3>1
    <2> HIDE DEF U
    <2> QED BY <2>1, RangeConcatenation
  <1>7. R = Owed(q, L)
    BY <1>6 DEF Owed
  <1>8. UnderWay' = R
    BY <1>2 DEF UnderWay
  <1>9. Once(toWorker', serving, A) /\ Unbuilt(toWorker', serving, A, resident)
    <2>1. /\ \A i \in 1 .. Len(toWorker) : toWorker[i] \in UnderWay
          /\ serving \subseteq UnderWay
      BY <1>5 DEF UnderWay, Range
    <2>2. \A i \in 1 .. Len(A) : A[i].request \in UnderWay
      OBVIOUS
    <2> HIDE DEF Requests
    <2> QED BY <1>2, <1>3, <1>4, <1>5, <2>1, <2>2, JobsPosted
  <1>10. /\ DOMAIN v = PageFields /\ v.store = q.store /\ v.fillRun = q.fillRun
         /\ v.fillLive = q.fillLive /\ v.repairLive = q.repairLive /\ v.edit = q.edit
         /\ v.setup = q.setup /\ v.startedFor = q.startedFor /\ v.stop = {}
    BY <1>3 DEF PageFields
  <1> HIDE DEF v, R
  <1> DEFINE a == Kept(v.store.analysisToken, "analysis", R)
             b == Kept(v.store.repairToken, "repair", R)
             c == Kept(v.store.holeFillToken, "fill", R)
             d == Kept(v.repairActive, "repair", R)
             e == Kept(v.fillActive, "fill", R)
             t == [v.store EXCEPT !.analysisToken = a, !.repairToken = b, !.holeFillToken = c]
  <1>11. page' = [v EXCEPT !.store = t, !.repairActive = d, !.fillActive = e]
    <2> HIDE DEF Kept
    <2> QED BY <1>2, <1>3, <1>10 DEF WithLiveTokens, PageFields, ShapedStore, StoreFields
  <1> HIDE DEF a, b, c, d, e
  <1>12. /\ t.revision = q.store.revision /\ t.part = q.store.part
         /\ t.analysis = q.store.analysis /\ t.repair = q.store.repair
         /\ t.holeFill = q.store.holeFill
         /\ t.analysisToken = a /\ t.repairToken = b /\ t.holeFillToken = c
    BY <1>3, <1>10 DEF ShapedStore, StoreFields
  <1> HIDE DEF t
  <1>13. /\ page'.store = t /\ page'.fillRun = q.fillRun /\ page'.fillLive = q.fillLive
         /\ page'.repairLive = q.repairLive /\ page'.edit = q.edit /\ page'.setup = q.setup
         /\ page'.startedFor = q.startedFor /\ page'.stop = {}
    BY <1>10, <1>11 DEF PageFields
  <1>14. Works(q, q.fillRun, TRUE, FALSE, R)
    BY <1>3, <1>7
  <1>15. Settled(page)' = TRUE
    BY <1>1, <1>12, <1>13 DEF Settled, Model, Shown, Subject
  <1>16. /\ AnalysisEnds(t, R) /\ PlanEnds(t, R) /\ RepairEnds(t, q.repairLive, q.setup.tools, R)
         /\ FillEnds(t, q.fillRun, q.setup.tools, TRUE, R)
    <2> DEFINE s == q.store
               yes == TRUE
    <2>1. /\ AnalysisEnds(s, R) /\ PlanEnds(s, R) /\ RepairEnds(s, q.repairLive, q.setup.tools, R)
          /\ FillEnds(s, q.fillRun, q.setup.tools, yes, R)
      BY <1>14 DEF Works
    <2>2. /\ t.analysis = s.analysis /\ t.repair = s.repair
          /\ t.holeFill = s.holeFill /\ KeepsShown(s, t)
          /\ t.analysisToken = Kept(s.analysisToken, "analysis", R)
          /\ t.repairToken = Kept(s.repairToken, "repair", R)
          /\ t.holeFillToken = Kept(s.holeFillToken, "fill", R)
      BY <1>10, <1>12 DEF KeepsShown, a, b, c
    <2> HIDE DEF s, yes
    <2>3. /\ AnalysisEnds(t, R) /\ PlanEnds(t, R) /\ RepairEnds(t, q.repairLive, q.setup.tools, R)
          /\ FillEnds(t, q.fillRun, q.setup.tools, yes, R)
      BY <2>1, <2>2, TokensSettled
    <2> QED BY <2>3 DEF yes
  <1>17. TextureEnds(q.edit, R)
    BY <1>14 DEF Works
  <1>18. /\ RepairFate(page.repairLive, page.stop, UnderWay)'
         /\ FillFate(page.fillLive, page.fillRun, page.stop, UnderWay)'
    <2>0. PICK live, fill, run, stops, none, Z :
             /\ live = q.repairLive /\ fill = q.fillLive /\ run = q.fillRun /\ stops = q.stop
             /\ none = {} /\ Z = R
      OBVIOUS
    <2>1. RepairFate(live, stops, Z) /\ FillFate(fill, run, stops, Z)
      BY <1>14, <2>0 DEF Works
    <2>2. none = {}
      BY <2>0
    <2>3. /\ resident' = resident
          /\ words' = {w \in words \cup stops :
                       \/ \E r \in Z : r.token = w[2] /\ Stream(r.kind) = w[1]
                       \/ w = <<"repair", resident.repairCandidate.id>>
                       \/ w = <<"fill", resident.fillCandidate.id>>}
      BY <1>2, <2>0
    <2>4. RepairFate(live, none, Z)' /\ FillFate(fill, run, none, Z)'
      BY <2>1, <2>2, <2>3, FatesTold
    <2>5. /\ page'.repairLive = live /\ page'.fillLive = fill /\ page'.fillRun = run
          /\ page'.stop = none /\ UnderWay' = Z
      BY <1>8, <1>13, <2>0
    <2>6. RepairFate(page.repairLive, page.stop, UnderWay)'
      BY <2>4, <2>5 DEF RepairFate, Told
    <2>7. FillFate(page.fillLive, page.fillRun, page.stop, UnderWay)'
      BY <2>4, <2>5 DEF FillFate, Told
    <2> QED BY <2>6, <2>7
  <1>19. WorksInv'
    BY <1>8, <1>13, <1>15, <1>16, <1>17, <1>18 DEF WorksInv, Works
  <1>20. HaveWords(A)'
    <2> SUFFICES ASSUME NEW i \in 1 .. Len(A), A[i].outcome = "cancelled",
                        A[i].request.kind = "build"
                 PROVE  Cancelled(A[i].request)'
      BY DEF HaveWords
    <2> DEFINE r == A[i].request
               w == <<Stream(r.kind), r.token>>
    <2>1. w \in words
      BY DEF HaveWords, Cancelled
    <2>2. r \in R
      BY <1>7 DEF Owed
    <2>3. r.token = w[2] /\ Stream(r.kind) = w[1]
      OBVIOUS
    <2> HIDE DEF r, w
    <2>4. w \in words'
      BY <1>2, <2>1, <2>2, <2>3
    <2> QED BY <2>4 DEF Cancelled, r, w
  <1>21. JobInv'
    BY <1>2, <1>9, <1>20 DEF JobInv
  <1> QED BY <1>19, <1>21

LEMMA PageStepWorks ==
    ASSUME HandledInv, FillInv, VersionInv, JobInv, WorksInv, UserActs \/ PageHears
    PROVE  WorksInv' /\ JobInv'
  <1>1. toPage \in Seq(AnswersOf) /\ ChannelInv
    BY DEF HandledInv, ChannelInv
  <1>2. \A i \in 1 .. Len(toPage) : toPage[i] \in Range(toPage)
    <2> HIDE DEF AnswersOf
    <2> QED BY <1>1 DEF Range
  <1>3. ASSUME NEW p, PageBecomes(p, toPage), Ends(p, UnderWay)
        PROVE  WorksInv' /\ JobInv'
    <2>1. \A i \in 1 .. Len(toPage) : toPage[i].request \in UnderWay
      BY <1>2 DEF UnderWay
    <2>2. UnderWay = Range(toWorker) \cup serving \cup {a.request : a \in Range(toPage)}
      BY DEF UnderWay
    <2> DEFINE L == UnderWay
               A == toPage
    <2>3. /\ Ends(p, L) /\ L \subseteq UnderWay /\ PageBecomes(p, A)
          /\ L = Range(toWorker) \cup serving \cup {a.request : a \in Range(A)}
          /\ \A i \in 1 .. Len(A) : A[i].request \in L
          /\ Once(toWorker, serving, A) /\ Unbuilt(toWorker, serving, A, resident)
          /\ Behind(serving, A, resident) /\ HaveWords(A)
      BY <1>3, <2>1, <2>2 DEF JobInv
    <2> HIDE DEF L, A
    <2> QED BY <2>3, WorksSettle
  <1>4. ASSUME toPage # <<>>, NEW p, PageReceives(p), Ends(p, Left)
        PROVE  WorksInv' /\ JobInv'
    <2> DEFINE L == Left
               A == Tail(toPage)
    <2>1. A \in Seq(AnswersOf) /\ DOMAIN A = 1 .. Len(A)
      <3> HIDE DEF AnswersOf
      <3> QED BY <1>1, <1>4
    <2>2. L = Range(toWorker) \cup serving \cup {a.request : a \in Range(A)}
      BY DEF Left
    <2>3. L \subseteq UnderWay
      BY <1>4, AnswerTaken DEF WorksInv, Answering
    <2>4. /\ Once(toWorker, serving, A) /\ Unbuilt(toWorker, serving, A, resident)
          /\ Behind(serving, A, resident) /\ HaveWords(A)
      BY <1>4, JobsHeard
    <2>5. PageBecomes(p, A) /\ Ends(p, L)
      BY <1>4 DEF PageReceives
    <2> HIDE DEF A
    <2>6. \A i \in 1 .. Len(A) : A[i].request \in L
      BY <2>1, <2>2 DEF Range
    <2> HIDE DEF L
    <2> QED BY <2>2, <2>3, <2>4, <2>5, <2>6, WorksSettle
  <1>5. CASE UserActs
    <2>1. page.startedFor # Nothing
      BY <1>5 DEF UserActs, UserDoes, UserMay, SelectsPart, RunsAnalysis, CancelsAnalysis, Replans,
          ChangesSelection, PreviewsRepair, CancelsRepair, DiscardsRepair, AppliesRepair,
          UndoesRepair, SelectsOpening, PreviewsFill, CancelsFillPreview, DiscardsFill,
          AppliesFill, UndoesFill, RetriesListing, AppliesTexture, UndoesTexture
    <2>2. Settled(page) = TRUE /\ Bounded
      BY <1>1, <2>1, UnderWayIsBounded DEF ChannelInv, Settled
    <2>3. OnPage(UnderWay)
      <3>1. Works(page, page.fillRun, TRUE, FALSE, UnderWay)
        BY <2>2 DEF WorksInv
      <3>2. Holding(page, page.fillRun, TRUE, FALSE, UnderWay)
        BY <3>1, PageHolds
      <3> QED BY <2>2, <3>2 DEF OnPage
    <2> QED BY <1>3, <1>5, <2>2, <2>3, UserEnds
  <1>6. CASE PageHears
    BY <1>3, <1>4, <1>6, PageHearsEnds
  <1> QED BY <1>5, <1>6
-----------------------------------------------------------------------------
(* What the worker does, which moves one request on.                        *)

(* The request r is in none of the places.                                  *)
Alone(r, w, S, A) ==
    /\ \A i \in 1 .. Len(w) : ~SameJob(w[i], r)
    /\ \A x \in S : ~SameJob(x, r)
    /\ \A i \in 1 .. Len(A) : ~SameJob(A[i].request, r)

LEMMA JobsTaken ==
    ASSUME HandledInv, JobInv, NEW r, TakesRequest(r)
    PROVE  /\ Once(toWorker', serving, toPage) /\ Alone(r, toWorker', serving, toPage)
           /\ Unbuilt(toWorker', serving, toPage, resident) /\ ~MadeBy(r, resident)
           /\ r \in UnderWay /\ toWorker' = Tail(toWorker)
           /\ Range(toWorker') \subseteq Range(toWorker)
           /\ Range(toWorker) \subseteq Range(toWorker') \cup {r}
  <1> DEFINE w == toWorker
             v == toWorker'
  <1>1. w \in Seq(Requests) /\ w # <<>> /\ r = Head(w) /\ v = Tail(w)
    BY DEF HandledInv, ChannelInv, TakesRequest
  <1>2. /\ Len(w) \in Nat /\ 1 \in 1 .. Len(w) /\ r = w[1] /\ Len(v) = Len(w) - 1
        /\ DOMAIN w = 1 .. Len(w) /\ DOMAIN v = 1 .. Len(v)
        /\ \A i \in 1 .. Len(v) : i + 1 \in 1 .. Len(w) /\ v[i] = w[i + 1]
    <2> HIDE DEF Requests, w, v
    <2> QED BY <1>1
  <1>3. \A j \in 1 .. Len(w) : j # 1 => \E i \in 1 .. Len(v) : j = i + 1
    <2> HIDE DEF w, v
    <2> SUFFICES ASSUME NEW j \in 1 .. Len(w), j # 1
                 PROVE  \E i \in 1 .. Len(v) : j = i + 1
      OBVIOUS
    <2>1. j - 1 \in 1 .. Len(v) /\ j = (j - 1) + 1
      BY <1>2
    <2> QED BY <2>1
  <1>4. Once(w, serving, toPage) /\ Unbuilt(w, serving, toPage, resident)
    BY DEF JobInv
  <1>5. \A x, y : SameJob(x, y) => SameJob(y, x)
    BY DEF SameJob, IsJob
  <1> HIDE DEF w, v
  <1>6. Range(v) \subseteq Range(w) /\ Range(w) \subseteq Range(v) \cup {r}
    <2>1. \A i \in 1 .. Len(v) : v[i] \in Range(w)
      BY <1>2 DEF Range
    <2>2. \A j \in 1 .. Len(w) : w[j] \in Range(v) \cup {r}
      <3> SUFFICES ASSUME NEW j \in 1 .. Len(w), j # 1 PROVE w[j] \in Range(v)
        BY <1>2
      <3>1. PICK i \in 1 .. Len(v) : j = i + 1
        BY <1>3
      <3>2. v[i] = w[j]
        BY <1>2, <3>1
      <3> QED BY <1>2, <3>2 DEF Range
    <2> QED BY <1>2, <2>1, <2>2 DEF Range
  <1>7. \A i \in 1 .. Len(v) : i + 1 # 1 /\ \A j \in 1 .. Len(v) : i + 1 = j + 1 => i = j
    BY <1>2
  <1>8. Once(v, serving, toPage)
    <2>1. \A i, j \in 1 .. Len(v) : SameJob(v[i], v[j]) => i = j
      BY <1>2, <1>4, <1>7 DEF Once
    <2>2. /\ \A i \in 1 .. Len(v) : \A x \in serving : ~SameJob(v[i], x)
          /\ \A i \in 1 .. Len(v) : \A j \in 1 .. Len(toPage) : ~SameJob(v[i], toPage[j].request)
      BY <1>2, <1>4 DEF Once
    <2> QED BY <1>4, <2>1, <2>2 DEF Once
  <1>9. Alone(r, v, serving, toPage)
    <2>1. \A i \in 1 .. Len(v) : ~SameJob(v[i], r)
      BY <1>2, <1>4, <1>7 DEF Once
    <2>2. /\ \A x \in serving : ~SameJob(x, r)
          /\ \A i \in 1 .. Len(toPage) : ~SameJob(toPage[i].request, r)
      BY <1>2, <1>4, <1>5 DEF Once
    <2> QED BY <2>1, <2>2 DEF Alone
  <1>10. Unbuilt(v, serving, toPage, resident) /\ ~MadeBy(r, resident)
    BY <1>2, <1>4 DEF Unbuilt
  <1>11. r \in UnderWay
    BY <1>2 DEF UnderWay, Range, w
  <1> QED BY <1>1, <1>6, <1>8, <1>9, <1>10, <1>11 DEF w, v

LEMMA JobLeft ==
    ASSUME NEW w, NEW Z, NEW A, NEW held, Once(w, Z, A), Unbuilt(w, Z, A, held),
           NEW r \in Z, NEW S, S = Z \ {r}
    PROVE  Once(w, S, A) /\ Alone(r, w, S, A) /\ Unbuilt(w, S, A, held)
  <1>1. \A x, y : SameJob(x, y) => SameJob(y, x)
    BY DEF SameJob, IsJob
  <1>2. Once(w, S, A) /\ Unbuilt(w, S, A, held)
    BY DEF Once, Unbuilt
  <1>3. Alone(r, w, S, A)
    BY <1>1 DEF Once, Alone
  <1> QED BY <1>2, <1>3

LEMMA JobServed ==
    ASSUME NEW w, NEW S, NEW A, NEW r, Once(w, S, A), Alone(r, w, S, A),
           Unbuilt(w, S, A, resident), ~MadeBy(r, resident)
    PROVE  Once(w, S \cup {r}, A) /\ Unbuilt(w, S \cup {r}, A, resident)
  <1>1. \A x, y : SameJob(x, y) => SameJob(y, x)
    BY DEF SameJob, IsJob
  <1>2. \A i \in 1 .. Len(A) : ~SameJob(r, A[i].request)
    BY <1>1 DEF Alone
  <1>3. \A x, y \in S \cup {r} : SameJob(x, y) => x = y
    BY <1>1 DEF Once, Alone
  <1> QED BY <1>2, <1>3 DEF Once, Alone, Unbuilt

LEMMA JobAnswered ==
    ASSUME NEW T, NEW A \in Seq(T), NEW w, NEW S, NEW a, NEW held,
           Once(w, S, A), Alone(a.request, w, S, A), Unbuilt(w, S, A, held), HaveWords(A),
           a.outcome = "failed" => ~MadeBy(a.request, held),
           a.outcome = "cancelled" /\ a.request.kind = "build" => Cancelled(a.request),
           NEW B, B = Append(A, a)
    PROVE  Once(w, S, B) /\ Unbuilt(w, S, B, held) /\ HaveWords(B)
  <1>1. \A x, y : SameJob(x, y) => SameJob(y, x)
    BY DEF SameJob, IsJob
  <1>2. /\ Len(A) \in Nat /\ Len(B) = Len(A) + 1
        /\ \A i \in 1 .. Len(B) : \/ i \in 1 .. Len(A) /\ B[i] = A[i]
                                  \/ i = Len(A) + 1 /\ B[i] = a
    OBVIOUS
  <1>3. \A i \in 1 .. Len(A) : ~SameJob(A[i].request, a.request) /\ ~SameJob(a.request, A[i].request)
    BY <1>1 DEF Alone
  <1>4. \A i, j \in 1 .. Len(B) : SameJob(B[i].request, B[j].request) => i = j
    <2> SUFFICES ASSUME NEW i \in 1 .. Len(B), NEW j \in 1 .. Len(B),
                        SameJob(B[i].request, B[j].request)
                 PROVE  i = j
      OBVIOUS
    <2>1. CASE i \in 1 .. Len(A) /\ B[i] = A[i]
      BY <1>2, <1>3, <2>1 DEF Once
    <2>2. CASE i = Len(A) + 1 /\ B[i] = a
      BY <1>2, <1>3, <2>2
    <2> QED BY <1>2, <2>1, <2>2
  <1>5. Once(w, S, B)
    BY <1>2, <1>4 DEF Once, Alone
  <1>6. Unbuilt(w, S, B, held)
    BY <1>2 DEF Unbuilt
  <1>7. HaveWords(B)
    BY <1>2 DEF HaveWords
  <1> QED BY <1>5, <1>6, <1>7

(* The worker holds less, or what the request r made.                       *)
LEMMA JobBuilt ==
    ASSUME NEW w, NEW S, NEW A, NEW held, NEW now, NEW r, Unbuilt(w, S, A, held),
           \A x : MadeBy(x, now) => MadeBy(x, held) \/ SameJob(x, r),
           \A i \in 1 .. Len(w) : ~SameJob(w[i], r),
           \A x \in S : x.kind = "fill" => ~SameJob(x, r),
           \A i \in 1 .. Len(A) : ~SameJob(A[i].request, r)
    PROVE  Unbuilt(w, S, A, now)
  BY DEF Unbuilt

(* A candidate held now was held before, or is made by what is served or    *)
(* answered last.                                                           *)
StaysBehind(S, A, held, Z, B, now, a) ==
    LET b == now.repairCandidate.id
        c == now.fillCandidate.id
    IN
    /\ \/ b = 0
       \/ \E x \in Z : x.kind = "build" /\ x.token = b
       \/ B = Append(A, a) /\ a.request.kind = "build" /\ a.request.token = b
       \/ /\ b = held.repairCandidate.id
          /\ \A x \in S : x.kind = "build" /\ x.token = b => x \in Z
    /\ \/ c \in {0, held.fillCandidate.id}
       \/ B = Append(A, a) /\ a.request.kind = "fill" /\ a.request.token = c
    /\ B = Append(A, a) /\ a.outcome = "result" =>
         /\ a.request.kind = "commitRepair" => b = 0
         /\ a.request.kind = "commitFill" => c = 0

LEMMA ChangeHeard ==
    ASSUME NEW T, NEW A \in Seq(T), NEW S, NEW held, Behind(S, A, held),
           NEW a, NEW B, B = A \/ B = Append(A, a), NEW Z, NEW now,
           StaysBehind(S, A, held, Z, B, now, a)
    PROVE  Behind(Z, B, now)
  <1> DEFINE b == now.repairCandidate.id
             c == now.fillCandidate.id
  <1>0. /\ \/ b = 0
           \/ \E x \in Z : x.kind = "build" /\ x.token = b
           \/ B = Append(A, a) /\ a.request.kind = "build" /\ a.request.token = b
           \/ /\ b = held.repairCandidate.id
              /\ \A x \in S : x.kind = "build" /\ x.token = b => x \in Z
        /\ \/ c \in {0, held.fillCandidate.id}
           \/ B = Append(A, a) /\ a.request.kind = "fill" /\ a.request.token = c
        /\ B = Append(A, a) /\ a.outcome = "result" =>
             /\ a.request.kind = "commitRepair" => b = 0
             /\ a.request.kind = "commitFill" => c = 0
    BY DEF StaysBehind
  <1>1. /\ Len(A) \in Nat
        /\ \A i \in 1 .. Len(B) : \/ i \in 1 .. Len(A) /\ B[i] = A[i]
                                  \/ B = Append(A, a) /\ i = Len(A) + 1 /\ B[i] = a
        /\ \A i \in 1 .. Len(A) : i \in 1 .. Len(B) /\ B[i] = A[i]
        /\ B = Append(A, a) => /\ Len(A) + 1 \in 1 .. Len(B) /\ B[Len(A) + 1] = a
                               /\ \A i \in 1 .. Len(A) : i < Len(A) + 1
    <2>1. CASE B = A
      <3>1. Len(A) \in Nat /\ Append(A, a) # A
        OBVIOUS
      <3> QED BY <2>1, <3>1
    <2>2. CASE B = Append(A, a)
      BY <2>2
    <2> QED BY <2>1, <2>2
  <1>2. ASSUME NEW i \in 1 .. Len(B), B[i].outcome = "result",
               B[i].request.kind = "commitRepair", b # 0
        PROVE  \/ \E r \in Z : r.kind = "build" /\ r.token = b
               \/ \E j \in 1 .. Len(B) :
                    i < j /\ B[j].request.kind = "build" /\ B[j].request.token = b
    <2>1. i \in 1 .. Len(A) /\ B[i] = A[i]
      BY <1>0, <1>1, <1>2
    <2>2. CASE b = held.repairCandidate.id
                 /\ \A x \in S : x.kind = "build" /\ x.token = b => x \in Z
      BY <1>1, <1>2, <2>1, <2>2 DEF Behind
    <2>3. CASE B = Append(A, a) /\ a.request.kind = "build" /\ a.request.token = b
      BY <1>1, <2>1, <2>3
    <2> QED BY <1>0, <1>2, <2>2, <2>3
  <1>3. ASSUME NEW i \in 1 .. Len(B), B[i].outcome = "result",
               B[i].request.kind = "commitFill", c # 0
        PROVE  \E j \in 1 .. Len(B) :
                  i < j /\ B[j].request.kind = "fill" /\ B[j].request.token = c
    <2>1. i \in 1 .. Len(A) /\ B[i] = A[i]
      BY <1>0, <1>1, <1>3
    <2>2. CASE c = held.fillCandidate.id
      BY <1>1, <1>3, <2>1, <2>2 DEF Behind
    <2>3. CASE B = Append(A, a) /\ a.request.kind = "fill" /\ a.request.token = c
      BY <1>1, <2>1, <2>3
    <2> QED BY <1>0, <1>3, <2>2, <2>3
  <1> QED BY <1>2, <1>3 DEF Behind

LEMMA WorkerStepWorks ==
    ASSUME WorksInv, page' = page, words' = words, NEW r, UnderWay' \subseteq UnderWay,
           UnderWay \subseteq UnderWay' \cup {r},
           r \in UnderWay' \/ r.kind \in Discards \cup {"cancelFill"},
           NEW b, b = resident'.repairCandidate.id, NEW c, c = resident'.fillCandidate.id,
           \/ b = 0 \/ Pending("build", b, UnderWay')
           \/ /\ b = resident.repairCandidate.id
              /\ r \in UnderWay' \/ r.kind # "discardRepair" \/ r.id # b,
           \/ c = 0 \/ Pending("fill", c, UnderWay')
           \/ /\ c = resident.fillCandidate.id
              /\ r \in UnderWay' \/ r.kind # "discardFill" \/ r.id # c
    PROVE  WorksInv'
  <1> DEFINE S == UnderWay
             kinds == {"discardRepair", "discardFill", "cancelFill"}
             s == page.store
             shown == Settled(page)
             tools == page.setup.tools
  <1>1. PICK Z : Z = UnderWay'
    OBVIOUS
  <1>2. Z \subseteq S /\ S \subseteq Z \cup {r} /\ (r \in Z \/ r.kind \in kinds)
    BY <1>1 DEF Discards
  <1>3. /\ AnalysisEnds(s, S) /\ PlanEnds(s, S) /\ RepairEnds(s, page.repairLive, tools, S)
        /\ FillEnds(s, page.fillRun, tools, shown, S) /\ TextureEnds(page.edit, S)
        /\ RepairFate(page.repairLive, page.stop, S)
        /\ FillFate(page.fillLive, page.fillRun, page.stop, S)
    BY DEF WorksInv, Works
  <1> HIDE DEF S, s, shown, tools
  <1>4. Alike(S, Z, kinds)
    BY <1>2 DEF Alike
  <1>5. \A kind, token : kind \notin kinds /\ Pending(kind, token, S) => Pending(kind, token, Z)
    BY <1>2 DEF Pending
  <1>6. /\ kinds \cap {"plan", "build", "commitRepair", "undoRepair"} = {}
        /\ kinds \cap {"list", "fill", "commitFill", "undoFill"} = {}
        /\ "analyze" \notin kinds /\ "plan" \notin kinds /\ "build" \notin kinds
        /\ "fill" \notin kinds /\ "commitEdit" \notin kinds
    OBVIOUS
  <1> HIDE DEF kinds
  <1>7. KeepsAnalysis(s, s) /\ KeepsRepair(s, s) /\ KeepsHoleFill(s, s) /\ KeepsShown(s, s)
    BY DEF KeepsAnalysis, KeepsRepair, KeepsHoleFill, KeepsShown
  <1>8. AnalysisEnds(s, Z) /\ PlanEnds(s, Z)
    BY <1>3, <1>4, <1>6, <1>7, SlicesKept
  <1>9. RepairEnds(s, page.repairLive, tools, Z)
    BY <1>3, <1>4, <1>6, <1>7, SlicesKept
  <1>10. FillEnds(s, page.fillRun, tools, shown, Z)
    BY <1>3, <1>4, <1>6, <1>7, SlicesKept
  <1>11. TextureEnds(page.edit, Z)
    BY <1>3, <1>4, <1>6 DEF TextureEnds, Claims, Alike
  <1>12. RepairFate(page.repairLive, page.stop, UnderWay)'
    <2>1. CASE b = 0 \/ Pending("build", b, Z)
      BY <1>1, <2>1 DEF RepairFate
    <2>2. CASE /\ b = resident.repairCandidate.id
               /\ r \in Z \/ r.kind # "discardRepair" \/ r.id # b
      <3>1. \A x \in S : x.kind = "discardRepair" /\ x.id = b => x \in Z
        BY <1>2, <2>2
      <3>2. Pending("build", b, S) => Pending("build", b, Z)
        BY <1>5, <1>6
      <3>3. b # 0 => \/ page.repairLive = b \/ Pending("build", b, Z)
                     \/ \E x \in Z : x.kind = "discardRepair" /\ x.id = b
                     \/ <<"repair", b>> \in words \cup page.stop
        BY <1>3, <2>2, <3>1, <3>2 DEF RepairFate, Told
      <3> QED BY <1>1, <3>3 DEF RepairFate, Told
    <2> QED BY <1>1, <2>1, <2>2
  <1>13. FillFate(page.fillLive, page.fillRun, page.stop, UnderWay)'
    <2>1. page.fillRun # 0 => page.fillLive = 0
      BY <1>3 DEF FillFate
    <2>2. \A x \in Z : x.kind = "fill" /\ x.token # page.fillRun
            => <<"fill", x.token>> \in words \cup page.stop
      BY <1>2, <1>3 DEF FillFate, Told
    <2>3. c # 0 => \/ page.fillLive = c \/ Pending("fill", c, Z)
                   \/ \E x \in Z : x.kind = "discardFill" /\ x.id = c
                   \/ <<"fill", c>> \in words \cup page.stop
      <3>1. CASE c = 0 \/ Pending("fill", c, Z)
        BY <3>1
      <3>2. CASE /\ c = resident.fillCandidate.id
                 /\ r \in Z \/ r.kind # "discardFill" \/ r.id # c
        <4>1. \A x \in S : x.kind = "discardFill" /\ x.id = c => x \in Z
          BY <1>2, <3>2
        <4>2. Pending("fill", c, S) => Pending("fill", c, Z)
          BY <1>5, <1>6
        <4> QED BY <1>3, <3>2, <4>1, <4>2 DEF FillFate, Told
      <3> QED BY <1>1, <3>1, <3>2
    <2> QED BY <1>1, <2>1, <2>2, <2>3 DEF FillFate, Told
  <1>14. Settled(page)' = shown
    BY DEF Settled, Model, shown
  <1>15. WorksInv'
    BY <1>1, <1>8, <1>9, <1>10, <1>11, <1>12, <1>13, <1>14 DEF WorksInv, Works, s, tools
  <1> QED BY <1>15

(* The worker answers r, and d is what it read.                             *)
LEMMA AnsweredWorks ==
    ASSUME HandledInv, JobInv, WorksInv, page' = page, words' = words,
           NEW r \in UnderWay, NEW outcome \in Outcomes, NEW n \in Nat,
           toPage' = Append(toPage, Answer(r, outcome, n)),
           NEW w, w = toWorker', NEW S, S = serving',
           Once(w, S, toPage), Alone(r, w, S, toPage), Unbuilt(w, S, toPage, resident),
           Range(w) \subseteq Range(toWorker), S \subseteq serving,
           serving \subseteq S \cup {r},
           NEW d, Range(toWorker) \subseteq Range(w) \cup {d}, d \in {r} \/ d.kind = "cancelFill",
           NEW b, b = resident'.repairCandidate.id, NEW c, c = resident'.fillCandidate.id,
           b \in {0, resident.repairCandidate.id},
           c \in {0, resident.fillCandidate.id} \/ (r.kind = "fill" /\ r.token = c),
           outcome = "failed" => ~MadeBy(r, resident),
           outcome = "cancelled" /\ r.kind = "build" => Cancelled(r),
           outcome = "result" /\ r.kind = "commitRepair" => b = 0,
           outcome = "result" /\ r.kind = "commitFill" => c = 0,
           outcome = "failed" => c = resident.fillCandidate.id
    PROVE  WorksInv' /\ JobInv'
  <1> DEFINE a == Answer(r, outcome, n)
             A == toPage
             B == Append(A, a)
             now == resident'
  <1>1. A \in Seq(AnswersOf)
    BY DEF HandledInv, ChannelInv
  <1>2. a.request = r /\ a.outcome = outcome /\ Range(B) = Range(A) \cup {a}
    <2> HIDE DEF a
    <2> QED BY AnswersArrive DEF a
  <1>3. UnderWay' = Range(w) \cup S \cup {x.request : x \in Range(A)} \cup {r}
    <2>1. UnderWay' = Range(w) \cup S \cup {x.request : x \in Range(B)}
      BY DEF UnderWay
    <2> HIDE DEF B
    <2> QED BY <1>2, <2>1
  <1>4. UnderWay' \subseteq UnderWay /\ UnderWay \subseteq UnderWay' \cup {d} /\ r \in UnderWay'
    <2> HIDE DEF B
    <2> QED BY <1>3 DEF UnderWay
  <1>5. WorksInv'
    <2>1. c = 0 \/ c = resident.fillCandidate.id \/ Pending("fill", c, UnderWay')
      BY <1>4 DEF Pending
    <2>2. /\ d \in UnderWay' \/ d.kind \in Discards \cup {"cancelFill"}
          /\ d \in UnderWay' \/ d.kind # "discardRepair"
          /\ d \in UnderWay' \/ d.kind # "discardFill"
      BY <1>4
    <2> QED BY <1>4, <2>1, <2>2, WorkerStepWorks
  <1>6. \A x : MadeBy(x, now) => MadeBy(x, resident) \/ SameJob(x, r)
    BY DEF MadeBy, SameJob, IsJob
  <1>7. Unbuilt(w, S, A, now)
    BY <1>6, JobBuilt DEF Alone
  <1>8. HaveWords(A) /\ Behind(serving, A, resident)
    BY DEF JobInv
  <1>9. a.outcome = "failed" => ~MadeBy(a.request, now)
    BY <1>2 DEF MadeBy
  <1>10. a.outcome = "cancelled" /\ a.request.kind = "build" => Cancelled(a.request)
    BY <1>2
  <1>11. toPage' = B /\ b = now.repairCandidate.id /\ c = now.fillCandidate.id
    OBVIOUS
  <1> HIDE DEF a, A, now, AnswersOf
  <1>12. Once(w, S, B) /\ Unbuilt(w, S, B, now) /\ HaveWords(B)
    BY <1>1, <1>2, <1>7, <1>8, <1>9, <1>10, JobAnswered DEF A
  <1>13. Behind(S, B, now)
    <2>1. \/ b = 0
          \/ B = Append(A, a) /\ a.request.kind = "build" /\ a.request.token = b
          \/ /\ b = resident.repairCandidate.id
             /\ \A x \in serving : x.kind = "build" /\ x.token = b => x \in S
      BY <1>2
    <2>2. \/ c \in {0, resident.fillCandidate.id}
          \/ B = Append(A, a) /\ a.request.kind = "fill" /\ a.request.token = c
      BY <1>2
    <2>3. a.outcome = "result" =>
             /\ a.request.kind = "commitRepair" => b = 0
             /\ a.request.kind = "commitFill" => c = 0
      BY <1>2
    <2>4. B = Append(A, a)
      OBVIOUS
    <2> HIDE DEF B
    <2>5. StaysBehind(serving, A, resident, S, B, now, a)
      BY <1>11, <2>1, <2>2, <2>3 DEF StaysBehind
    <2> QED BY <1>1, <1>8, <2>4, <2>5, ChangeHeard
  <1>15. HaveWords(toPage)'
    BY <1>11, <1>12 DEF HaveWords, Cancelled
  <1> QED BY <1>5, <1>11, <1>12, <1>13, <1>15 DEF JobInv, now

(* What is answered when it is read, or when its handler ends.              *)
LEMMA AnswerWorks ==
    ASSUME HandledInv, JobInv, WorksInv, page' = page, words' = words, NEW r,
           \/ TakesRequest(r) /\ serving' = serving
           \/ r \in serving /\ serving' = serving \ {r} /\ toWorker' = toWorker,
           NEW outcome \in Outcomes, NEW n \in Nat,
           toPage' = Append(toPage, Answer(r, outcome, n)),
           resident'.repairCandidate.id \in {0, resident.repairCandidate.id},
           \/ resident'.fillCandidate.id \in {0, resident.fillCandidate.id}
           \/ r.kind = "fill" /\ r.token = resident'.fillCandidate.id,
           outcome = "failed" =>
             /\ TakesRequest(r) \/ ~MadeBy(r, resident)
             /\ resident'.fillCandidate.id = resident.fillCandidate.id,
           outcome = "cancelled" /\ r.kind = "build" => Cancelled(r),
           outcome = "result" /\ r.kind = "commitRepair" => resident'.repairCandidate.id = 0,
           outcome = "result" /\ r.kind = "commitFill" => resident'.fillCandidate.id = 0
    PROVE  WorksInv' /\ JobInv'
  <1>1. PICK w, S, b, c : /\ w = toWorker' /\ S = serving' /\ b = resident'.repairCandidate.id
                          /\ c = resident'.fillCandidate.id
    OBVIOUS
  <1>2. /\ r \in UnderWay /\ Once(w, S, toPage) /\ Alone(r, w, S, toPage)
        /\ Unbuilt(w, S, toPage, resident) /\ Range(w) \subseteq Range(toWorker)
        /\ S \subseteq serving /\ serving \subseteq S \cup {r}
        /\ Range(toWorker) \subseteq Range(w) \cup {r}
        /\ TakesRequest(r) => ~MadeBy(r, resident)
    <2>1. CASE TakesRequest(r) /\ serving' = serving
      BY <1>1, <2>1, JobsTaken
    <2>2. CASE /\ r \in serving /\ serving' = serving \ {r} /\ toWorker' = toWorker
               /\ ~TakesRequest(r)
      <3>1. Once(w, serving, toPage) /\ Unbuilt(w, serving, toPage, resident)
        BY <1>1, <2>2 DEF JobInv
      <3>2. Once(w, S, toPage) /\ Alone(r, w, S, toPage) /\ Unbuilt(w, S, toPage, resident)
        BY <1>1, <2>2, <3>1, JobLeft
      <3> QED BY <1>1, <2>2, <3>2 DEF UnderWay
    <2>3. TakesRequest(r) => r = Head(toWorker)
      BY DEF TakesRequest
    <2>4. CASE /\ r \in serving /\ serving' = serving \ {r} /\ toWorker' = toWorker
               /\ TakesRequest(r)
      <3>1. Len(Tail(toWorker)) # Len(toWorker)
        <4>1. toWorker \in Seq(Requests) /\ toWorker # <<>>
          BY <2>4 DEF TakesRequest, HandledInv, ChannelInv
        <4> HIDE DEF Requests
        <4> QED BY <4>1
      <3> QED BY <2>4, <3>1 DEF TakesRequest
    <2> QED BY <2>1, <2>2, <2>4
  <1>3. outcome = "failed" => ~MadeBy(r, resident)
    BY <1>2
  <1>4. \/ c \in {0, resident.fillCandidate.id} \/ (r.kind = "fill" /\ r.token = c)
    BY <1>1
  <1>5. b \in {0, resident.repairCandidate.id}
    BY <1>1
  <1>6. /\ outcome = "result" /\ r.kind = "commitRepair" => b = 0
        /\ outcome = "result" /\ r.kind = "commitFill" => c = 0
        /\ outcome = "failed" => c = resident.fillCandidate.id
    BY <1>1
  <1>7. r \in {r} \/ r.kind = "cancelFill"
    OBVIOUS
  <1> QED BY <1>1, <1>2, <1>3, <1>4, <1>5, <1>6, <1>7, AnsweredWorks

LEMMA AnswersWork ==
    ASSUME HandledInv, JobInv, WorksInv, NEW r,
           \/ Refuses
           \/ ListsOpenings
           \/ r \in serving /\ (ServingFails(r) \/ ReportsOrPlans(r) \/ BuildsRepair(r))
    PROVE  WorksInv' /\ JobInv'
  <1>1. /\ "failed" \in Outcomes /\ "cancelled" \in Outcomes /\ "result" \in Outcomes /\ 0 \in Nat
    BY DEF Outcomes
  <1>2. ASSUME NEW x, page' = page, words' = words, resident' = resident,
               \/ TakesRequest(x) /\ serving' = serving
               \/ x \in serving /\ serving' = serving \ {x} /\ toWorker' = toWorker,
               NEW outcome \in Outcomes, Answers(x, outcome, 0),
               outcome = "failed" => TakesRequest(x) \/ ~MadeBy(x, resident),
               outcome = "cancelled" => Cancelled(x),
               outcome = "result" => x.kind \notin {"commitRepair", "commitFill"}
        PROVE  WorksInv' /\ JobInv'
    <2>1. toPage' = Append(toPage, Answer(x, outcome, 0))
      BY <1>2 DEF Answers
    <2> QED BY <1>1, <1>2, <2>1, AnswerWorks
  <1>3. CASE Refuses
    <2>1. PICK x \in Range(toWorker) :
            /\ TakesRequest(x) /\ Answers(x, IF SeesWord(x) THEN "cancelled" ELSE "failed", 0)
            /\ UNCHANGED <<page, serving, words, resident>>
      BY <1>3 DEF Refuses
    <2> DEFINE outcome == IF SeesWord(x) THEN "cancelled" ELSE "failed"
    <2>2. outcome \in Outcomes /\ Answers(x, outcome, 0) /\ outcome # "result"
          /\ (outcome = "cancelled" => Cancelled(x))
      BY <1>1, <2>1 DEF SeesWord
    <2>3. page' = page /\ words' = words /\ resident' = resident /\ serving' = serving
      BY <2>1
    <2> HIDE DEF outcome
    <2> QED BY <1>2, <2>1, <2>2, <2>3
  <1>4. CASE ListsOpenings
    <2>1. PICK x \in Range(toWorker) :
            /\ TakesRequest(x) /\ x.kind = "list" /\ Answers(x, "result", 0)
            /\ page' = page /\ words' = words /\ resident' = resident /\ serving' = serving
      BY <1>4 DEF ListsOpenings
    <2> QED BY <1>1, <1>2, <2>1
  <1>5. CASE r \in serving /\ ServingFails(r)
    <2> DEFINE outcome == IF SeesWord(r) THEN "cancelled" ELSE "failed"
    <2>1. outcome \in Outcomes /\ Answers(r, outcome, 0) /\ outcome # "result"
          /\ (outcome = "cancelled" => Cancelled(r))
      BY <1>1, <1>5 DEF SeesWord, ServingFails
    <2>2. /\ page' = page /\ words' = words /\ resident' = resident
          /\ serving' = serving \ {r} /\ toWorker' = toWorker /\ Free
      BY <1>5 DEF ServingFails
    <2>3. ~MadeBy(r, resident)
      BY <1>5, <2>2 DEF MadeBy, JobInv, Unbuilt, Free, Registered
    <2> HIDE DEF outcome
    <2> QED BY <1>2, <1>5, <2>1, <2>2, <2>3
  <1>6. CASE r \in serving /\ ReportsOrPlans(r)
    BY <1>1, <1>2, <1>6 DEF ReportsOrPlans
  <1>7. CASE r \in serving /\ BuildsRepair(r)
    <2> DEFINE outcome == IF Cancelled(r) THEN "cancelled" ELSE "result"
    <2>1. outcome \in Outcomes /\ Answers(r, outcome, 0) /\ outcome # "failed"
          /\ (outcome = "cancelled" => Cancelled(r))
      BY <1>1, <1>7 DEF BuildsRepair
    <2>2. /\ page' = page /\ words' = words /\ resident' = resident /\ r.kind = "build"
          /\ serving' = serving \ {r} /\ toWorker' = toWorker
      BY <1>7 DEF BuildsRepair, Registered
    <2> HIDE DEF outcome
    <2> QED BY <1>2, <1>7, <2>1, <2>2
  <1> QED BY <1>3, <1>4, <1>5, <1>6, <1>7

LEMMA ChangesWork ==
    ASSUME HandledInv, VersionInv, JobInv, WorksInv, ChangesDocument
    PROVE  WorksInv' /\ JobInv'
  <1>1. PICK r \in Range(toWorker) :
          /\ TakesRequest(r) /\ r.kind \in Changes
          /\ page' = page /\ words' = words /\ serving' = serving
          /\ \/ Answers(r, "failed", 0) /\ resident' = resident
             \/ /\ resident'.repairCandidate
                     = IF r.kind \in {"commitRepair", "commitEdit"} THEN NoCandidate
                       ELSE resident.repairCandidate
                /\ resident'.fillCandidate = NoCandidate
                /\ Answers(r, "result", resident.revision + 1)
    BY DEF ChangesDocument
  <1>2. "failed" \in Outcomes /\ "result" \in Outcomes /\ 0 \in Nat /\ resident.revision + 1 \in Nat
        /\ r.kind # "build" /\ r.kind # "fill" /\ NoCandidate.id = 0
    BY <1>1 DEF Outcomes, VersionInv, Changes, NoCandidate, Candidate
  <1>3. CASE Answers(r, "failed", 0) /\ resident' = resident
    <2>1. toPage' = Append(toPage, Answer(r, "failed", 0))
      BY <1>3 DEF Answers
    <2> QED BY <1>1, <1>2, <1>3, <2>1, AnswerWorks
  <1>4. CASE /\ resident'.repairCandidate
                  = IF r.kind \in {"commitRepair", "commitEdit"} THEN NoCandidate
                    ELSE resident.repairCandidate
             /\ resident'.fillCandidate = NoCandidate
             /\ Answers(r, "result", resident.revision + 1)
    <2>1. toPage' = Append(toPage, Answer(r, "result", resident.revision + 1))
      BY <1>4 DEF Answers
    <2>2. /\ resident'.repairCandidate.id \in {0, resident.repairCandidate.id}
          /\ resident'.fillCandidate.id = 0
          /\ r.kind = "commitRepair" => resident'.repairCandidate.id = 0
      BY <1>2, <1>4
    <2> QED BY <1>1, <1>2, <2>1, <2>2, AnswerWorks
  <1> QED BY <1>1, <1>3, <1>4

LEMMA BuildsFillWorks ==
    ASSUME HandledInv, JobInv, WorksInv, NEW r \in serving, BuildsFill(r)
    PROVE  WorksInv' /\ JobInv'
  <1>1. /\ page' = page /\ words' = words /\ toWorker' = toWorker /\ r.kind = "fill"
        /\ serving' = serving \ {r} /\ toPage' = Append(toPage, Answer(r, "result", 0))
        /\ resident' = [resident EXCEPT !.fillCandidate = Candidate(r.token, r.subject, r.opening)]
    BY DEF BuildsFill, Answers
  <1>2. "result" \in Outcomes /\ 0 \in Nat
    BY DEF Outcomes
  <1>3. /\ resident'.repairCandidate.id = resident.repairCandidate.id
        /\ resident'.fillCandidate.id = r.token \/ resident'.fillCandidate.id = resident.fillCandidate.id
    BY <1>1 DEF Candidate
  <1> QED BY <1>1, <1>2, <1>3, AnswerWorks

LEMMA BeginsServingWorks ==
    ASSUME HandledInv, JobInv, WorksInv, BeginsServing
    PROVE  WorksInv' /\ JobInv'
  <1>1. PICK r \in Range(toWorker) :
          /\ TakesRequest(r) /\ serving' = serving \cup {r}
          /\ page' = page /\ words' = words /\ toPage' = toPage /\ resident' = resident
    BY DEF BeginsServing
  <1>2. PICK w, S, A : w = toWorker' /\ S = serving /\ A = toPage
    OBVIOUS
  <1>3. /\ Once(w, S, A) /\ Alone(r, w, S, A) /\ Unbuilt(w, S, A, resident)
        /\ ~MadeBy(r, resident) /\ r \in UnderWay /\ Range(w) \subseteq Range(toWorker)
        /\ Range(toWorker) \subseteq Range(w) \cup {r}
    BY <1>1, <1>2, JobsTaken
  <1>4. Once(w, S \cup {r}, A) /\ Unbuilt(w, S \cup {r}, A, resident)
    BY <1>3, JobServed
  <1>5. UnderWay' = UnderWay
    BY <1>1, <1>2, <1>3 DEF UnderWay
  <1>6. WorksInv'
    <2>1. /\ UnderWay' \subseteq UnderWay /\ UnderWay \subseteq UnderWay' \cup {r}
          /\ r \in UnderWay'
          /\ resident.repairCandidate.id = resident'.repairCandidate.id
          /\ resident.fillCandidate.id = resident'.fillCandidate.id
      BY <1>1, <1>3, <1>5
    <2> QED BY <1>1, <2>1, WorkerStepWorks
  <1>7. Behind(serving', toPage', resident') /\ HaveWords(toPage)'
    BY <1>1, SMTT(20) DEF JobInv, Behind, HaveWords, Cancelled
  <1> QED BY <1>1, <1>2, <1>4, <1>6, <1>7 DEF JobInv

LEMMA DiscardsWork ==
    ASSUME HandledInv, JobInv, WorksInv, DiscardsCandidate
    PROVE  WorksInv' /\ JobInv'
  <1>1. PICK r \in Range(toWorker) :
          /\ TakesRequest(r) /\ r.kind \in Discards
          /\ resident' =
               IF r.kind = "discardRepair" /\ resident.repairCandidate.id = r.id
               THEN [resident EXCEPT !.repairCandidate = NoCandidate]
               ELSE IF r.kind = "discardFill" /\ resident.fillCandidate.id = r.id
               THEN [resident EXCEPT !.fillCandidate = NoCandidate]
               ELSE resident
          /\ page' = page /\ words' = words /\ toPage' = toPage /\ serving' = serving
    BY DEF DiscardsCandidate
  <1>2. PICK w, S, A, b, c : /\ w = toWorker' /\ S = serving /\ A = toPage
                             /\ b = resident'.repairCandidate.id
                             /\ c = resident'.fillCandidate.id
    OBVIOUS
  <1>3. /\ Once(w, S, A) /\ Alone(r, w, S, A) /\ Unbuilt(w, S, A, resident)
        /\ r \in UnderWay /\ Range(w) \subseteq Range(toWorker)
        /\ Range(toWorker) \subseteq Range(w) \cup {r}
    BY <1>1, <1>2, JobsTaken
  <1>4. /\ b = 0 \/ (b = resident.repairCandidate.id /\ (r.kind # "discardRepair" \/ r.id # b))
        /\ c = 0 \/ (c = resident.fillCandidate.id /\ (r.kind # "discardFill" \/ r.id # c))
    <2>1. NoCandidate.id = 0
      BY DEF NoCandidate, Candidate
    <2> HIDE DEF NoCandidate
    <2> QED BY <1>1, <1>2, <2>1
  <1>5. WorksInv'
    <2>1. UnderWay' \subseteq UnderWay /\ UnderWay \subseteq UnderWay' \cup {r}
      BY <1>1, <1>2, <1>3 DEF UnderWay
    <2> QED BY <1>1, <1>2, <1>4, <2>1, WorkerStepWorks
  <1>6. Unbuilt(w, S, A, resident')
    <2>1. \A x : MadeBy(x, resident') => MadeBy(x, resident) \/ SameJob(x, r)
      BY <1>2, <1>4 DEF MadeBy
    <2> QED BY <1>3, <2>1, JobBuilt DEF Alone
  <1>7. Behind(S, A, resident')
    <2>1. A \in Seq(AnswersOf) /\ Behind(S, A, resident)
      BY <1>2 DEF HandledInv, ChannelInv, JobInv
    <2>2. PICK a : a = Answer(r, "failed", 0)
      OBVIOUS
    <2>3. StaysBehind(S, A, resident, S, A, resident', a)
      BY <1>2, <1>4, <2>2 DEF StaysBehind, Answer
    <2> QED BY <2>1, <2>3, ChangeHeard
  <1>8. HaveWords(toPage)'
    BY <1>1 DEF JobInv, HaveWords, Cancelled
  <1> QED BY <1>1, <1>2, <1>3, <1>5, <1>6, <1>7, <1>8 DEF JobInv

LEMMA RegistersRepairWorks ==
    ASSUME HandledInv, JobInv, WorksInv, NEW r \in serving, RegistersRepair(r)
    PROVE  WorksInv' /\ JobInv'
  <1>1. /\ r.kind = "build" /\ page' = page /\ words' = words /\ toPage' = toPage
        /\ serving' = serving /\ toWorker' = toWorker
        /\ resident' = [resident EXCEPT !.repairCandidate = Candidate(r.token, r.subject, 0)]
    BY DEF RegistersRepair
  <1>2. PICK b, c : /\ b = resident'.repairCandidate.id /\ c = resident'.fillCandidate.id
    OBVIOUS
  <1>3. /\ b = r.token \/ b = resident.repairCandidate.id
        /\ c = resident.fillCandidate.id
    BY <1>1, <1>2 DEF Candidate
  <1>4. UnderWay' = UnderWay /\ r \in UnderWay
    BY <1>1 DEF UnderWay
  <1>5. WorksInv'
    <2>1. b = 0 \/ Pending("build", b, UnderWay') \/ b = resident.repairCandidate.id
      BY <1>1, <1>3, <1>4 DEF Pending
    <2> QED BY <1>1, <1>2, <1>3, <1>4, <2>1, WorkerStepWorks
  <1>6. Unbuilt(toWorker, serving, toPage, resident')
    <2>1. \A x : MadeBy(x, resident') => MadeBy(x, resident) \/ SameJob(x, r)
      BY <1>1, <1>2, <1>3 DEF MadeBy, SameJob, IsJob
    <2>2. \A x, y : SameJob(x, y) => SameJob(y, x)
      BY DEF SameJob, IsJob
    <2>3. /\ \A i \in 1 .. Len(toWorker) : ~SameJob(toWorker[i], r)
          /\ \A i \in 1 .. Len(toPage) : ~SameJob(toPage[i].request, r)
      BY <2>2 DEF JobInv, Once
    <2>4. \A x \in serving : x.kind = "fill" => ~SameJob(x, r)
      BY <1>1 DEF SameJob
    <2>5. Unbuilt(toWorker, serving, toPage, resident)
      BY DEF JobInv
    <2> QED BY <2>1, <2>3, <2>4, <2>5, JobBuilt
  <1>7. Behind(serving, toPage, resident')
    <2>1. toPage \in Seq(AnswersOf) /\ Behind(serving, toPage, resident)
      BY DEF HandledInv, ChannelInv, JobInv
    <2>2. PICK a : a = Answer(r, "failed", 0)
      OBVIOUS
    <2>3. StaysBehind(serving, toPage, resident, serving, toPage, resident', a)
      BY <1>1, <1>2, <1>3, <2>2 DEF StaysBehind, Answer
    <2> QED BY <2>1, <2>3, ChangeHeard
  <1>8. HaveWords(toPage)'
    BY <1>1 DEF JobInv, HaveWords, Cancelled
  <1> QED BY <1>1, <1>5, <1>6, <1>7, <1>8 DEF JobInv

LEMMA StopsFillWorks ==
    ASSUME HandledInv, JobInv, WorksInv, StopsFill
    PROVE  WorksInv' /\ JobInv'
  <1>1. PICK r, stopped :
          /\ r \in Range(toWorker)
          /\ stopped = {x \in serving : x.kind = "fill" /\ x.token = r.token}
          /\ TakesRequest(r) /\ r.kind = "cancelFill"
          /\ serving' = serving \ stopped
          /\ IF stopped = {} THEN toPage' = toPage
             ELSE \E x \in stopped : Answers(x, "cancelled", 0)
          /\ page' = page /\ words' = words /\ resident' = resident
    BY DEF StopsFill
  <1>2. PICK w, S, A : w = toWorker' /\ S = serving' /\ A = toPage
    OBVIOUS
  <1>3. /\ Once(w, serving, A) /\ Unbuilt(w, serving, A, resident) /\ r \in UnderWay
        /\ Range(w) \subseteq Range(toWorker) /\ Range(toWorker) \subseteq Range(w) \cup {r}
    BY <1>1, <1>2, JobsTaken
  <1>4. CASE stopped = {}
    <2>1. S = serving /\ toPage' = A
      BY <1>1, <1>2, <1>4
    <2>2. UnderWay' \subseteq UnderWay /\ UnderWay \subseteq UnderWay' \cup {r}
      BY <1>2, <1>3, <2>1 DEF UnderWay
    <2>3. r.kind # "discardRepair" /\ r.kind # "discardFill"
          /\ resident.repairCandidate.id = resident'.repairCandidate.id
          /\ resident.fillCandidate.id = resident'.fillCandidate.id
      BY <1>1
    <2>4. WorksInv'
      BY <1>1, <2>2, <2>3, WorkerStepWorks
    <2>5. Behind(serving', toPage', resident') /\ HaveWords(toPage)'
      BY <1>1, <1>2, <2>1 DEF JobInv, Behind, HaveWords, Cancelled
    <2> QED BY <1>1, <1>2, <1>3, <2>1, <2>4, <2>5 DEF JobInv
  <1>5. CASE stopped # {}
    <2>1. PICK x \in stopped : Answers(x, "cancelled", 0)
      BY <1>1, <1>5
    <2>2. x \in serving /\ x.kind = "fill" /\ stopped = {x}
      <3>1. x \in serving /\ x.kind = "fill" /\ x.token = r.token
        BY <1>1
      <3>2. \A y \in stopped : y = x
        BY <1>1, <1>3, <3>1 DEF Once, SameJob, IsJob
      <3> QED BY <3>1, <3>2
    <2>3. S = serving \ {x}
      BY <1>1, <1>2, <2>2
    <2>4. Once(w, S, A) /\ Alone(x, w, S, A) /\ Unbuilt(w, S, A, resident)
      BY <1>3, <2>2, <2>3, JobLeft
    <2>5. /\ "cancelled" \in Outcomes /\ 0 \in Nat /\ x \in UnderWay
          /\ toPage' = Append(toPage, Answer(x, "cancelled", 0))
          /\ S \subseteq serving /\ serving \subseteq S \cup {x}
      BY <2>1, <2>2, <2>3 DEF Outcomes, Answers, UnderWay
    <2>6. /\ resident.repairCandidate.id = resident'.repairCandidate.id
          /\ resident.fillCandidate.id = resident'.fillCandidate.id
      BY <1>1
    <2>7. PICK b, c : b = resident'.repairCandidate.id /\ c = resident'.fillCandidate.id
      OBVIOUS
    <2> DEFINE outcome == "cancelled"
    <2>8. /\ outcome \in Outcomes /\ toPage' = Append(toPage, Answer(x, outcome, 0))
          /\ outcome = "failed" => ~MadeBy(x, resident)
          /\ outcome = "cancelled" /\ x.kind = "build" => Cancelled(x)
          /\ outcome = "result" /\ x.kind = "commitRepair" => b = 0
          /\ outcome = "result" /\ x.kind = "commitFill" => c = 0
          /\ outcome = "failed" => c = resident.fillCandidate.id
          /\ b \in {0, resident.repairCandidate.id}
          /\ c \in {0, resident.fillCandidate.id} \/ (x.kind = "fill" /\ x.token = c)
      BY <2>2, <2>5, <2>6, <2>7
    <2> HIDE DEF outcome
    <2>9. r \in {x} \/ r.kind = "cancelFill"
      BY <1>1
    <2> QED BY <1>1, <1>2, <1>3, <2>4, <2>5, <2>7, <2>8, <2>9, AnsweredWorks
  <1> QED BY <1>4, <1>5

LEMMA WorkerStepsWork ==
    ASSUME HandledInv, VersionInv, JobInv, WorksInv, WorkerActs
    PROVE  WorksInv' /\ JobInv'
  <1>1. CASE \E r \in serving : ServingFails(r) \/ ReportsOrPlans(r) \/ BuildsRepair(r)
    BY <1>1, AnswersWork
  <1>2. CASE \E r \in serving : BuildsFill(r) \/ RegistersRepair(r)
    BY <1>2, BuildsFillWorks, RegistersRepairWorks
  <1> QED BY <1>1, <1>2, AnswersWork, BeginsServingWorks, DiscardsWork, ChangesWork,
        StopsFillWorks DEF WorkerActs
-----------------------------------------------------------------------------
(* The invariant of the page and its worker, and what it says.              *)

LEMMA NothingIsOwed ==
    ASSUME Init PROVE WorksInv /\ JobInv
  <1>1. PICK setup, part : page = NewPage(setup, part)
    BY DEF Init
  <1>2. /\ toWorker = <<>> /\ toPage = <<>> /\ serving = {} /\ UnderWay = {}
        /\ resident.repairCandidate.id = 0 /\ resident.fillCandidate.id = 0
    BY DEF Init, UnderWay, Range, NoCandidate, Candidate
  <1>3. /\ page.store.analysis.state = "idle" /\ ~page.edit.applying
        /\ page.store.repair = EmptyRepair /\ page.store.holeFill = EmptyHoleFill
        /\ page.fillRun = 0
    BY <1>1 DEF NewPage, ImportedStore, EmptyAnalysis
  <1>4. JobInv
    BY <1>2 DEF JobInv, Once, Unbuilt, Behind, HaveWords
  <1>5. AnalysisEnds(page.store, UnderWay) /\ PlanEnds(page.store, UnderWay)
        /\ TextureEnds(page.edit, UnderWay)
    BY <1>2, <1>3 DEF AnalysisEnds, PlanEnds, TextureEnds, EmptyRepair
  <1>6. RepairEnds(page.store, page.repairLive, page.setup.tools, UnderWay)
    BY <1>2, <1>3 DEF RepairEnds, EmptyRepair, Claims
  <1>7. FillEnds(page.store, page.fillRun, page.setup.tools, Settled(page), UnderWay)
    BY <1>2, <1>3 DEF FillEnds, EmptyHoleFill
  <1>8. RepairFate(page.repairLive, page.stop, UnderWay)
        /\ FillFate(page.fillLive, page.fillRun, page.stop, UnderWay)
    BY <1>2, <1>3 DEF RepairFate, FillFate
  <1> QED BY <1>4, <1>5, <1>6, <1>7, <1>8 DEF WorksInv, Works

LEMMA NothingHappens ==
    ASSUME WorksInv, JobInv, UNCHANGED vars PROVE WorksInv' /\ JobInv'
  <1>1. /\ page' = page /\ toWorker' = toWorker /\ toPage' = toPage /\ serving' = serving
        /\ words' = words /\ resident' = resident
    BY DEF vars
  <1>2. UnderWay' = UnderWay /\ Settled(page)' = Settled(page)
    BY <1>1 DEF UnderWay, Settled
  <1>3. JobInv'
    BY <1>1 DEF JobInv, Once, Unbuilt, Behind, HaveWords, Cancelled
  <1>4. /\ RepairFate(page.repairLive, page.stop, UnderWay)'
        /\ FillFate(page.fillLive, page.fillRun, page.stop, UnderWay)'
    BY <1>1, <1>2 DEF WorksInv, Works, RepairFate, FillFate, Told
  <1>5. /\ AnalysisEnds(page.store, UnderWay)' /\ PlanEnds(page.store, UnderWay)'
        /\ TextureEnds(page.edit, UnderWay)'
        /\ RepairEnds(page.store, page.repairLive, page.setup.tools, UnderWay)'
        /\ FillEnds(page.store, page.fillRun, page.setup.tools, Settled(page), UnderWay)'
    BY <1>1, <1>2 DEF WorksInv, Works
  <1> QED BY <1>3, <1>4, <1>5 DEF WorksInv, Works

LEMMA WorksInvariant == Spec => [](WorksInv /\ JobInv)
  <1>1. Init => WorksInv /\ JobInv
    BY NothingIsOwed
  <1>2. PageIInv /\ FillInv /\ (WorksInv /\ JobInv) /\ [Next]_vars => (WorksInv /\ JobInv)'
    <2> SUFFICES ASSUME PageIInv, FillInv, WorksInv, JobInv, [Next]_vars
                 PROVE  WorksInv' /\ JobInv'
      OBVIOUS
    <2>1. HandledInv /\ VersionInv
      BY DEF PageIInv
    <2>2. CASE UserActs \/ PageHears
      BY <2>1, <2>2, PageStepWorks
    <2>3. CASE WorkerActs
      BY <2>1, <2>3, WorkerStepsWork
    <2>4. CASE UNCHANGED vars
      BY <2>4, NothingHappens
    <2> QED BY <2>2, <2>3, <2>4 DEF Next
  <1> QED BY <1>1, <1>2, PageInvariant, FillInvariant, PTL DEF Spec

(* However the attempts on the page are superseded, cancelled or overtaken  *)
(* by a change: whatever a panel shows as going on, and whatever slot a     *)
(* change claimed, has a request under way whose answer the page will       *)
(* recognise, so that no spinner outlives the work it stands for.           *)
THEOREM WhatIsShownAsGoingOnEnds == Spec => []EverySpinnerEnds
  <1>1. WorksInv => EverySpinnerEnds
    <2> SUFFICES ASSUME WorksInv PROVE EverySpinnerEnds
      OBVIOUS
    <2>1. \A kind, token : Pending(kind, token, UnderWay) => Asked(kind, token)
      BY DEF Pending, Asked
    <2>2. \A kinds : Claims(kinds, UnderWay) => OfKind(kinds) # {}
      BY DEF Claims, OfKind
    <2>3. PICK S : S = UnderWay
      OBVIOUS
    <2>4. /\ AnalysisEnds(page.store, S) /\ PlanEnds(page.store, S)
          /\ RepairEnds(page.store, page.repairLive, page.setup.tools, S)
          /\ FillEnds(page.store, page.fillRun, page.setup.tools, Settled(page), S)
          /\ TextureEnds(page.edit, S)
      BY <2>3 DEF WorksInv, Works
    <2>5. /\ page.store.analysis.state = "analyzing" => Asked("analyze", page.store.analysisToken)
          /\ page.store.repair.planState = "planning" => Asked("plan", page.store.repairToken)
          /\ page.edit.applying => OfKind({"commitEdit"}) # {}
      BY <2>1, <2>2, <2>3, <2>4 DEF AnalysisEnds, PlanEnds, TextureEnds
    <2>6. /\ page.store.repair.candidateState \in {"building", "cancelling"}
               => Asked("build", page.store.repairToken)
          /\ page.store.repair.commitState # "idle"
               => OfKind({"commitRepair", "undoRepair"}) # {}
      BY <2>1, <2>2, <2>3, <2>4 DEF RepairEnds
    <2>7. /\ page.store.holeFill.inventory = "listing" => Asked("list", page.store.holeFillToken)
          /\ page.store.holeFill.workState \in {"generating", "cancelling"} =>
               page.fillRun = page.store.holeFillToken /\ Asked("fill", page.store.holeFillToken)
          /\ page.store.holeFill.commitState # "idle"
               => OfKind({"commitFill", "undoFill"}) # {}
      BY <2>1, <2>2, <2>3, <2>4 DEF FillEnds
    <2> QED BY <2>5, <2>6, <2>7 DEF EverySpinnerEnds
  <1> QED BY <1>1, WorksInvariant, PTL

(* Every candidate that the worker holds is one the page still shows, or is *)
(* building or filling, or has asked to discard, or one whose build or fill *)
(* it has cancelled: no candidate stays resident because the page lost      *)
(* track of it.                                                             *)
THEOREM NoCandidateIsLost == Spec => []OnlyCancelledAreForgotten
  <1>1. PageIInv /\ WorksInv => OnlyCancelledAreForgotten
    <2> SUFFICES ASSUME PageIInv, WorksInv PROVE OnlyCancelledAreForgotten
      OBVIOUS
    <2>1. PICK b, c : b = resident.repairCandidate.id /\ c = resident.fillCandidate.id
      OBVIOUS
    <2>2. /\ RepairFate(page.repairLive, {}, UnderWay)
          /\ FillFate(page.fillLive, page.fillRun, {}, UnderWay)
      BY DEF PageIInv, HandledInv, ChannelInv, WorksInv, Works
    <2>3. \A kind, token : Pending(kind, token, UnderWay) => Asked(kind, token)
      BY DEF Pending, Asked
    <2>4. b # 0 => \/ page.repairLive = b \/ Asked("build", b)
                   \/ \E r \in UnderWay : r.kind = "discardRepair" /\ r.id = b
                   \/ <<"repair", b>> \in words
      BY <2>1, <2>2, <2>3 DEF RepairFate, Told
    <2>5. c # 0 => \/ page.fillLive = c \/ Asked("fill", c)
                   \/ \E r \in UnderWay : r.kind = "discardFill" /\ r.id = c
                   \/ <<"fill", c>> \in words
      BY <2>1, <2>2, <2>3 DEF FillFate, Told
    <2> QED BY <2>1, <2>4, <2>5 DEF OnlyCancelledAreForgotten, OfKind
  <1> QED BY <1>1, PageInvariant, WorksInvariant, PTL
=============================================================================
