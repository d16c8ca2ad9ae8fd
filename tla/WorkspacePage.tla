---------------------------- MODULE WorkspacePage ----------------------------
(* One document on the page: the analysis, repair, hole-fill and texture    *)
(* hooks over the workspace store, their requests and the answers, and the  *)
(* geometry worker as far as the page sees it. The hooks run to completion  *)
(* on every click and every answer, and their effects run before the next.  *)
EXTENDS Naturals, Sequences, FiniteSets, SequencesExt, WorkspaceStore

CONSTANTS
    Parts,          \* the parts of a document
    Setups,         \* the setups explored
    MaxWaiting      \* bound: requests and answers under way when the user acts

(* parts and openings are those of the document, tools the hooks in use.    *)
(* Bounds: revisions; serving, the handlers of the worker that await at a   *)
(* time; and calm, under which no handler fails of its own accord, and the  *)
(* user neither cancels nor changes the selection.                          *)
AllSetups ==
    [parts : (SUBSET Parts) \ {{}}, openings : SUBSET (Nat \ {0}),
     tools : SUBSET {"repair", "fill", "texture"}, revisions : Nat \ {0},
     serving : Nat, calm : BOOLEAN]

ASSUME PageAssumption ==
    /\ 0 \notin Parts /\ Setups \subseteq AllSetups /\ MaxWaiting \in Nat

VARIABLES
    page,       \* the store, and the refs and states of the hooks
    toWorker, toPage,   \* the message channels
    serving,    \* worker: requests whose handlers await
    words,      \* sessions cancelled: the flag of the page, the word of the worker
    resident    \* worker: the document, its undo record and its candidates

vars == <<page, toWorker, toPage, serving, words, resident>>

(* out and stop are what the running handler posts and cancels.             *)
NewPage(setup, part) ==
    [setup |-> setup, store |-> ImportedStore(part), out |-> <<>>, stop |-> {},
     startedFor |-> Nothing, plannedFor |-> Nothing, analysisSession |-> 0,
     repairSession |-> 0, repairActive |-> 0, repairLive |-> 0,
     fillSession |-> 0, fillActive |-> 0, fillLive |-> 0, fillRun |-> 0,
     edit |-> [applying |-> FALSE, record |-> 0, revision |-> 0]]

Model(p) == Shown(p.store)

Slow == {"analyze", "plan", "build", "fill"}

Discards == {"discardRepair", "discardFill"}

Changes == {"commitRepair", "commitFill", "commitEdit",
            "undoRepair", "undoFill", "undoEdit"}

(* The slice whose tokens and candidate numbers a request carries.          *)
Stream(kind) ==
    CASE kind = "analyze" -> "analysis"
      [] kind \in {"plan", "build", "commitRepair", "discardRepair"} -> "repair"
      [] kind \in {"list", "fill", "cancelFill", "commitFill", "discardFill"} -> "fill"
      [] OTHER -> "history"

(* token names the attempt, id the candidate or the undo record.            *)
Request(kind, token, subject, opening, id) ==
    [kind |-> kind, token |-> token, subject |-> subject, opening |-> opening, id |-> id]

UnderWay == Range(toWorker) \cup serving \cup {a.request : a \in Range(toPage)}

OfKind(kinds) == {r \in UnderWay : r.kind \in kinds}

(* The store counts its tokens; here the numbers in use are avoided, so     *)
(* that a finished attempt's number may return.                             *)
Numbers(p, stream) ==
    {w[2] : w \in {x \in words \cup p.stop : x[1] = stream}}
    \cup (UNION {{r.token, r.id} :
                r \in {q \in UnderWay \cup Range(p.out) : Stream(q.kind) = stream}})
    \cup CASE stream = "analysis" -> {p.store.analysisToken, p.analysisSession}
           [] stream = "repair" -> {p.store.repairToken, p.repairSession, p.repairActive,
                p.repairLive, p.store.repair.candidate.id, resident.repairCandidate.id}
           [] OTHER -> {p.store.holeFillToken, p.fillSession, p.fillActive, p.fillLive,
                p.fillRun, p.store.holeFill.candidate.id, resident.fillCandidate.id}

Another(used) == CHOOSE n \in 1 .. Cardinality(used) + 1 : n \notin used

Fresh(p, stream) == Another(Numbers(p, stream))

Post(p, request) == [p EXCEPT !.out = Append(@, request)]

Stop(p, stream, token) == [p EXCEPT !.stop = @ \cup ({<<stream, token>>} \ {<<stream, 0>>})]
-----------------------------------------------------------------------------
(* Starting work *)

StartAnalysis(p) ==
    LET token == Fresh(p, "analysis")
        stopped == Stop(p, "analysis", p.analysisSession)
    IN  Post([stopped EXCEPT !.store = BeginAnalysis(@, token), !.analysisSession = token],
             Request("analyze", token, Model(p), 0, 0))

ListOpenings(p) ==
    LET token == Fresh(p, "fill")
    IN  Post([p EXCEPT !.store = BeginHoleFillListing(@, token)],
             Request("list", token, Model(p), 0, 0))

StartPlan(p) ==
    LET token == Fresh(p, "repair")
        stopped == Stop(p, "repair", p.repairSession)
    IN  Post([stopped EXCEPT !.store = BeginRepairPlan(@, token), !.repairSession = token],
             Request("plan", token, Model(p), 0, 0))

ReportIsCurrent(p) ==
    p.store.analysis.state = "ready" /\ p.store.analysis.report = Model(p)

(* The effects that analyse and list once per revision and part.            *)
SubjectEffects(p) ==
    IF p.startedFor = Model(p) THEN p
    ELSE LET started == [p EXCEPT !.startedFor = Model(p)]
         IN  IF "fill" \in p.setup.tools THEN ListOpenings(StartAnalysis(started))
             ELSE StartAnalysis(started)

(* The effect that plans once per revision, part and selection.             *)
PlanEffect(p) ==
    IF ~ReportIsCurrent(p) \/ "repair" \notin p.setup.tools
    THEN [p EXCEPT !.plannedFor = Nothing]
    ELSE IF p.plannedFor = Model(p) THEN p
    ELSE StartPlan([p EXCEPT !.plannedFor = Model(p)])

Effects(p) == PlanEffect(SubjectEffects(p))

(* Mutant: the worker is not told.                                          *)
ForgetRepairCandidate(p) == [p EXCEPT !.repairLive = 0]

ReleaseRepairCandidate(p) ==
    IF p.repairLive = 0 THEN p
    ELSE Post([p EXCEPT !.repairLive = 0],
              Request("discardRepair", 0, Nothing, 0, p.repairLive))

ReleaseFillCandidate(p, id) ==
    IF id = 0 THEN p
    ELSE Post([p EXCEPT !.fillLive = IF @ = id THEN 0 ELSE @],
              Request("discardFill", 0, Nothing, 0, id))

(* A fill's promise rejects as cancelled.                                   *)
FillRejected(p, token) ==
    [p EXCEPT !.store = EndHoleFillCandidate(@, token, "cancelled"),
              !.fillSession = 0, !.fillActive = 0]

(* Mutant: the worker's side of the operation goes on.                      *)
DisposeFillWorker(p) == [p EXCEPT !.fillRun = 0]

(* HoleFillService: the operation is over for the page, and cancelled by a  *)
(* message, which no shared word overtakes.                                 *)
DisposeFill(p) ==
    IF p.fillRun = 0 THEN p
    ELSE Post([Stop(p, "fill", p.fillRun) EXCEPT !.fillRun = 0],
              Request("cancelFill", p.fillRun, Nothing, 0, 0))

(* sessionRef.current?.cancel(); the rejection is seen after the handler.   *)
CancelsFill(p) == p.fillSession # 0 /\ p.fillRun # 0

CancelFillSession(p) ==
    IF CancelsFill(p) THEN [DisposeFill(p) EXCEPT !.fillSession = 0]
    ELSE [p EXCEPT !.fillSession = 0]

ThenRejected(before, p) ==
    IF CancelsFill(before) THEN FillRejected(p, before.fillRun) ELSE p
-----------------------------------------------------------------------------
(* What the user does *)

Init ==
    \E setup \in Setups : \E part \in setup.parts :
        /\ resident = [revision |-> 1, undoable |-> 0,
                       repairCandidate |-> NoCandidate, fillCandidate |-> NoCandidate]
        /\ page = NewPage(setup, part)
        /\ toWorker = <<>> /\ toPage = <<>> /\ serving = {} /\ words = {}

(* A token no request carries any more matches nothing: it is kept as 0.    *)
Kept(token, stream, requests) ==
    IF \E r \in requests : Stream(r.kind) = stream /\ r.token = token THEN token ELSE 0

WithLiveTokens(p, requests) ==
    [p EXCEPT !.store.analysisToken = Kept(@, "analysis", requests),
              !.store.repairToken = Kept(@, "repair", requests),
              !.store.holeFillToken = Kept(@, "fill", requests),
              !.repairActive = Kept(@, "repair", requests),
              !.fillActive = Kept(@, "fill", requests)]

(* The page's state after a handler and its effects, what it posted and     *)
(* what it cancelled, while answers are still to be received.               *)
PageBecomes(p, answers) ==
    LET q == Effects(p)
        waiting == toWorker \o q.out
        requests == Range(waiting) \cup serving \cup {a.request : a \in Range(answers)}
    IN  /\ page' = WithLiveTokens([q EXCEPT !.out = <<>>, !.stop = {}], requests)
        /\ toWorker' = waiting
        /\ toPage' = answers
        /\ words' = {w \in words \cup q.stop :
                        \/ \E r \in requests : r.token = w[2] /\ Stream(r.kind) = w[1]
                        \/ w = <<"repair", resident.repairCandidate.id>>
                        \/ w = <<"fill", resident.fillCandidate.id>>}
        /\ UNCHANGED <<serving, resident>>

UserMay ==
    /\ page.startedFor # Nothing
    /\ Len(toWorker) + Cardinality(serving) + Len(toPage) <= MaxWaiting

UserDoes(p) == UserMay /\ PageBecomes(p, toPage)

(* The model was imported: the effects run for the first time.              *)
Imported == page.startedFor = Nothing /\ PageBecomes(page, toPage)

SelectsPart ==
    \E part \in page.setup.parts \ {page.store.part} :
        UserDoes([page EXCEPT !.store = SelectPart(@, part)])

(* deriveRepairAction, for what the footer of the repair panel offers.      *)
RepairAction ==
    LET s == page.store IN
    CASE s.repair.commitState # "idle" -> "committing"
      [] s.repair.candidateState = "building" -> "building"
      [] s.repair.candidateState = "cancelling" -> "cancelling"
      [] s.repair.candidateState = "ready" -> "preview"
      [] s.analysis.state = "analyzing" -> "analyzing"
      [] ~ReportIsCurrent(page) -> "analyze"
      [] s.repair.planState = "failed" -> "planFailed"
      [] s.repair.planState # "ready" -> "planning"
      [] OTHER -> "ready"

RunsAnalysis == RepairAction = "analyze" /\ UserDoes(StartAnalysis(page))

CancelsAnalysis ==
    /\ RepairAction = "analyzing" /\ ~page.setup.calm /\ page.analysisSession # 0
    /\ <<"analysis", page.analysisSession>> \notin words
    /\ UserDoes(Stop(page, "analysis", page.analysisSession))

(* replan: the key of the effect stays, nothing it depends on changed.      *)
Replans == RepairAction = "planFailed" /\ UserDoes(StartPlan(page))

(* setOperationSelected, setFillOpenings: another plan is due at once.      *)
ChangesSelection ==
    LET s == page.store IN
    /\ ~page.setup.calm /\ s.repair.plan # Nothing /\ ReportIsCurrent(page)
    /\ s.repair.commitState = "idle"
    /\ s.repair.candidateState \notin {"building", "cancelling", "ready"}
    /\ UserDoes([ReleaseRepairCandidate(page) EXCEPT
                    !.store = SetRepairSelection(@), !.plannedFor = Nothing])

(* previewRepair does not cancel a session that is still running.           *)
PreviewsRepair ==
    LET released == ReleaseRepairCandidate(page)
        token == Fresh(released, "repair")
    IN
    /\ RepairAction = "ready"
    /\ UserDoes(Post([released EXCEPT !.store = BeginRepairCandidate(@, token),
                                      !.repairActive = token, !.repairSession = token],
                     Request("build", token, Model(page), 0, 0)))

CancelsRepair ==
    /\ RepairAction = "building" /\ ~page.setup.calm
    /\ UserDoes([Stop(page, "repair", page.repairSession) EXCEPT
                    !.store = BeginRepairCancellation(@, page.repairActive)])

DiscardsRepair ==
    LET stopped == Stop(page, "repair", page.repairSession) IN
    /\ RepairAction = "preview"
    /\ UserDoes(ReleaseRepairCandidate(
                    [stopped EXCEPT !.store = ClearRepairCandidate(@)]))

AppliesRepair ==
    LET candidate == page.store.repair.candidate IN
    /\ RepairAction = "preview" /\ MayCommitRepair(page.store)
    /\ UserDoes(Post([page EXCEPT !.store = BeginRepairChange(@, "applying")],
                     Request("commitRepair", 0, candidate.subject, 0, candidate.id)))

UndoesRepair ==
    /\ MayUndoRepair(page.store)
    /\ page.store.repair.candidateState \notin {"building", "cancelling"}
    /\ UserDoes(Post([page EXCEPT !.store = BeginRepairChange(@, "undoing")],
                     Request("undoRepair", 0, Model(page), 0, page.store.repair.lastApplied)))

(* The list of openings, or stepping through an issue, which never waits.   *)
SelectsOpening ==
    \E opening \in page.setup.openings :
        LET s == page.store
            cancelled == CancelFillSession(page)
            dropped == IF s.holeFill.selected = opening THEN 0
                       ELSE s.holeFill.candidate.id
            selected == ReleaseFillCandidate(
                [cancelled EXCEPT !.store = SelectBoundaryLoop(@, opening)], dropped)
        IN
        /\ s.holeFill.rows # Nothing
        /\ s.holeFill.selected # opening \/ CancelsFill(page)
        /\ UserDoes(ThenRejected(page, selected))

(* Fill.run supersedes what still runs, which then rejects.                 *)
PreviewsFill ==
    LET s == page.store
        released == ReleaseFillCandidate(page, page.fillLive)
        token == Fresh(released, "fill")
        posted == Post([DisposeFill(released) EXCEPT
                            !.store = BeginHoleFillCandidate(@, token),
                            !.fillActive = token, !.fillRun = token, !.fillSession = token],
                       Request("fill", token, Model(page), s.holeFill.selected, 0))
    IN
    /\ s.holeFill.rows # Nothing /\ s.holeFill.selected # 0
    /\ s.holeFill.workState \notin {"generating", "cancelling", "ready"}
    /\ s.holeFill.commitState = "idle"
    /\ UserDoes(IF page.fillRun = 0 THEN posted ELSE FillRejected(posted, page.fillRun))

CancelsFillPreview ==
    /\ page.store.holeFill.workState = "generating" /\ ~page.setup.calm
    /\ UserDoes(ThenRejected(page, CancelFillSession(
            [page EXCEPT !.store = BeginHoleFillCancellation(@, page.fillActive)])))

DiscardsFill ==
    LET cancelled == CancelFillSession(page)
        cleared == [cancelled EXCEPT !.store = ClearHoleFillCandidate(@)]
    IN
    /\ page.store.holeFill.workState = "ready" /\ page.store.holeFill.commitState = "idle"
    /\ UserDoes(ThenRejected(page,
            ReleaseFillCandidate(cleared, page.store.holeFill.candidate.id)))

AppliesFill ==
    LET candidate == page.store.holeFill.candidate IN
    /\ MayCommitFill(page.store)
    /\ UserDoes(Post([page EXCEPT !.store = BeginHoleFillChange(@, "applying")],
                     Request("commitFill", 0, candidate.subject, candidate.opening,
                             candidate.id)))

UndoesFill ==
    /\ MayUndoFill(page.store)
    /\ UserDoes(Post([page EXCEPT !.store = BeginHoleFillChange(@, "undoing")],
                     Request("undoFill", 0, Model(page), 0, page.store.holeFill.lastApplied)))

RetriesListing ==
    /\ "fill" \in page.setup.tools /\ page.store.holeFill.inventory = "failed"
    /\ UserDoes(ListOpenings(page))

(* A texture previewed at the revision shown is applied.                    *)
AppliesTexture ==
    /\ "texture" \in page.setup.tools /\ ~page.edit.applying
    /\ UserDoes(Post([page EXCEPT !.edit.applying = TRUE],
                     Request("commitEdit", 0, Model(page), 0, 0)))

(* Offered while the revision it made is shown; nothing marks it as asked.  *)
TextureUndoOffered(p) == p.edit.record # 0 /\ p.edit.revision = p.store.revision

UndoesTexture ==
    /\ TextureUndoOffered(page)
    /\ UserDoes(Post(page, Request("undoEdit", 0, Model(page), 0, page.edit.record)))
-----------------------------------------------------------------------------
(* The worker *)

Answer(request, outcome, revision) ==
    [request |-> request, outcome |-> outcome, revision |-> revision]

Cancelled(r) == <<Stream(r.kind), r.token>> \in words

Answers(r, outcome, revision) == toPage' = Append(toPage, Answer(r, outcome, revision))

(* From the registration of a repair candidate to the end of its handler,   *)
(* which builds the render buffers, the worker does nothing else.           *)
Registered(r) == r.kind = "build" /\ resident.repairCandidate.id = r.token

Free == \A r \in serving : ~Registered(r)

TakesRequest(r) ==
    /\ Free /\ toWorker # <<>>
    /\ r = Head(toWorker) /\ toWorker' = Tail(toWorker)

(* A fill has no shared word; a cancelled analysis that goes on is dropped  *)
(* by its session.                                                          *)
SeesWord(r) == Cancelled(r) /\ r.kind # "fill"

(* The handle no longer resolves, or the handler throws.                    *)
Refuses ==
    \E r \in Range(toWorker) :
        /\ TakesRequest(r) /\ r.kind \in Slow \cup {"list"}
        /\ \/ r.kind = "list" /\ ~page.setup.calm
           \/ SeesWord(r)
           \/ r.subject.revision # resident.revision
        /\ Answers(r, IF SeesWord(r) THEN "cancelled" ELSE "failed", 0)
        /\ UNCHANGED <<page, serving, words, resident>>

BeginsServing ==
    \E r \in Range(toWorker) :
        /\ TakesRequest(r) /\ r.kind \in Slow /\ r.subject.revision = resident.revision
        /\ Cardinality(serving) < page.setup.serving /\ ~SeesWord(r)
        /\ serving' = serving \cup {r}
        /\ UNCHANGED <<page, toPage, words, resident>>

ListsOpenings ==
    \E r \in Range(toWorker) :
        /\ TakesRequest(r) /\ r.kind = "list" /\ r.subject.revision = resident.revision
        /\ Answers(r, "result", 0)
        /\ UNCHANGED <<page, serving, words, resident>>

(* repair/discard and fill/discard: a candidate that is not there is an     *)
(* error the hooks ignore, so no answer is modelled.                        *)
DiscardsCandidate ==
    \E r \in Range(toWorker) :
        /\ TakesRequest(r) /\ r.kind \in Discards
        /\ resident' =
             IF r.kind = "discardRepair" /\ resident.repairCandidate.id = r.id
             THEN [resident EXCEPT !.repairCandidate = NoCandidate]
             ELSE IF r.kind = "discardFill" /\ resident.fillCandidate.id = r.id
             THEN [resident EXCEPT !.fillCandidate = NoCandidate]
             ELSE resident
        /\ UNCHANGED <<page, toPage, serving, words>>

(* A handler that stops, at its next poll or on an error of its own.        *)
ServingFails(r) ==
    /\ Free
    /\ SeesWord(r) \/ ~page.setup.calm \/ r.subject.revision # resident.revision
    /\ serving' = serving \ {r}
    /\ Answers(r, IF SeesWord(r) THEN "cancelled" ELSE "failed", 0)
    /\ UNCHANGED <<page, toWorker, words, resident>>

(* A report and a plan are of the mesh they began with.                     *)
ReportsOrPlans(r) ==
    /\ Free /\ r.kind \in {"analyze", "plan"} /\ ~Cancelled(r)
    /\ serving' = serving \ {r}
    /\ Answers(r, "result", 0)
    /\ UNCHANGED <<page, toWorker, words, resident>>

(* The candidate takes the tool's slot. Its handle is not resolved again.   *)
RegistersRepair(r) ==
    /\ Free /\ r.kind = "build" /\ ~Cancelled(r)
    /\ resident' = [resident EXCEPT !.repairCandidate = Candidate(r.token, r.subject, 0)]
    /\ UNCHANGED <<page, toWorker, toPage, serving, words>>

(* The host looks at the word once more when the handler returns.           *)
BuildsRepair(r) ==
    /\ Registered(r)
    /\ serving' = serving \ {r}
    /\ Answers(r, IF Cancelled(r) THEN "cancelled" ELSE "result", 0)
    /\ UNCHANGED <<page, toWorker, words, resident>>

(* The message rejects the await of the exchange, if it still goes on.      *)
StopsFill ==
    \E r \in Range(toWorker) :
        LET stopped == {q \in serving : q.kind = "fill" /\ q.token = r.token} IN
        /\ TakesRequest(r) /\ r.kind = "cancelFill"
        /\ serving' = serving \ stopped
        /\ IF stopped = {} THEN UNCHANGED toPage
           ELSE \E q \in stopped : Answers(q, "cancelled", 0)
        /\ UNCHANGED <<page, words, resident>>

(* The fill worker's mesh is taken only into the revision it was made for.  *)
BuildsFill(r) ==
    /\ Free /\ r.kind = "fill" /\ r.subject.revision = resident.revision
    /\ serving' = serving \ {r}
    /\ resident' = [resident EXCEPT
                      !.fillCandidate = Candidate(r.token, r.subject, r.opening)]
    /\ Answers(r, "result", 0)
    /\ UNCHANGED <<page, toWorker, words>>

(* A commit wants its own candidate, made at the resident revision. An undo *)
(* wants the record of the last change.                                     *)
Acceptable(r) ==
    /\ r.subject.revision = resident.revision
    /\ CASE r.kind = "commitRepair" ->
              resident.repairCandidate = Candidate(r.id, r.subject, 0)
         [] r.kind = "commitFill" ->
              resident.fillCandidate = Candidate(r.id, r.subject, r.opening)
         [] r.kind = "commitEdit" -> TRUE
         [] OTHER -> r.id = resident.undoable /\ r.id # 0

(* Every change drops the fill candidate; commits of a repair and of a      *)
(* texture also end the repair candidate.                                   *)
ChangesDocument ==
    \E r \in Range(toWorker) :
        /\ TakesRequest(r) /\ r.kind \in Changes
        /\ IF ~Acceptable(r)
           THEN Answers(r, "failed", 0) /\ UNCHANGED resident
           ELSE /\ resident.revision < page.setup.revisions
                /\ resident' =
                     [revision |-> resident.revision + 1,
                      undoable |-> IF r.kind \in {"commitRepair", "commitFill", "commitEdit"}
                                   THEN resident.revision + 1 ELSE 0,
                      repairCandidate |-> IF r.kind \in {"commitRepair", "commitEdit"}
                                          THEN NoCandidate ELSE resident.repairCandidate,
                      fillCandidate |-> NoCandidate]
                /\ Answers(r, "result", resident.revision + 1)
        /\ UNCHANGED <<page, serving, words>>
-----------------------------------------------------------------------------
(* The answers *)

Answered == Head(toPage).request

(* A session cancelled while its result was on the way rejects all the same.*)
Outcome ==
    IF Head(toPage).outcome = "result" /\ Cancelled(Answered) THEN "cancelled"
    ELSE Head(toPage).outcome

Receives(kinds, outcome) ==
    toPage # <<>> /\ Answered.kind \in kinds /\ Outcome = outcome

PageReceives(p) == PageBecomes(p, Tail(toPage))

ReceivesAnalysis ==
    LET r == Answered
        over == [page EXCEPT !.analysisSession = 0]
    IN
    \/ Receives({"analyze"}, "result")
       /\ PageReceives([over EXCEPT !.store = CommitAnalysis(@, r.token, r.subject)])
    \/ Receives({"analyze"}, "failed")
       /\ PageReceives([over EXCEPT !.store = FailAnalysis(@, r.token)])
    \/ Receives({"analyze"}, "cancelled")
       /\ PageReceives([over EXCEPT !.store = CancelAnalysis(@, r.token)])

(* Whatever attempt the answer is for, the hook forgets its session.        *)
ReceivesPlan ==
    LET r == Answered
        over == [page EXCEPT !.repairSession = 0]
    IN
    \/ Receives({"plan"}, "result")
       /\ PageReceives([over EXCEPT !.store = CommitRepairPlan(@, r.token, r.subject)])
    \/ Receives({"plan"}, "failed")
       /\ PageReceives([over EXCEPT !.store = FailRepairPlan(@, r.token)])
    \/ Receives({"plan"}, "cancelled")
       /\ PageReceives([over EXCEPT !.store = FailRepairPlan(@, r.token)])

ReceivesRepairCandidate ==
    LET r == Answered
        candidate == Candidate(r.token, r.subject, 0)
        over == [page EXCEPT !.repairSession = 0]
        rejected == [over EXCEPT !.repairActive = 0]
        cancelled == [rejected EXCEPT !.store = EndRepairCandidate(@, r.token, "cancelled")]
        discard == Request("discardRepair", 0, Nothing, 0, candidate.id)
    IN
    \/ Receives({"build"}, "result")
       /\ PageReceives(
            IF MayInstallRepair(page.store, r.token, candidate)
            THEN [over EXCEPT !.store = CommitRepairCandidate(@, candidate),
                              !.repairLive = candidate.id]
            ELSE Post(over, discard))
    \/ Receives({"build"}, "cancelled")
       /\ PageReceives(IF Head(toPage).outcome = "result" THEN Post(cancelled, discard)
                       ELSE cancelled)
    \/ Receives({"build"}, "failed")
       /\ PageReceives([rejected EXCEPT !.store = EndRepairCandidate(@, r.token, "failed")])

ReceivesListing ==
    LET r == Answered IN
    \/ Receives({"list"}, "result")
       /\ PageReceives([page EXCEPT !.store = CommitHoleFillListing(@, r.token, r.subject)])
    \/ Receives({"list"}, "failed")
       /\ PageReceives([page EXCEPT !.store = FailHoleFillListing(@, r.token)])

(* An operation the service no longer runs was rejected when it ended.      *)
ReceivesFill ==
    LET r == Answered
        candidate == Candidate(r.token, r.subject, r.opening)
        over == [page EXCEPT !.fillRun = 0, !.fillSession = 0]
        rejected == [over EXCEPT !.fillActive = 0]
    IN
    /\ toPage # <<>> /\ r.kind = "fill"
    /\ \/ page.fillRun # r.token /\ PageReceives(page)
       \/ page.fillRun = r.token /\ Receives({"fill"}, "result")
          /\ PageReceives(
               IF MayInstallFill(page.store, r.token, candidate)
               THEN [over EXCEPT !.store = CommitHoleFillCandidate(@, candidate),
                                 !.fillLive = candidate.id]
               ELSE ReleaseFillCandidate(over, candidate.id))
       \/ page.fillRun = r.token /\ Receives({"fill"}, "failed")
          /\ PageReceives([rejected EXCEPT !.store = EndHoleFillCandidate(@, r.token, "failed")])

ReceivesRepairChange ==
    LET revision == Head(toPage).revision IN
    \/ Receives({"commitRepair"}, "result")
       /\ PageReceives([page EXCEPT !.store = ApplyRepairResult(@, revision), !.repairLive = 0])
    \/ Receives({"undoRepair"}, "result")
       /\ PageReceives([page EXCEPT !.store = ApplyUndoResult(@, revision)])
    \/ Receives({"commitRepair", "undoRepair"}, "failed")
       /\ PageReceives([page EXCEPT !.store = FailRepairChange(@)])

(* A refused apply also drops the preview.                                  *)
ReceivesFillChange ==
    LET revision == Head(toPage).revision
        failed == [page EXCEPT !.store = FailHoleFillChange(@)]
    IN
    \/ Receives({"commitFill"}, "result")
       /\ PageReceives([page EXCEPT !.store = ApplyHoleFillResult(@, revision), !.fillLive = 0])
    \/ Receives({"undoFill"}, "result")
       /\ PageReceives([page EXCEPT !.store = ApplyUndoResult(@, revision)])
    \/ Receives({"commitFill"}, "failed")
       /\ PageReceives(ReleaseFillCandidate(
            [failed EXCEPT !.store = ClearHoleFillCandidate(@)],
            page.store.holeFill.candidate.id))
    \/ Receives({"undoFill"}, "failed") /\ PageReceives(failed)

(* The result of another revision than the one shown is not installed.      *)
ReceivesTextureChange ==
    LET revision == Head(toPage).revision
        over == [page EXCEPT !.edit.applying = FALSE]
        installs == MayInstallEdit(page.store, Answered.subject.revision)
    IN
    \/ Receives({"commitEdit"}, "result")
       /\ PageReceives(IF installs
            THEN [over EXCEPT !.store = ApplyGeometryEditResult(@, revision),
                              !.edit.record = revision, !.edit.revision = revision]
            ELSE over)
    \/ Receives({"commitEdit"}, "failed") /\ PageReceives(over)
    \/ Receives({"undoEdit"}, "result")
       /\ PageReceives([page EXCEPT !.store = ApplyUndoResult(@, revision), !.edit.record = 0])
    \/ Receives({"undoEdit"}, "failed") /\ PageReceives(page)
-----------------------------------------------------------------------------
UserActs ==
    \/ SelectsPart \/ RunsAnalysis \/ CancelsAnalysis \/ Replans \/ ChangesSelection
    \/ PreviewsRepair \/ CancelsRepair \/ DiscardsRepair \/ AppliesRepair \/ UndoesRepair
    \/ SelectsOpening \/ PreviewsFill \/ CancelsFillPreview \/ DiscardsFill
    \/ AppliesFill \/ UndoesFill \/ RetriesListing
    \/ AppliesTexture \/ UndoesTexture

WorkerActs ==
    \/ Refuses \/ BeginsServing \/ ListsOpenings \/ DiscardsCandidate \/ ChangesDocument
    \/ StopsFill
    \/ \E r \in serving :
        ServingFails(r) \/ ReportsOrPlans(r) \/ BuildsFill(r)
            \/ RegistersRepair(r) \/ BuildsRepair(r)

PageHears ==
    \/ Imported \/ ReceivesAnalysis \/ ReceivesPlan \/ ReceivesRepairCandidate
    \/ ReceivesListing \/ ReceivesFill
    \/ ReceivesRepairChange \/ ReceivesFillChange \/ ReceivesTextureChange

Next == UserActs \/ WorkerActs \/ PageHears

Spec == Init /\ [][Next]_vars
-----------------------------------------------------------------------------
(* Properties *)

TypeOK ==
    /\ page.store.part \in page.setup.parts
    /\ page.out = <<>> /\ page.stop = {}
    /\ {page.repairSession, page.repairActive, page.repairLive, page.fillSession,
        page.fillActive, page.fillLive, page.fillRun, page.analysisSession} \subseteq Nat
    /\ page.store.revision \in 1 .. resident.revision
    /\ resident.revision \in 1 .. page.setup.revisions
    /\ resident.undoable \in 0 .. resident.revision
    /\ \A r \in serving : r.kind \in Slow

ChangeUnderWay == OfKind(Changes) # {}

(* When no change is under way, the page shows the revision the worker      *)
(* holds: no answer that moved the document was dropped, so the next        *)
(* request is not refused as stale.                                         *)
ShowsTheResidentRevision ==
    ~ChangeUnderWay => page.store.revision = resident.revision

Asked(kind, token) == \E r \in UnderWay : r.kind = kind /\ r.token = token

(* Whatever the panels show as going on has a request under way whose       *)
(* answer will end it: a superseded, cancelled or overtaken attempt leaves  *)
(* no spinner and no claimed slot behind.                                   *)
EverySpinnerEnds ==
    LET s == page.store IN
    /\ s.analysis.state = "analyzing" => Asked("analyze", s.analysisToken)
    /\ s.repair.planState = "planning" => Asked("plan", s.repairToken)
    /\ s.repair.candidateState \in {"building", "cancelling"} => Asked("build", s.repairToken)
    /\ s.repair.commitState # "idle" => OfKind({"commitRepair", "undoRepair"}) # {}
    /\ s.holeFill.inventory = "listing" => Asked("list", s.holeFillToken)
    /\ s.holeFill.workState \in {"generating", "cancelling"} =>
          page.fillRun = s.holeFillToken /\ Asked("fill", s.holeFillToken)
    /\ s.holeFill.commitState # "idle" => OfKind({"commitFill", "undoFill"}) # {}
    /\ page.edit.applying => OfKind({"commitEdit"}) # {}

(* Nothing on screen is of another revision or part than the model beside   *)
(* it, however the answers were overtaken.                                  *)
DescribesTheModel ==
    LET s == page.store IN
    /\ s.analysis.report \in {Nothing, Model(page)}
    /\ s.repair.planState = "ready" => s.repair.plan = Model(page)
    /\ s.repair.candidate.subject \in {Nothing, Model(page)}
    /\ s.holeFill.rows \in {Nothing, Model(page)}
    /\ s.holeFill.candidate # NoCandidate =>
          /\ s.holeFill.candidate.subject = Model(page)
          /\ s.holeFill.candidate.opening = s.holeFill.selected

(* An Undo that a panel offers while no change is under way names the one   *)
(* record the worker can still reverse, across the three tools.             *)
OfferedUndoIsTheLastChange ==
    LET s == page.store IN
    ~ChangeUnderWay =>
        /\ s.repair.lastApplied \in {0, resident.undoable}
        /\ s.holeFill.lastApplied \in {0, resident.undoable}
        /\ TextureUndoOffered(page) => page.edit.record = resident.undoable

(* A fill that the panel offers to apply is the one the worker would commit.*)
OfferedFillApplies ==
    ~ChangeUnderWay /\ page.store.holeFill.workState = "ready" =>
        resident.fillCandidate = page.store.holeFill.candidate

(* Every candidate the worker holds is one the page will still release,     *)
(* commit or be told of: none is resident for nobody, but one whose build   *)
(* was cancelled when it was registered already.                            *)
OnlyCancelledAreForgotten ==
    LET repair == resident.repairCandidate.id
        fill == resident.fillCandidate.id
        Settling(kinds, id) == \E r \in OfKind(kinds) : r.id = id
    IN
    /\ repair # 0 => \/ page.repairLive = repair \/ Asked("build", repair)
                     \/ Settling({"discardRepair", "commitRepair"}, repair)
                     \/ <<"repair", repair>> \in words
    /\ fill # 0 => \/ page.fillLive = fill \/ Asked("fill", fill)
                   \/ Settling({"discardFill", "commitFill"}, fill)
                   \/ <<"fill", fill>> \in words
=============================================================================
