--------------------------- MODULE WorkerProtocol ---------------------------
(* The request protocol between the page and the geometry worker:           *)
(* GeometryCoordinator on the page, GeometryWorkerHost in the worker, one   *)
(* FIFO channel in each direction, and a shared word per interruptible      *)
(* request that the page writes and the worker reads without a message.     *)
(* Handlers are abstract: they run, await, report, and return or throw.     *)
EXTENDS Naturals, Sequences, FiniteSets

CONSTANTS
    Ids,            \* operation ids; createOperationId never repeats one
    Interruptible,  \* the operations dispatched with a shared word
    MaxReports,     \* bound: progress messages of one handler
    MaxAwaits,      \* bound: awaits of one handler
    NoOp            \* nothing runs in the worker's event loop

ASSUME IdsAssumption == Interruptible \subseteq Ids /\ NoOp \notin Ids

ASSUME BoundsAssumption == MaxReports \in Nat /\ MaxAwaits \in Nat

VARIABLES
    pending,    \* page: ids with an entry in coordinator.pending
    signals,    \* page: ids with an entry in coordinator.signals
    disposed,   \* page: coordinator.disposed
    lost,       \* page: GeometryClient.lost
    outcome,    \* page: how each request's promise stands
    word,       \* shared: the cancellation word of each request
    toWorker, toPage,   \* the message channels
    running,    \* worker: ids with an entry in host.running
    flagged,    \* worker: those whose CancellationSource is cancelled
    onCpu,      \* worker: the handler executing, NoOp in the event loop
    steps,      \* worker: reports and awaits each handler has made
    alive       \* worker: it exists

protocolVars == <<pending, signals, disposed, lost, outcome, word, toWorker,
                  toPage, running, flagged, onCpu, steps, alive>>

Answers == {"result", "failed", "cancelled"}

Outcomes == {"unsent", "awaited", "abandoned"} \cup Answers

Message(k, id) == [kind |-> k, id |-> id]

ToWorker == [kind : {"request", "cancel"}, id : Ids]

ToPage == [kind : Answers \cup {"progress"}, id : Ids]

(* A mutant: the message alone is polled.                                   *)
IsCancelledByMessage(id) == id \in flagged

(* isCancelled of the combined token a handler polls.                       *)
IsCancelled(id) == word[id] \/ id \in flagged

ProtocolInit ==
    /\ pending = {} /\ signals = {}
    /\ disposed = FALSE /\ lost = FALSE /\ alive = TRUE
    /\ outcome = [id \in Ids |-> "unsent"]
    /\ word = [id \in Ids |-> FALSE]
    /\ toWorker = <<>> /\ toPage = <<>>
    /\ running = {} /\ flagged = {} /\ onCpu = NoOp
    /\ steps = [id \in Ids |-> [reports |-> 0, awaits |-> 0]]

workerVars == <<running, flagged, onCpu, steps>>

---------------------------------------------------------------------------
(* The page.                                                                *)

(* A message to a worker that is gone is lost.                              *)
Post(messages) == toWorker' = IF alive THEN toWorker \o messages ELSE toWorker

(* dispatch: the signal and the entry exist before the message does. On a   *)
(* disposed coordinator it throws; on a lost client it does not.            *)
Dispatch(id) ==
    /\ ~disposed /\ outcome[id] = "unsent"
    /\ pending' = pending \cup {id}
    /\ signals' = signals \cup ({id} \cap Interruptible)
    /\ outcome' = [outcome EXCEPT ![id] = "awaited"]
    /\ Post(<<Message("request", id)>>)
    /\ UNCHANGED <<disposed, lost, word, toPage, workerVars, alive>>

(* Bound: at most one cancel message of a request is on its way.            *)
CancelOnItsWay(id) == \E k \in DOMAIN toWorker : toWorker[k] = Message("cancel", id)

(* requestCancel: the word first, then the message; nothing for a request   *)
(* that is no longer pending.                                               *)
RequestCancel(id) ==
    /\ ~disposed /\ id \in pending /\ ~CancelOnItsWay(id)
    /\ word' = [word EXCEPT ![id] = @ \/ id \in signals]
    /\ Post(<<Message("cancel", id)>>)
    /\ UNCHANGED <<pending, signals, disposed, lost, outcome, toPage,
                   workerVars, alive>>

(* handleMessage, for progress and for messages of unknown operations.      *)
ReceiveNotice ==
    /\ ~disposed /\ toPage # <<>>
    /\ Head(toPage).kind = "progress" \/ Head(toPage).id \notin pending
    /\ toPage' = Tail(toPage)
    /\ UNCHANGED <<pending, signals, disposed, lost, outcome, word, toWorker,
                   workerVars, alive>>

(* handleMessage, for a terminal message. The promise's continuation runs   *)
(* before the next message and may dispatch another request, next.          *)
ReceiveAnswer(next) ==
    /\ ~disposed /\ toPage # <<>>
    /\ LET answer == Head(toPage) IN
       /\ answer.kind \in Answers /\ answer.id \in pending
       /\ pending' = (pending \ {answer.id}) \cup next
       /\ signals' = (signals \ {answer.id}) \cup (next \cap Interruptible)
       /\ outcome' = [id \in Ids |-> IF id = answer.id THEN answer.kind
                                     ELSE IF id \in next THEN "awaited"
                                     ELSE outcome[id]]
    /\ \A id \in next : outcome[id] = "unsent"
    /\ IF next = {} THEN UNCHANGED toWorker
       ELSE \E id \in next : next = {id} /\ Post(<<Message("request", id)>>)
    /\ toPage' = Tail(toPage)
    /\ UNCHANGED <<disposed, lost, word, workerVars, alive>>

(* A mutant: the shared words are kept.                                     *)
RejectAllKeepingSignals(how) ==
    /\ pending' = {} /\ UNCHANGED signals
    /\ outcome' = [id \in Ids |-> IF id \in pending THEN how ELSE outcome[id]]

(* Every pending promise is rejected.                                       *)
RejectAll(how) ==
    /\ pending' = {} /\ signals' = {}
    /\ outcome' = [id \in Ids |-> IF id \in pending THEN how ELSE outcome[id]]

(* handleWorkerLoss, from the worker's error event: failAllPending, once.   *)
(* The event also follows an uncaught error that leaves the worker alive.   *)
WorkerError ==
    /\ ~lost /\ ~disposed
    /\ lost' = TRUE /\ RejectAll("abandoned")
    /\ UNCHANGED <<disposed, word, toWorker, toPage, workerVars, alive>>

(* handleWorkerLoss, from messageerror: that message is not delivered.      *)
MessageError ==
    /\ ~lost /\ ~disposed /\ toPage # <<>>
    /\ lost' = TRUE /\ RejectAll("abandoned")
    /\ toPage' = Tail(toPage)
    /\ UNCHANGED <<disposed, word, toWorker, workerVars, alive>>

(* dispose: every loop in the worker is told to stop, every promise is      *)
(* rejected as cancelled, and the endpoint terminates the worker.           *)
Dispose ==
    /\ ~disposed
    /\ disposed' = TRUE
    /\ word' = [id \in Ids |-> word[id] \/ id \in signals]
    /\ RejectAll("cancelled")
    /\ alive' = FALSE
    /\ UNCHANGED <<lost, toWorker, toPage, workerVars>>

---------------------------------------------------------------------------
(* The worker. Its event loop takes a message only between synchronous      *)
(* spans, so a cancel message waits while a handler executes.               *)

HandlesRequest(id) ==
    /\ alive /\ onCpu = NoOp /\ toWorker # <<>>
    /\ Head(toWorker) = Message("request", id)
    /\ toWorker' = Tail(toWorker)
    /\ running' = running \cup {id} /\ onCpu' = id
    /\ UNCHANGED <<pending, signals, disposed, lost, outcome, word, toPage,
                   flagged, steps, alive>>

(* A mutant: a cancel is kept for an operation that has ended.              *)
HandlesLateCancel(id) ==
    /\ alive /\ onCpu = NoOp /\ toWorker # <<>>
    /\ Head(toWorker) = Message("cancel", id)
    /\ toWorker' = Tail(toWorker)
    /\ flagged' = flagged \cup {id}
    /\ UNCHANGED <<pending, signals, disposed, lost, outcome, word, toPage,
                   running, onCpu, steps, alive>>

(* A mutant: a cancel is answered at once, while the handler goes on.       *)
AnswersCancel(id) ==
    /\ alive /\ onCpu = NoOp /\ toWorker # <<>>
    /\ Head(toWorker) = Message("cancel", id)
    /\ toWorker' = Tail(toWorker)
    /\ flagged' = flagged \cup ({id} \cap running)
    /\ toPage' = IF id \in running THEN Append(toPage, Message("cancelled", id))
                 ELSE toPage
    /\ UNCHANGED <<pending, signals, disposed, lost, outcome, word,
                   running, onCpu, steps, alive>>

(* A cancel for an operation that has ended, or never began, is ignored.    *)
HandlesCancel(id) ==
    /\ alive /\ onCpu = NoOp /\ toWorker # <<>>
    /\ Head(toWorker) = Message("cancel", id)
    /\ toWorker' = Tail(toWorker)
    /\ flagged' = flagged \cup ({id} \cap running)
    /\ UNCHANGED <<pending, signals, disposed, lost, outcome, word, toPage,
                   running, onCpu, steps, alive>>

HandlerAwaits(id) ==
    /\ alive /\ onCpu = id /\ steps[id].awaits < MaxAwaits
    /\ onCpu' = NoOp
    /\ steps' = [steps EXCEPT ![id].awaits = @ + 1]
    /\ UNCHANGED <<pending, signals, disposed, lost, outcome, word, toWorker,
                   toPage, running, flagged, alive>>

HandlerResumes(id) ==
    /\ alive /\ onCpu = NoOp /\ id \in running
    /\ onCpu' = id
    /\ UNCHANGED <<pending, signals, disposed, lost, outcome, word, toWorker,
                   toPage, running, flagged, steps, alive>>

(* reportProgress says nothing once the operation is cancelled.             *)
HandlerReports(id) ==
    /\ alive /\ onCpu = id /\ ~IsCancelled(id) /\ steps[id].reports < MaxReports
    /\ steps' = [steps EXCEPT ![id].reports = @ + 1]
    /\ toPage' = Append(toPage, Message("progress", id))
    /\ UNCHANGED <<pending, signals, disposed, lost, outcome, word, toWorker,
                   running, flagged, onCpu, alive>>

(* run: the one terminal message, and the entry goes.                       *)
HandlerEnds(id, kind) ==
    /\ alive /\ onCpu = id
    /\ toPage' = Append(toPage, Message(kind, id))
    /\ running' = running \ {id} /\ flagged' = flagged \ {id} /\ onCpu' = NoOp
    /\ UNCHANGED <<pending, signals, disposed, lost, outcome, word, toWorker,
                   steps, alive>>

(* A cancellation requested before the handler returned is authoritative.   *)
AnswerFor(id) == IF IsCancelled(id) THEN "cancelled" ELSE "result"

(* A mutant: a cancelled handler that returns answers nothing.              *)
ReturnsInSilence(id) ==
    /\ alive /\ onCpu = id
    /\ toPage' = IF IsCancelled(id) THEN toPage ELSE Append(toPage, Message("result", id))
    /\ running' = running \ {id} /\ flagged' = flagged \ {id} /\ onCpu' = NoOp
    /\ UNCHANGED <<pending, signals, disposed, lost, outcome, word, toWorker,
                   steps, alive>>

HandlerReturns(id) == HandlerEnds(id, AnswerFor(id))

HandlerFails(id) == HandlerEnds(id, "failed")

(* throwIfCancelled.                                                        *)
HandlerStops(id) == IsCancelled(id) /\ HandlerEnds(id, "cancelled")

(* The worker crashes, or its script never loads. What it posted arrives.   *)
WorkerDies ==
    /\ alive /\ alive' = FALSE
    /\ UNCHANGED <<pending, signals, disposed, lost, outcome, word, toWorker,
                   toPage, workerVars>>

---------------------------------------------------------------------------
WorkerLoop(id) == HandlesRequest(id) \/ HandlesCancel(id)

HandlerGoesOn(id) == HandlerResumes(id) \/ HandlerReturns(id)

ProtocolNext ==
    \/ \E id \in Ids :
        \/ Dispatch(id) \/ RequestCancel(id)
        \/ HandlesRequest(id) \/ HandlesCancel(id)
        \/ HandlerAwaits(id) \/ HandlerResumes(id) \/ HandlerReports(id)
        \/ HandlerReturns(id) \/ HandlerFails(id) \/ HandlerStops(id)
        \/ ReceiveAnswer({id})
    \/ ReceiveAnswer({}) \/ ReceiveNotice
    \/ WorkerError \/ MessageError \/ Dispose \/ WorkerDies

ProtocolSpec == ProtocolInit /\ [][ProtocolNext]_protocolVars

(* What the page and the worker's event loop do by themselves: messages are *)
(* delivered, a handler that may go on does, and a worker that dies before  *)
(* the client is disposed is reported.                                      *)
ReceiveMessage == ReceiveNotice \/ \E next \in SUBSET Ids : ReceiveAnswer(next)

ReportDeath == ~alive /\ WorkerError

ProtocolFairness ==
    /\ WF_protocolVars(ReceiveMessage) /\ WF_protocolVars(ReportDeath)
    /\ WF_protocolVars(\E id \in Ids : WorkerLoop(id))
    /\ \A id \in Ids : WF_protocolVars(HandlerGoesOn(id))

FairProtocol == ProtocolSpec /\ ProtocolFairness
---------------------------------------------------------------------------
(* Properties.                                                              *)

ProtocolTypeOK ==
    /\ pending \subseteq Ids /\ signals \subseteq Ids
    /\ disposed \in BOOLEAN /\ lost \in BOOLEAN /\ alive \in BOOLEAN
    /\ outcome \in [Ids -> Outcomes] /\ word \in [Ids -> BOOLEAN]
    /\ toWorker \in Seq(ToWorker) /\ toPage \in Seq(ToPage)
    /\ running \subseteq Ids /\ flagged \subseteq running
    /\ onCpu \in running \cup {NoOp}
    /\ steps \in [Ids -> [reports : 0 .. MaxReports, awaits : 0 .. MaxAwaits]]

(* A promise is open exactly while the coordinator has its entry, so        *)
(* rejecting the entries leaves no promise open, and the shared words it    *)
(* keeps are those of open requests (coordinator.ts: "unbounded             *)
(* collectively" otherwise).                                                *)
OpenPromises ==
    /\ pending = {id \in Ids : outcome[id] = "awaited"}
    /\ signals = pending \cap Interruptible

Asked(id) == {k \in DOMAIN toWorker : toWorker[k] = Message("request", id)}

Answered(id) == {k \in DOMAIN toPage : toPage[k].id = id /\ toPage[k].kind \in Answers}

(* A request is never in two places: it waits in the channel, is handled,   *)
(* or has its one answer on the way; and while the page awaits it from a    *)
(* connected worker it is in one of them, so the answer will come.          *)
OnePlace ==
    \A id \in Ids :
        LET places == Cardinality(Asked(id)) + Cardinality(Answered(id))
                      + IF id \in running THEN 1 ELSE 0
        IN  /\ places <= 1
            /\ outcome[id] = "awaited" /\ alive /\ ~lost => places = 1

(* Once the page has written a request's word the worker sends neither      *)
(* progress nor a result for it, though no message told it to stop.         *)
CancelledWorkIsSilent ==
    [][\A id \in Ids : word[id] /\ Len(toPage') > Len(toPage) =>
        toPage'[Len(toPage')] \notin {Message("progress", id), Message("result", id)}]_protocolVars

(* Every request the page makes of a worker it has not lost is settled,     *)
(* whatever is cancelled, crashes or cannot be deserialised meanwhile.      *)
RequestsSettle ==
    \A id \in Ids : outcome[id] = "awaited" /\ ~lost ~> outcome[id] # "awaited"

(* What geometry-client.ts says of its failure handlers: without them       *)
(* "every pending operation would hang", so with them none does.            *)
NoRequestHangs ==
    \A id \in Ids : outcome[id] = "awaited" ~> outcome[id] # "awaited"
=============================================================================
