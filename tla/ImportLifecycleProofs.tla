----------------------- MODULE ImportLifecycleProofs -----------------------
(* Theorems about WorkerProtocol, for every set of operations and every     *)
(* bound: its types, its promises, and the silence of cancelled work; and   *)
(* about ImportLifecycle, for any number of imports: its messages           *)
(* follow the protocol, the progress bar has an import, the model on screen *)
(* is that of the import begun last and is resident, and only the document  *)
(* of a cancelled import may be left in the worker.                         *)
EXTENDS ImportLifecycle, FiniteSetTheorems, TLAPS

---------------------------------------------------------------------------
(* The worker protocol.                                                     *)

LEMMA HeadAndTail ==
    ASSUME NEW S, NEW s \in Seq(S), s # <<>>
    PROVE  Head(s) \in S /\ Tail(s) \in Seq(S)
  OBVIOUS

LEMMA Appended ==
    ASSUME NEW S, NEW s \in Seq(S), NEW e \in S
    PROVE  Append(s, e) \in Seq(S)
  OBVIOUS

LEMMA Counted ==
    ASSUME NEW m \in Nat, NEW n \in Nat, NEW r \in [reports : 0 .. m, awaits : 0 .. n]
    PROVE  /\ r.reports < m =>
               [r EXCEPT !.reports = @ + 1] \in [reports : 0 .. m, awaits : 0 .. n]
           /\ r.awaits < n =>
               [r EXCEPT !.awaits = @ + 1] \in [reports : 0 .. m, awaits : 0 .. n]
  OBVIOUS

USE DEF Message, Answers, Outcomes, ToWorker, ToPage

LEMMA PostTypes ==
    ASSUME toWorker \in Seq(ToWorker), NEW k \in {"request", "cancel"}, NEW id \in Ids,
           Post(<<Message(k, id)>>)
    PROVE  toWorker' \in Seq(ToWorker)
  <1>1. <<Message(k, id)>> \in Seq(ToWorker)
    OBVIOUS
  <1>2. CASE alive
    BY <1>1, <1>2 DEF Post
  <1>3. CASE ~alive
    BY <1>3 DEF Post
  <1> QED BY <1>2, <1>3

LEMMA AnsweredTypes ==
    ASSUME toPage \in Seq(ToPage), NEW k \in Answers \cup {"progress"}, NEW id \in Ids
    PROVE  Append(toPage, Message(k, id)) \in Seq(ToPage)
  <1>1. Message(k, id) \in ToPage
    OBVIOUS
  <1> QED BY <1>1, Appended

(* The steps of one operation's handler, and of the worker's event loop.    *)
LEMMA WorkerTypes ==
    ASSUME ProtocolTypeOK, NEW id \in Ids,
           \/ HandlesRequest(id) \/ HandlesCancel(id)
           \/ HandlerAwaits(id) \/ HandlerResumes(id) \/ HandlerReports(id)
           \/ HandlerReturns(id) \/ HandlerFails(id) \/ HandlerStops(id)
    PROVE  ProtocolTypeOK'
  <1> USE DEF ProtocolTypeOK
  <1>1. CASE HandlesRequest(id)
    <2>1. toWorker' \in Seq(ToWorker)
      BY <1>1, HeadAndTail DEF HandlesRequest
    <2> QED BY <1>1, <2>1 DEF HandlesRequest
  <1>2. CASE HandlesCancel(id)
    <2>1. toWorker' \in Seq(ToWorker)
      BY <1>2, HeadAndTail DEF HandlesCancel
    <2> QED BY <1>2, <2>1 DEF HandlesCancel
  <1>3. CASE HandlerAwaits(id)
    <2>1. steps' \in [Ids -> [reports : 0 .. MaxReports, awaits : 0 .. MaxAwaits]]
      <3>1. steps[id] \in [reports : 0 .. MaxReports, awaits : 0 .. MaxAwaits]
        OBVIOUS
      <3>2. [steps[id] EXCEPT !.awaits = @ + 1]
                \in [reports : 0 .. MaxReports, awaits : 0 .. MaxAwaits]
        BY <1>3, <3>1, Counted, BoundsAssumption DEF HandlerAwaits
      <3>3. steps' = [steps EXCEPT ![id] = [steps[id] EXCEPT !.awaits = @ + 1]]
        BY <1>3 DEF HandlerAwaits
      <3> QED BY <3>2, <3>3
    <2> QED BY <1>3, <2>1 DEF HandlerAwaits
  <1>4. CASE HandlerResumes(id)
    BY <1>4 DEF HandlerResumes
  <1>5. CASE HandlerReports(id)
    <2>1. steps' \in [Ids -> [reports : 0 .. MaxReports, awaits : 0 .. MaxAwaits]]
      <3>1. steps[id] \in [reports : 0 .. MaxReports, awaits : 0 .. MaxAwaits]
        OBVIOUS
      <3>2. [steps[id] EXCEPT !.reports = @ + 1]
                \in [reports : 0 .. MaxReports, awaits : 0 .. MaxAwaits]
        BY <1>5, <3>1, Counted, BoundsAssumption DEF HandlerReports
      <3>3. steps' = [steps EXCEPT ![id] = [steps[id] EXCEPT !.reports = @ + 1]]
        BY <1>5 DEF HandlerReports
      <3> QED BY <3>2, <3>3
    <2>2. toPage' \in Seq(ToPage)
      BY <1>5, AnsweredTypes DEF HandlerReports
    <2> QED BY <1>5, <2>1, <2>2 DEF HandlerReports
  <1>6. ASSUME NEW kind \in Answers, HandlerEnds(id, kind)
        PROVE  ProtocolTypeOK'
    <2>1. Append(toPage, Message(kind, id)) \in Seq(ToPage)
      BY AnsweredTypes
    <2> QED BY <1>6, <2>1 DEF HandlerEnds
  <1>7. CASE HandlerReturns(id)
    BY <1>6, <1>7 DEF HandlerReturns, AnswerFor
  <1>8. CASE HandlerFails(id)
    BY <1>6, <1>8 DEF HandlerFails
  <1>9. CASE HandlerStops(id)
    BY <1>6, <1>9 DEF HandlerStops
  <1> QED BY <1>1, <1>2, <1>3, <1>4, <1>5, <1>7, <1>8, <1>9

LEMMA ReceiveAnswerTypes ==
    ASSUME ProtocolTypeOK, NEW next \in SUBSET Ids, ReceiveAnswer(next)
    PROVE  ProtocolTypeOK'
  <1> USE DEF ProtocolTypeOK
  <1>1. Head(toPage) \in ToPage /\ toPage' \in Seq(ToPage)
    BY HeadAndTail DEF ReceiveAnswer
  <1>2. toWorker' \in Seq(ToWorker)
    BY PostTypes DEF ReceiveAnswer
  <1>3. /\ pending' \subseteq Ids /\ signals' \subseteq Ids
        /\ outcome' \in [Ids -> Outcomes]
    BY <1>1, IdsAssumption DEF ReceiveAnswer
  <1> QED BY <1>1, <1>2, <1>3 DEF ReceiveAnswer, workerVars

LEMMA PageTypes ==
    ASSUME ProtocolTypeOK,
           \/ \E id \in Ids : Dispatch(id) \/ RequestCancel(id)
           \/ ReceiveNotice \/ WorkerError \/ MessageError \/ Dispose \/ WorkerDies
    PROVE  ProtocolTypeOK'
  <1> USE DEF ProtocolTypeOK, workerVars
  <1>1. ASSUME NEW id \in Ids, Dispatch(id) PROVE ProtocolTypeOK'
    <2>1. toWorker' \in Seq(ToWorker)
      BY <1>1, PostTypes DEF Dispatch
    <2> QED BY <1>1, <2>1 DEF Dispatch
  <1>2. ASSUME NEW id \in Ids, RequestCancel(id) PROVE ProtocolTypeOK'
    <2>1. toWorker' \in Seq(ToWorker)
      BY <1>2, PostTypes DEF RequestCancel
    <2>2. word' \in [Ids -> BOOLEAN]
      BY <1>2 DEF RequestCancel
    <2> QED BY <1>2, <2>1, <2>2 DEF RequestCancel
  <1>3. CASE ReceiveNotice
    BY <1>3, HeadAndTail DEF ReceiveNotice
  <1>4. CASE WorkerError
    BY <1>4 DEF WorkerError, RejectAll
  <1>5. CASE MessageError
    BY <1>5, HeadAndTail DEF MessageError, RejectAll
  <1>6. CASE Dispose
    <2>1. word' \in [Ids -> BOOLEAN]
      BY <1>6 DEF Dispose
    <2> QED BY <1>6, <2>1 DEF Dispose, RejectAll
  <1>7. CASE WorkerDies
    BY <1>7 DEF WorkerDies
  <1> QED BY <1>1, <1>2, <1>3, <1>4, <1>5, <1>6, <1>7

LEMMA ProtocolInitTypes == ProtocolInit => ProtocolTypeOK
  <1> SUFFICES ASSUME ProtocolInit PROVE ProtocolTypeOK
    OBVIOUS
  <1>1. toWorker \in Seq(ToWorker) /\ toPage \in Seq(ToPage)
    BY DEF ProtocolInit
  <1>2. steps \in [Ids -> [reports : 0 .. MaxReports, awaits : 0 .. MaxAwaits]]
    BY BoundsAssumption DEF ProtocolInit
  <1>3. outcome \in [Ids -> Outcomes] /\ word \in [Ids -> BOOLEAN]
    BY DEF ProtocolInit
  <1> QED BY <1>1, <1>2, <1>3 DEF ProtocolInit, ProtocolTypeOK

LEMMA ProtocolNextTypes == ProtocolTypeOK /\ [ProtocolNext]_protocolVars => ProtocolTypeOK'
  <1> SUFFICES ASSUME ProtocolTypeOK, [ProtocolNext]_protocolVars PROVE ProtocolTypeOK'
    OBVIOUS
  <1>1. CASE UNCHANGED protocolVars
    BY <1>1 DEF protocolVars, ProtocolTypeOK
  <1>2. ASSUME NEW id \in Ids, ReceiveAnswer({id}) PROVE ProtocolTypeOK'
    BY <1>2, ReceiveAnswerTypes
  <1>3. CASE ReceiveAnswer({})
    BY <1>3, ReceiveAnswerTypes
  <1> QED BY <1>1, <1>2, <1>3, WorkerTypes, PageTypes DEF ProtocolNext

(* The coordinator, the host and the channels only ever hold what their     *)
(* types say: an operation marked cancelled in the worker is one that runs  *)
(* there, and what executes is one of those.                                *)
THEOREM ProtocolTypes == ProtocolSpec => []ProtocolTypeOK
  BY ProtocolInitTypes, ProtocolNextTypes, PTL DEF ProtocolSpec

---------------------------------------------------------------------------
(* Promises: the entries and the shared words follow the promises' states.  *)

LEMMA RejectAllPromises ==
    ASSUME ProtocolTypeOK, OpenPromises, NEW how \in Outcomes \ {"awaited"}, RejectAll(how)
    PROVE  OpenPromises'
  BY DEF ProtocolTypeOK, OpenPromises, RejectAll

LEMMA DispatchPromises ==
    ASSUME ProtocolTypeOK, OpenPromises, NEW id \in Ids, Dispatch(id)
    PROVE  OpenPromises'
  <1>1. pending' = {i \in Ids : outcome'[i] = "awaited"}
    BY DEF ProtocolTypeOK, OpenPromises, Dispatch
  <1>2. signals' = pending' \cap Interruptible
    BY DEF OpenPromises, Dispatch
  <1> QED BY <1>1, <1>2 DEF OpenPromises

LEMMA ReceiveAnswerPromises ==
    ASSUME ProtocolTypeOK, OpenPromises, NEW next \in SUBSET Ids, ReceiveAnswer(next)
    PROVE  OpenPromises'
  <1> DEFINE answer == Head(toPage)
  <1>1. /\ answer.id \in pending /\ answer.kind # "awaited"
        /\ answer.id \notin next
    BY DEF OpenPromises, ReceiveAnswer
  <1>2. /\ pending' = (pending \ {answer.id}) \cup next
        /\ signals' = (signals \ {answer.id}) \cup (next \cap Interruptible)
        /\ outcome' = [id \in Ids |-> IF id = answer.id THEN answer.kind
                                      ELSE IF id \in next THEN "awaited"
                                      ELSE outcome[id]]
    BY DEF ReceiveAnswer
  <1> HIDE DEF answer
  <1>3. pending' = {id \in Ids : outcome'[id] = "awaited"}
    BY <1>1, <1>2 DEF OpenPromises
  <1>4. signals' = pending' \cap Interruptible
    BY <1>1, <1>2 DEF OpenPromises
  <1> QED BY <1>3, <1>4 DEF OpenPromises

LEMMA PromisesKept ==
    ProtocolTypeOK /\ OpenPromises /\ [ProtocolNext]_protocolVars => OpenPromises'
  <1> SUFFICES ASSUME ProtocolTypeOK, OpenPromises, [ProtocolNext]_protocolVars
               PROVE  OpenPromises'
    OBVIOUS
  <1>1. ASSUME UNCHANGED <<pending, signals, outcome>> PROVE OpenPromises'
    BY <1>1 DEF OpenPromises
  <1>2. CASE UNCHANGED protocolVars
    BY <1>1, <1>2 DEF protocolVars
  <1>3. ASSUME NEW id \in Ids,
               \/ RequestCancel(id) \/ HandlesRequest(id) \/ HandlesCancel(id)
               \/ HandlerAwaits(id) \/ HandlerResumes(id) \/ HandlerReports(id)
        PROVE  OpenPromises'
    BY <1>1, <1>3 DEF RequestCancel, HandlesRequest, HandlesCancel, HandlerAwaits,
                      HandlerResumes, HandlerReports
  <1>4. ASSUME NEW id \in Ids, HandlerReturns(id) \/ HandlerFails(id) \/ HandlerStops(id)
        PROVE  OpenPromises'
    BY <1>1, <1>4 DEF HandlerReturns, HandlerFails, HandlerStops, HandlerEnds
  <1>5. CASE ReceiveNotice \/ WorkerDies
    BY <1>1, <1>5 DEF ReceiveNotice, WorkerDies
  <1>6. CASE WorkerError \/ MessageError
    BY <1>6, RejectAllPromises DEF WorkerError, MessageError
  <1>7. CASE Dispose
    BY <1>7, RejectAllPromises DEF Dispose
  <1>8. ASSUME NEW id \in Ids, Dispatch(id) \/ ReceiveAnswer({id}) PROVE OpenPromises'
    BY <1>8, DispatchPromises, ReceiveAnswerPromises
  <1>9. CASE ReceiveAnswer({})
    BY <1>9, ReceiveAnswerPromises
  <1> QED BY <1>2, <1>3, <1>4, <1>5, <1>6, <1>7, <1>8, <1>9 DEF ProtocolNext

(* For every set of operations, a promise is open exactly while the         *)
(* coordinator has its entry, and a shared word is kept exactly for an open *)
(* interruptible request, through losses and disposal.                      *)
THEOREM PromisesAreTracked == ProtocolSpec => []OpenPromises
  <1>1. ProtocolInit => OpenPromises
    BY DEF ProtocolInit, OpenPromises
  <1> QED BY <1>1, PromisesKept, ProtocolTypes, PTL DEF ProtocolSpec

---------------------------------------------------------------------------
(* Silence: what the worker says of an operation whose word is set.         *)

Silent(id) ==
    word[id] /\ Len(toPage') > Len(toPage) =>
        toPage'[Len(toPage')] \notin {Message("progress", id), Message("result", id)}

LEMMA LastAppended ==
    ASSUME NEW S, NEW s \in Seq(S), NEW e
    PROVE  Append(s, e)[Len(Append(s, e))] = e
  OBVIOUS

LEMMA NotLonger ==
    ASSUME NEW S, NEW s \in Seq(S)
    PROVE  /\ ~(Len(s) > Len(s))
           /\ s # <<>> => ~(Len(Tail(s)) > Len(s))
  OBVIOUS

LEMMA EndsSilently ==
    ASSUME ProtocolTypeOK, NEW op \in Ids, NEW kind \in Answers, HandlerEnds(op, kind),
           kind = "result" => ~word[op], NEW id \in Ids
    PROVE  Silent(id)
  <1>1. toPage'[Len(toPage')] = Message(kind, op)
    BY LastAppended DEF HandlerEnds, ProtocolTypeOK
  <1> QED BY <1>1 DEF Silent

LEMMA SilentSteps ==
    ASSUME ProtocolTypeOK, [ProtocolNext]_protocolVars, NEW id \in Ids
    PROVE  Silent(id)
  <1>1. ASSUME \/ UNCHANGED toPage
               \/ toPage # <<>> /\ toPage' = Tail(toPage)
        PROVE  Silent(id)
    BY <1>1, NotLonger DEF Silent, ProtocolTypeOK
  <1>2. CASE UNCHANGED protocolVars
    BY <1>1, <1>2 DEF protocolVars
  <1>3. ASSUME NEW op \in Ids,
               \/ Dispatch(op) \/ RequestCancel(op) \/ HandlesRequest(op)
               \/ HandlesCancel(op) \/ HandlerAwaits(op) \/ HandlerResumes(op)
               \/ ReceiveAnswer({op})
        PROVE  Silent(id)
    BY <1>1, <1>3 DEF Dispatch, RequestCancel, HandlesRequest, HandlesCancel,
                      HandlerAwaits, HandlerResumes, ReceiveAnswer
  <1>4. CASE ReceiveAnswer({}) \/ ReceiveNotice
    BY <1>1, <1>4 DEF ReceiveAnswer, ReceiveNotice
  <1>5. CASE WorkerError \/ MessageError \/ Dispose \/ WorkerDies
    BY <1>1, <1>5 DEF WorkerError, MessageError, Dispose, WorkerDies
  <1>6. ASSUME NEW op \in Ids, HandlerReports(op) PROVE Silent(id)
    <2>1. toPage'[Len(toPage')] = Message("progress", op)
      BY <1>6, LastAppended DEF HandlerReports, ProtocolTypeOK
    <2>2. ~word[op]
      BY <1>6 DEF HandlerReports, IsCancelled
    <2> QED BY <2>1, <2>2 DEF Silent
  <1>7. ASSUME NEW op \in Ids, HandlerReturns(op) PROVE Silent(id)
    <2>1. AnswerFor(op) \in Answers /\ (AnswerFor(op) = "result" => ~word[op])
      BY DEF AnswerFor, IsCancelled
    <2> QED BY <1>7, <2>1, EndsSilently DEF HandlerReturns
  <1>8. ASSUME NEW op \in Ids, HandlerFails(op) \/ HandlerStops(op) PROVE Silent(id)
    BY <1>8, EndsSilently DEF HandlerFails, HandlerStops
  <1> QED BY <1>2, <1>3, <1>4, <1>5, <1>6, <1>7, <1>8 DEF ProtocolNext

(* For every set of operations, the worker sends neither progress nor a     *)
(* result for a request whose word the page has written, whether or not the *)
(* cancel message was handled.                                              *)
THEOREM WordSilencesTheWorker == ProtocolSpec => CancelledWorkIsSilent
  <1>1. ProtocolTypeOK /\ [ProtocolNext]_protocolVars
            => [\A id \in Ids : Silent(id)]_protocolVars
    BY SilentSteps
  <1>2. (\A id \in Ids : Silent(id))
            <=> \A id \in Ids : word[id] /\ Len(toPage') > Len(toPage) =>
                    toPage'[Len(toPage')] \notin
                        {Message("progress", id), Message("result", id)}
    BY DEF Silent
  <1> QED BY <1>1, <1>2, ProtocolTypes, PTL DEF ProtocolSpec, CancelledWorkIsSilent

---------------------------------------------------------------------------
(* Places: a request waits in the channel, is handled, or has its answer on *)
(* the way, and is counted once.                                            *)

HIDE DEF Message, Answers, Outcomes, ToWorker, ToPage

Holds(channel, messages) == \E k \in DOMAIN channel : channel[k] \in messages

AtMostOne(channel, messages) ==
    \A j, k \in DOMAIN channel :
        channel[j] \in messages /\ channel[k] \in messages => j = k

RequestOf(id) == {[kind |-> "request", id |-> id]}

CancelOf(id) == {[kind |-> "cancel", id |-> id]}

AnswersTo(id) == [kind : Answers, id : {id}]

IsWaiting(id) == Holds(toWorker, RequestOf(id))

IsAnswered(id) == Holds(toPage, AnswersTo(id))

HasPlace(id) == IsWaiting(id) \/ id \in running \/ IsAnswered(id)

(* What makes OnePlace inductive: before it is sent, and once its result    *)
(* was received, a request is nowhere; and nothing is under way for a       *)
(* request that a connected page does not await.                            *)
IsPlaced(id) ==
    /\ AtMostOne(toWorker, RequestOf(id)) /\ AtMostOne(toPage, AnswersTo(id))
    /\ ~(IsWaiting(id) /\ id \in running)
    /\ ~(IsWaiting(id) /\ IsAnswered(id))
    /\ ~(id \in running /\ IsAnswered(id))
    /\ outcome[id] \in {"unsent", "result"} => ~HasPlace(id)
    /\ alive /\ ~lost => (HasPlace(id) <=> outcome[id] = "awaited")

PlaceInv == \A id \in Ids : IsPlaced(id)

LEMMA TailHolds ==
    ASSUME NEW S, NEW s \in Seq(S), s # <<>>, NEW messages
    PROVE  /\ AtMostOne(s, messages) => AtMostOne(Tail(s), messages)
           /\ Holds(Tail(s), messages) => Holds(s, messages)
           /\ AtMostOne(s, messages) /\ Head(s) \in messages => ~Holds(Tail(s), messages)
           /\ Head(s) \notin messages /\ Holds(s, messages) => Holds(Tail(s), messages)
  <1>1. /\ Len(s) \in Nat \ {0} /\ Head(s) = s[1]
        /\ DOMAIN s = 1 .. Len(s) /\ DOMAIN Tail(s) = 1 .. (Len(s) - 1)
        /\ \A k \in 1 .. (Len(s) - 1) : Tail(s)[k] = s[k + 1] /\ k + 1 \in 1 .. Len(s)
    OBVIOUS
  <1>2. AtMostOne(s, messages) => AtMostOne(Tail(s), messages)
    BY <1>1 DEF AtMostOne
  <1>3. Holds(Tail(s), messages) => Holds(s, messages)
    BY <1>1 DEF Holds
  <1>4. AtMostOne(s, messages) /\ Head(s) \in messages => ~Holds(Tail(s), messages)
    <2>1. 1 \in DOMAIN s /\ \A k \in DOMAIN Tail(s) : k + 1 # 1
      BY <1>1
    <2> QED BY <1>1, <2>1 DEF AtMostOne, Holds
  <1>5. ASSUME Head(s) \notin messages, Holds(s, messages) PROVE Holds(Tail(s), messages)
    <2>1. PICK k \in 1 .. Len(s) : s[k] \in messages
      BY <1>1, <1>5 DEF Holds
    <2>2. k # 1 /\ k - 1 \in 1 .. (Len(s) - 1) /\ (k - 1) + 1 = k
      BY <1>1, <1>5, <2>1
    <2>3. Tail(s)[k - 1] = s[k]
      BY <1>1, <2>2
    <2> QED BY <1>1, <2>1, <2>2, <2>3 DEF Holds
  <1> QED BY <1>2, <1>3, <1>4, <1>5

LEMMA AppendHolds ==
    ASSUME NEW S, NEW s \in Seq(S), NEW e, NEW messages
    PROVE  /\ Holds(Append(s, e), messages) <=> Holds(s, messages) \/ e \in messages
           /\ AtMostOne(s, messages) /\ (e \notin messages \/ ~Holds(s, messages))
                => AtMostOne(Append(s, e), messages)
  <1>1. /\ Len(s) \in Nat /\ DOMAIN s = 1 .. Len(s)
        /\ DOMAIN Append(s, e) = 1 .. (Len(s) + 1)
        /\ \A k \in 1 .. Len(s) : Append(s, e)[k] = s[k]
        /\ Append(s, e)[Len(s) + 1] = e
    OBVIOUS
  <1>2. \A k \in 1 .. (Len(s) + 1) : k \in 1 .. Len(s) \/ k = Len(s) + 1
    BY <1>1
  <1>3. Holds(Append(s, e), messages) <=> Holds(s, messages) \/ e \in messages
    BY <1>1, <1>2 DEF Holds
  <1>4. ASSUME AtMostOne(s, messages), e \notin messages \/ ~Holds(s, messages)
        PROVE  AtMostOne(Append(s, e), messages)
    BY <1>1, <1>2, <1>4 DEF Holds, AtMostOne
  <1> QED BY <1>3, <1>4

LEMMA PostAppends ==
    ASSUME toWorker \in Seq(ToWorker), NEW message \in ToWorker, Post(<<message>>)
    PROVE  toWorker' = IF alive THEN Append(toWorker, message) ELSE toWorker
  <1>1. ASSUME NEW S, NEW s \in Seq(S), NEW e \in S PROVE s \o <<e>> = Append(s, e)
    OBVIOUS
  <1> QED BY <1>1 DEF Post

LEMMA Kinds ==
    ASSUME NEW id, NEW other
    PROVE  /\ Message("request", other) \in RequestOf(id) <=> other = id
           /\ Message("cancel", other) \notin RequestOf(id)
           /\ Message("progress", other) \notin AnswersTo(id)
           /\ \A k \in Answers : Message(k, other) \in AnswersTo(id) <=> other = id
           /\ \A m \in ToPage : m \in AnswersTo(id) <=> m.kind \in Answers /\ m.id = id
  BY DEF RequestOf, AnswersTo, Message, Answers, ToPage

(* A message taken from a channel, and one put into it.                     *)
LEMMA Taken ==
    ASSUME NEW S, NEW s \in Seq(S), s # <<>>, NEW t, t = Tail(s), NEW messages,
           AtMostOne(s, messages)
    PROVE  /\ AtMostOne(t, messages)
           /\ Head(s) \in messages => Holds(s, messages)
           /\ Holds(t, messages) <=> Holds(s, messages) /\ Head(s) \notin messages
  <1>1. Head(s) \in messages => Holds(s, messages)
    <2>1. 1 \in DOMAIN s /\ Head(s) = s[1]
      OBVIOUS
    <2> QED BY <2>1 DEF Holds
  <1> QED BY <1>1, TailHolds

LEMMA RequestTaken ==
    ASSUME ProtocolTypeOK, NEW op \in Ids, HandlesRequest(op), NEW id \in Ids, IsPlaced(id)
    PROVE  IsPlaced(id)'
  <1>1. /\ toWorker \in Seq(ToWorker) /\ toWorker # <<>> /\ toWorker' = Tail(toWorker)
        /\ Head(toWorker) = Message("request", op)
        /\ AtMostOne(toWorker, RequestOf(id))
    BY DEF ProtocolTypeOK, HandlesRequest, IsPlaced
  <1>2. Head(toWorker) \in RequestOf(id) <=> op = id
    BY <1>1, Kinds
  <1>3. /\ AtMostOne(toWorker', RequestOf(id))
        /\ IsWaiting(id)' <=> IsWaiting(id) /\ op # id
        /\ op = id => IsWaiting(id)
    BY <1>1, <1>2, Taken DEF IsWaiting
  <1>4. /\ running' = running \cup {op}
        /\ UNCHANGED <<toPage, outcome, alive, lost>>
    BY DEF HandlesRequest
  <1> QED BY <1>3, <1>4 DEF IsPlaced, HasPlace, IsAnswered

LEMMA NothingMoves ==
    ASSUME NEW id \in Ids, IsPlaced(id),
           UNCHANGED <<toWorker, running, toPage, outcome>>,
           alive' => alive, lost => lost'
    PROVE  IsPlaced(id)'
  BY DEF IsPlaced, HasPlace, IsWaiting, IsAnswered

LEMMA CancelTaken ==
    ASSUME ProtocolTypeOK, NEW op \in Ids, HandlesCancel(op), NEW id \in Ids, IsPlaced(id)
    PROVE  IsPlaced(id)'
  <1>1. /\ toWorker \in Seq(ToWorker) /\ toWorker # <<>> /\ toWorker' = Tail(toWorker)
        /\ Head(toWorker) = Message("cancel", op)
        /\ AtMostOne(toWorker, RequestOf(id))
    BY DEF ProtocolTypeOK, HandlesCancel, IsPlaced
  <1>2. Head(toWorker) \notin RequestOf(id)
    BY <1>1, Kinds
  <1>3. AtMostOne(toWorker', RequestOf(id)) /\ (IsWaiting(id)' <=> IsWaiting(id))
    BY <1>1, <1>2, Taken DEF IsWaiting
  <1> QED BY <1>3 DEF HandlesCancel, IsPlaced, HasPlace, IsAnswered

LEMMA CancelPosted ==
    ASSUME ProtocolTypeOK, NEW op \in Ids, RequestCancel(op), NEW id \in Ids, IsPlaced(id)
    PROVE  IsPlaced(id)'
  <1>1. /\ toWorker \in Seq(ToWorker) /\ Message("cancel", op) \in ToWorker
        /\ Post(<<Message("cancel", op)>>)
    BY DEF ProtocolTypeOK, RequestCancel, Message, ToWorker
  <1>2. toWorker' = IF alive THEN Append(toWorker, Message("cancel", op)) ELSE toWorker
    BY <1>1, PostAppends
  <1>3. AtMostOne(toWorker', RequestOf(id)) /\ (IsWaiting(id)' <=> IsWaiting(id))
    BY <1>1, <1>2, Kinds, AppendHolds DEF IsWaiting, IsPlaced
  <1> QED BY <1>3 DEF RequestCancel, workerVars, IsPlaced, HasPlace, IsAnswered

(* What posting the request of an operation that was never sent does.       *)
LEMMA RequestPosted ==
    ASSUME ProtocolTypeOK, NEW op \in Ids, Post(<<Message("request", op)>>),
           NEW id \in Ids, IsPlaced(id), outcome[op] = "unsent"
    PROVE  /\ AtMostOne(toWorker', RequestOf(id))
           /\ IsWaiting(id)' <=> IsWaiting(id) \/ (alive /\ op = id)
  <1>1. toWorker \in Seq(ToWorker) /\ Message("request", op) \in ToWorker
    BY DEF ProtocolTypeOK, Message, ToWorker
  <1>2. toWorker' = IF alive THEN Append(toWorker, Message("request", op)) ELSE toWorker
    BY <1>1, PostAppends
  <1>3. op = id => ~IsWaiting(id)
    BY DEF IsPlaced, HasPlace
  <1> QED BY <1>1, <1>2, <1>3, Kinds, AppendHolds DEF IsWaiting, IsPlaced

LEMMA DispatchPlaced ==
    ASSUME ProtocolTypeOK, NEW op \in Ids, Dispatch(op), NEW id \in Ids, IsPlaced(id)
    PROVE  IsPlaced(id)'
  <1>1. /\ AtMostOne(toWorker', RequestOf(id))
        /\ IsWaiting(id)' <=> IsWaiting(id) \/ (alive /\ op = id)
    BY RequestPosted DEF Dispatch
  <1>2. /\ outcome[op] = "unsent"
        /\ outcome'[op] = "awaited" /\ (id # op => outcome'[id] = outcome[id])
        /\ UNCHANGED <<running, toPage, alive, lost>>
    BY DEF Dispatch, ProtocolTypeOK, workerVars
  <1> QED BY <1>1, <1>2 DEF IsPlaced, HasPlace, IsAnswered

LEMMA NoticePlaced ==
    ASSUME ProtocolTypeOK, OpenPromises, ReceiveNotice, NEW id \in Ids, IsPlaced(id)
    PROVE  IsPlaced(id)'
  <1>1. /\ toPage \in Seq(ToPage) /\ toPage # <<>> /\ toPage' = Tail(toPage)
        /\ Head(toPage) \in ToPage
        /\ AtMostOne(toPage, AnswersTo(id))
        /\ Head(toPage).kind = "progress" \/ Head(toPage).id \notin pending
    BY HeadAndTail DEF ProtocolTypeOK, ReceiveNotice, IsPlaced
  <1>2. /\ AtMostOne(toPage', AnswersTo(id))
        /\ IsAnswered(id)' <=> IsAnswered(id) /\ Head(toPage) \notin AnswersTo(id)
        /\ Head(toPage) \in AnswersTo(id) => IsAnswered(id)
    BY <1>1, Taken DEF IsAnswered
  <1>3. Head(toPage) \in AnswersTo(id) => outcome[id] # "awaited"
    BY <1>1, Kinds, SMTT(20) DEF Answers, OpenPromises
  <1> QED BY <1>2, <1>3 DEF ReceiveNotice, workerVars, IsPlaced, HasPlace, IsWaiting

LEMMA AnswerPlaced ==
    ASSUME ProtocolTypeOK, OpenPromises, NEW next \in SUBSET Ids, ReceiveAnswer(next),
           NEW id \in Ids, PlaceInv
    PROVE  IsPlaced(id)'
  <1> DEFINE answer == Head(toPage)
  <1>1. /\ toPage \in Seq(ToPage) /\ toPage # <<>> /\ toPage' = Tail(toPage)
        /\ answer \in ToPage /\ answer.kind \in Answers /\ answer.id \in pending
        /\ answer.id \in Ids /\ IsPlaced(id) /\ IsPlaced(answer.id)
        /\ AtMostOne(toPage, AnswersTo(id))
    BY HeadAndTail DEF ProtocolTypeOK, ReceiveAnswer, PlaceInv, IsPlaced
  <1>2. /\ AtMostOne(toPage', AnswersTo(id))
        /\ IsAnswered(id)' <=> IsAnswered(id) /\ id # answer.id
        /\ id = answer.id => IsAnswered(id)
    <2>1. answer \in AnswersTo(id) <=> id = answer.id
      BY <1>1, Kinds
    <2> QED BY <1>1, <2>1, Taken DEF IsAnswered
  <1>3. /\ outcome' = [i \in Ids |-> IF i = answer.id THEN answer.kind
                                     ELSE IF i \in next THEN "awaited" ELSE outcome[i]]
        /\ \A i \in next : outcome[i] = "unsent"
        /\ IF next = {} THEN UNCHANGED toWorker
           ELSE \E i \in next : next = {i} /\ Post(<<Message("request", i)>>)
        /\ UNCHANGED <<running, alive, lost>>
    BY DEF ReceiveAnswer, workerVars
  <1>4. outcome[answer.id] = "awaited" /\ answer.kind # "awaited" /\ answer.kind # "unsent"
    BY <1>1 DEF OpenPromises, Answers
  <1> HIDE DEF answer
  <1>5. /\ AtMostOne(toWorker', RequestOf(id))
        /\ IsWaiting(id)' <=> IsWaiting(id) \/ (alive /\ id \in next)
    <2>1. CASE next = {}
      BY <1>1, <1>3, <2>1 DEF IsPlaced, IsWaiting
    <2>2. ASSUME NEW op \in next, next = {op}, Post(<<Message("request", op)>>)
          PROVE  /\ AtMostOne(toWorker', RequestOf(id))
                 /\ IsWaiting(id)' <=> IsWaiting(id) \/ (alive /\ id \in next)
      BY <1>1, <1>3, <2>2, RequestPosted
    <2> QED BY <1>3, <2>1, <2>2
  <1>6. CASE id = answer.id
    BY <1>1, <1>2, <1>3, <1>4, <1>5, <1>6 DEF IsPlaced, HasPlace
  <1>7. CASE id \in next /\ id # answer.id
    BY <1>1, <1>2, <1>3, <1>5, <1>7 DEF IsPlaced, HasPlace
  <1>8. CASE id \notin next /\ id # answer.id
    BY <1>1, <1>2, <1>3, <1>5, <1>8 DEF IsPlaced, HasPlace
  <1> QED BY <1>6, <1>7, <1>8

LEMMA EndPlaced ==
    ASSUME ProtocolTypeOK, NEW op \in Ids, NEW kind \in Answers, HandlerEnds(op, kind),
           NEW id \in Ids, IsPlaced(id)
    PROVE  IsPlaced(id)'
  <1>1. /\ toPage \in Seq(ToPage) /\ toPage' = Append(toPage, Message(kind, op))
        /\ running' = running \ {op} /\ op \in running
        /\ UNCHANGED <<toWorker, outcome, alive, lost>>
    BY IdsAssumption DEF ProtocolTypeOK, HandlerEnds
  <1>2. Message(kind, op) \in AnswersTo(id) <=> op = id
    BY Kinds
  <1>3. op = id => ~IsAnswered(id)
    BY <1>1 DEF IsPlaced
  <1>4. /\ AtMostOne(toPage', AnswersTo(id))
        /\ IsAnswered(id)' <=> IsAnswered(id) \/ op = id
    BY <1>1, <1>2, <1>3, AppendHolds DEF IsAnswered, IsPlaced
  <1> QED BY <1>1, <1>4 DEF IsPlaced, HasPlace, IsWaiting

LEMMA ReportPlaced ==
    ASSUME ProtocolTypeOK, NEW op \in Ids, HandlerReports(op), NEW id \in Ids, IsPlaced(id)
    PROVE  IsPlaced(id)'
  <1>1. AtMostOne(toPage', AnswersTo(id)) /\ (IsAnswered(id)' <=> IsAnswered(id))
    <2>1. toPage \in Seq(ToPage) /\ toPage' = Append(toPage, Message("progress", op))
      BY DEF ProtocolTypeOK, HandlerReports
    <2>2. Message("progress", op) \notin AnswersTo(id)
      BY Kinds
    <2> QED BY <2>1, <2>2, AppendHolds DEF IsAnswered, IsPlaced
  <1> QED BY <1>1 DEF HandlerReports, IsPlaced, HasPlace, IsWaiting

(* The page gives up on its requests: nothing it awaits is left behind.     *)
LEMMA RejectionPlaced ==
    ASSUME ProtocolTypeOK, OpenPromises, WorkerError \/ MessageError \/ Dispose,
           NEW id \in Ids, IsPlaced(id)
    PROVE  IsPlaced(id)'
  <1>1. /\ outcome'[id] # "awaited" /\ (outcome'[id] # outcome[id] =>
             outcome[id] = "awaited" /\ outcome'[id] \in {"abandoned", "cancelled"})
        /\ UNCHANGED <<toWorker, running>>
        /\ lost' \/ ~alive'
    BY DEF WorkerError, MessageError, Dispose, RejectAll, workerVars, ProtocolTypeOK,
           OpenPromises
  <1>2. AtMostOne(toPage', AnswersTo(id)) /\ (IsAnswered(id)' => IsAnswered(id))
    <2>1. CASE UNCHANGED toPage
      BY <2>1 DEF IsPlaced, IsAnswered
    <2>2. CASE MessageError
      BY <2>2, TailHolds DEF MessageError, ProtocolTypeOK, IsPlaced, IsAnswered
    <2> QED BY <2>1, <2>2 DEF WorkerError, Dispose
  <1> QED BY <1>1, <1>2 DEF IsPlaced, HasPlace, IsWaiting

LEMMA PlaceKept ==
    ProtocolTypeOK /\ OpenPromises /\ PlaceInv /\ [ProtocolNext]_protocolVars => PlaceInv'
  <1> SUFFICES ASSUME ProtocolTypeOK, OpenPromises, PlaceInv, [ProtocolNext]_protocolVars,
                      NEW id \in Ids
               PROVE  IsPlaced(id)'
    BY DEF PlaceInv
  <1>0. IsPlaced(id)
    BY DEF PlaceInv
  <1>1. CASE UNCHANGED protocolVars
    BY <1>0, <1>1, NothingMoves DEF protocolVars
  <1>2. ASSUME NEW op \in Ids, HandlerAwaits(op) \/ HandlerResumes(op) PROVE IsPlaced(id)'
    BY <1>0, <1>2, NothingMoves DEF HandlerAwaits, HandlerResumes
  <1>3. CASE WorkerDies
    BY <1>0, <1>3, NothingMoves DEF WorkerDies, workerVars
  <1>4. ASSUME NEW op \in Ids, HandlerReturns(op) \/ HandlerFails(op) \/ HandlerStops(op)
        PROVE  IsPlaced(id)'
    <2>1. \E kind \in Answers : HandlerEnds(op, kind)
      BY <1>4 DEF HandlerReturns, HandlerFails, HandlerStops, AnswerFor, Answers
    <2> QED BY <1>0, <2>1, EndPlaced
  <1>5. ASSUME NEW op \in Ids,
               \/ Dispatch(op) \/ RequestCancel(op) \/ HandlesRequest(op)
               \/ HandlesCancel(op) \/ HandlerReports(op)
        PROVE  IsPlaced(id)'
    BY <1>0, <1>5, DispatchPlaced, CancelPosted, RequestTaken, CancelTaken, ReportPlaced
  <1>6. ASSUME NEW next \in SUBSET Ids, ReceiveAnswer(next) PROVE IsPlaced(id)'
    BY <1>6, AnswerPlaced
  <1>7. CASE ReceiveNotice \/ WorkerError \/ MessageError \/ Dispose
    BY <1>0, <1>7, NoticePlaced, RejectionPlaced
  <1> QED BY <1>1, <1>2, <1>3, <1>4, <1>5, <1>6, <1>7 DEF ProtocolNext

LEMMA PlaceInvariant == ProtocolSpec => []PlaceInv
  <1>1. ProtocolInit => PlaceInv
    <2> SUFFICES ASSUME ProtocolInit, NEW id \in Ids PROVE IsPlaced(id)
      BY DEF PlaceInv
    <2>1. DOMAIN toWorker = {} /\ DOMAIN toPage = {} /\ running = {} /\ outcome[id] = "unsent"
      BY DEF ProtocolInit
    <2> QED BY <2>1 DEF IsPlaced, HasPlace, IsWaiting, IsAnswered, Holds, AtMostOne
  <1> QED BY <1>1, PlaceKept, ProtocolTypes, PromisesAreTracked, PTL DEF ProtocolSpec

LEMMA CountOfAtMostOne ==
    ASSUME NEW places, \A j, k \in places : j = k
    PROVE  Cardinality(places) = IF places = {} THEN 0 ELSE 1
  <1>1. CASE places = {}
    BY <1>1, FS_EmptySet
  <1>2. ASSUME NEW k \in places PROVE Cardinality(places) = 1
    <2>1. places = {k}
      BY <1>2
    <2> QED BY <2>1, FS_Singleton
  <1> QED BY <1>1, <1>2

(* For every set of operations and through every loss, crash, cancel and    *)
(* disposal: a request is in the channel, with its handler or answered, and *)
(* never in two of these places; and one that a connected page awaits from  *)
(* a live worker is in one of them.                                         *)
THEOREM RequestsHaveOnePlace == ProtocolSpec => []OnePlace
  <1>1. ASSUME ProtocolTypeOK, PlaceInv PROVE OnePlace
    <2> SUFFICES ASSUME NEW id \in Ids
                 PROVE  LET places == Cardinality(Asked(id)) + Cardinality(Answered(id))
                                      + IF id \in running THEN 1 ELSE 0
                        IN  /\ places <= 1
                            /\ outcome[id] = "awaited" /\ alive /\ ~lost => places = 1
      BY DEF OnePlace
    <2>0. IsPlaced(id)
      BY <1>1 DEF PlaceInv
    <2>1. Asked(id) = {k \in DOMAIN toWorker : toWorker[k] \in RequestOf(id)}
      BY DEF Asked, RequestOf, Message
    <2>2. Answered(id) = {k \in DOMAIN toPage : toPage[k] \in AnswersTo(id)}
      <3>1. \A k \in DOMAIN toPage : toPage[k] \in ToPage
        BY <1>1 DEF ProtocolTypeOK
      <3> QED BY <3>1, Kinds DEF Answered
    <2>3. /\ \A j, k \in Asked(id) : j = k
          /\ \A j, k \in Answered(id) : j = k
          /\ Asked(id) # {} <=> IsWaiting(id)
          /\ Answered(id) # {} <=> IsAnswered(id)
      BY <2>0, <2>1, <2>2 DEF IsPlaced, AtMostOne, Holds, IsWaiting, IsAnswered
    <2>4. /\ Cardinality(Asked(id)) = IF IsWaiting(id) THEN 1 ELSE 0
          /\ Cardinality(Answered(id)) = IF IsAnswered(id) THEN 1 ELSE 0
      BY <2>3, CountOfAtMostOne
    <2> QED BY <2>0, <2>4 DEF IsPlaced, HasPlace
  <1> QED BY <1>1, ProtocolTypes, PlaceInvariant, PTL

---------------------------------------------------------------------------
(* The protocol under the imports: every step is one of the protocol, or    *)
(* leaves it alone.                                                         *)

LEMMA RequestIds ==
    /\ \A i \in Imports : Import(i) \in Ids /\ Release(i) \in Ids
    /\ \A id \in ImportIds : id \in Ids
  BY RequestsAssumption DEF ImportIds

LEMMA CancelFollows ==
    ASSUME ProtocolTypeOK, CancelSession
    PROVE  [ProtocolNext]_protocolVars
  <1>1. CASE UNCHANGED protocolVars
    BY <1>1
  <1>2. CASE Import(session) \in pending /\ RequestCancel(Import(session))
    BY <1>2 DEF ProtocolTypeOK, ProtocolNext
  <1> QED BY <1>1, <1>2 DEF CancelSession

LEMMA AnswerFollows ==
    ASSUME NEW d \in Imports \cup {0}, ReceiveAnswer({Release(e) : e \in {d} \cap Imports})
    PROVE  ProtocolNext
  <1>1. CASE d \in Imports
    <2>1. {Release(e) : e \in {d} \cap Imports} = {Release(d)}
      BY <1>1
    <2> QED BY <1>1, <2>1, RequestIds DEF ProtocolNext
  <1>2. CASE d \notin Imports
    <2>1. {Release(e) : e \in {d} \cap Imports} = {}
      BY <1>2
    <2> QED BY <2>1 DEF ProtocolNext
  <1> QED BY <1>1, <1>2

(* What the hook keeps: the imports are numbered in order, and only the one *)
(* begun last can hold the token.                                           *)
HookInv ==
    /\ begun \in 0 .. MaxImports
    /\ phase \in [Imports -> {"idle", "reading", "sent", "over"}]
    /\ token \in {0, begun}
    /\ shown \in Imports \cup {0}
    /\ BarHasAnImport

LEMMA PageFollows ==
    ASSUME ProtocolTypeOK, HookInv, PageNext
    PROVE  [ProtocolNext]_protocolVars
  <1>1. CASE ImportFile \/ CancelImport
    BY <1>1, CancelFollows DEF ImportFile, CancelImport
  <1>2. ASSUME NEW i \in Imports, FileRead(i) \/ ReadingFails(i)
        PROVE  [ProtocolNext]_protocolVars
    BY <1>2, RequestIds DEF FileRead, ReadingFails, ProtocolNext
  <1>3. ASSUME NEW i \in Imports, ReceiveImported(i) PROVE ProtocolNext
    <2>1. CASE token = i
      BY <1>3, <2>1, AnswerFollows DEF ReceiveImported, HookInv
    <2>2. CASE token # i
      BY <1>3, <2>2, RequestIds DEF ReceiveImported, ProtocolNext
    <2> QED BY <2>1, <2>2
  <1>4. ASSUME NEW i \in Imports, ReceiveImportError(i) PROVE ProtocolNext
    BY <1>4 DEF ReceiveImportError, ProtocolNext
  <1>5. CASE ReceiveReleased \/ ReceiveOther
    BY <1>5 DEF ReceiveReleased, ReceiveOther, ProtocolNext
  <1>6. CASE LoseWorker \/ LoseMessage \/ DisposeClient
    BY <1>6 DEF LoseWorker, LoseMessage, DisposeClient, ProtocolNext
  <1> QED BY <1>1, <1>2, <1>3, <1>4, <1>5, <1>6 DEF PageNext

LEMMA WorkerFollows ==
    ASSUME WorkerNext
    PROVE  [ProtocolNext]_protocolVars
  <1>1. ASSUME NEW id \in ImportIds, Handling(id) \/ TakesCancel(id) PROVE ProtocolNext
    BY <1>1, RequestIds DEF Handling, TakesCancel, ProtocolNext
  <1>2. ASSUME NEW i \in Imports,
               ImportReports(i) \/ ImportAwaits(i) \/ ImportResumes(i)
        PROVE  ProtocolNext
    BY <1>2, RequestIds DEF ImportReports, ImportAwaits, ImportResumes, ProtocolNext
  <1>3. ASSUME NEW i \in Imports, CommitsDocument(i) PROVE UNCHANGED protocolVars
    BY <1>3 DEF CommitsDocument
  <1>4. ASSUME NEW i \in Imports, ImportReturns(i) \/ ImportFails(i) \/ Releases(i)
        PROVE  ProtocolNext
    BY <1>4, RequestIds DEF ImportReturns, ImportFails, Releases, ProtocolNext
  <1>5. CASE Dies
    BY <1>5 DEF Dies, ProtocolNext
  <1> QED BY <1>1, <1>2, <1>3, <1>4, <1>5 DEF WorkerNext

---------------------------------------------------------------------------
(* The token and the bar.                                                   *)

LEMMA FailImportKeeps ==
    ASSUME HookInv, NEW i \in Imports, FailImport(i),
           UNCHANGED <<begun, shown>>,
           phase' = [phase EXCEPT ![i] = "over"],
           \A t \in Imports \ {i} : Import(t) \in pending => Import(t) \in pending'
    PROVE  HookInv'
  <1>1. CASE token = i
    BY <1>1 DEF HookInv, BarHasAnImport, FailImport
  <1>2. CASE token # i
    BY <1>2 DEF HookInv, BarHasAnImport, FailImport, Imports
  <1> QED BY <1>1, <1>2

LEMMA AnsweredLeavesOthers ==
    ASSUME NEW i \in Imports, NEW next, ReceiveAnswer(next),
           Head(toPage).id = Import(i)
    PROVE  \A t \in Imports \ {i} : Import(t) \in pending => Import(t) \in pending'
  BY DEF ReceiveAnswer, Import

LEMMA PageKeeps ==
    ASSUME HookInv, PageNext
    PROVE  HookInv'
  <1> USE RequestsAssumption DEF Imports
  <1>1. CASE ImportFile
    <2>1. token' = begun' /\ begun' \in Imports /\ bar' = "busy" /\ phase'[token'] = "reading"
      BY <1>1 DEF ImportFile, HookInv
    <2>2. phase' \in [Imports -> {"idle", "reading", "sent", "over"}]
      BY <1>1 DEF ImportFile, HookInv
    <2> QED BY <1>1, <2>1, <2>2 DEF ImportFile, HookInv, BarHasAnImport
  <1>2. CASE CancelImport
    <2>1. UNCHANGED pending
      BY <1>2 DEF CancelImport, CancelSession, RequestCancel, protocolVars
    <2> QED BY <1>2, <2>1 DEF CancelImport, HookInv, BarHasAnImport
  <1>3. ASSUME NEW i \in Imports, FileRead(i) PROVE HookInv'
    BY <1>3 DEF FileRead, Dispatch, HookInv, BarHasAnImport
  <1>4. ASSUME NEW i \in Imports, ReadingFails(i) PROVE HookInv'
    BY <1>4, FailImportKeeps DEF ReadingFails, protocolVars
  <1>5. ASSUME NEW i \in Imports, ReceiveImported(i) PROVE HookInv'
    <2>1. CASE token = i
      BY <1>5, <2>1 DEF ReceiveImported, HookInv, BarHasAnImport
    <2>2. CASE token # i
      <3>1. \A t \in Imports \ {i} : Import(t) \in pending => Import(t) \in pending'
        <4>1. Head(toPage).id = Import(i)
          BY <1>5 DEF ReceiveImported, Message
        <4> QED BY <1>5, <2>2, <4>1, AnsweredLeavesOthers DEF ReceiveImported
      <3> QED BY <1>5, <2>2, <3>1 DEF ReceiveImported, HookInv, BarHasAnImport
    <2> QED BY <2>1, <2>2
  <1>6. ASSUME NEW i \in Imports, ReceiveImportError(i) PROVE HookInv'
    <2>1. \A t \in Imports \ {i} : Import(t) \in pending => Import(t) \in pending'
      <3>1. Head(toPage).id = Import(i)
        BY <1>6 DEF ReceiveImportError, Message
      <3> QED BY <1>6, <3>1, AnsweredLeavesOthers DEF ReceiveImportError
    <2> QED BY <1>6, <2>1, FailImportKeeps DEF ReceiveImportError
  <1>7. CASE ReceiveReleased
    <2>1. \A t \in Imports : Import(t) \in pending => Import(t) \in pending'
      BY <1>7 DEF ReceiveReleased, ReceiveAnswer, Import
    <2> QED BY <1>7, <2>1 DEF ReceiveReleased, importVars, HookInv, BarHasAnImport
  <1>8. CASE ReceiveOther
    BY <1>8 DEF ReceiveOther, ReceiveNotice, importVars, HookInv, BarHasAnImport
  <1>9. CASE LoseWorker \/ LoseMessage
    BY <1>9 DEF LoseWorker, LoseMessage, LoseGeometrySession, SessionsEnd, HookInv,
                BarHasAnImport
  <1>10. CASE DisposeClient
    <2>1. CASE token # 0 /\ Import(token) \in pending
      BY <1>10, <2>1 DEF DisposeClient, SessionsEnd, FailImport, HookInv, BarHasAnImport
    <2>2. CASE ~(token # 0 /\ Import(token) \in pending)
      BY <1>10, <2>2 DEF DisposeClient, SessionsEnd, HookInv, BarHasAnImport
    <2> QED BY <2>1, <2>2
  <1> QED BY <1>1, <1>2, <1>3, <1>4, <1>5, <1>6, <1>7, <1>8, <1>9, <1>10 DEF PageNext

LEMMA WorkerKeeps ==
    ASSUME HookInv, WorkerNext
    PROVE  HookInv'
  <1>1. UNCHANGED <<pending, pageVars>>
    <2>1. ASSUME NEW id \in ImportIds, Handling(id) \/ TakesCancel(id)
          PROVE  UNCHANGED <<pending, pageVars>>
      BY <2>1 DEF Handling, TakesCancel, HandlesRequest, HandlesCancel, importVars, pageVars
    <2>2. ASSUME NEW i \in Imports,
                 ImportReports(i) \/ ImportAwaits(i) \/ ImportResumes(i)
          PROVE  UNCHANGED <<pending, pageVars>>
      BY <2>2 DEF ImportReports, ImportAwaits, ImportResumes, HandlerReports,
                  HandlerAwaits, HandlerResumes, importVars, pageVars
    <2>3. ASSUME NEW i \in Imports, CommitsDocument(i)
          PROVE  UNCHANGED <<pending, pageVars>>
      BY <2>3 DEF CommitsDocument, protocolVars
    <2>4. ASSUME NEW i \in Imports, ImportReturns(i) \/ ImportFails(i) \/ Releases(i)
          PROVE  UNCHANGED <<pending, pageVars>>
      BY <2>4 DEF ImportReturns, ImportFails, Releases, HandlerReturns, HandlerFails,
                  HandlerStops, HandlerEnds, importVars, pageVars
    <2>5. CASE Dies
      BY <2>5 DEF Dies, WorkerDies, importVars, pageVars
    <2> QED BY <2>1, <2>2, <2>3, <2>4, <2>5 DEF WorkerNext
  <1> QED BY <1>1 DEF pageVars, HookInv, BarHasAnImport

---------------------------------------------------------------------------
LEMMA InitHook == Init => ProtocolTypeOK /\ HookInv
  BY ProtocolInitTypes, RequestsAssumption DEF Init, HookInv, BarHasAnImport, Imports

LEMMA StepsFollow ==
    ProtocolTypeOK /\ HookInv /\ [Next]_vars => [ProtocolNext]_protocolVars
  BY PageFollows, WorkerFollows DEF Next, vars

LEMMA HookKept == HookInv /\ [Next]_vars => HookInv'
  <1> SUFFICES ASSUME HookInv, [Next]_vars PROVE HookInv'
    OBVIOUS
  <1>1. CASE UNCHANGED vars
    BY <1>1 DEF vars, protocolVars, importVars, HookInv, BarHasAnImport
  <1> QED BY <1>1, PageKeeps, WorkerKeeps DEF Next

LEMMA Invariant == Spec => [](ProtocolTypeOK /\ HookInv)
  <1>1. ProtocolTypeOK /\ HookInv /\ [Next]_vars => (ProtocolTypeOK /\ HookInv)'
    BY StepsFollow, ProtocolNextTypes, HookKept
  <1> QED BY InitHook, <1>1, PTL DEF Spec

(* Every step of the page and of the import and release handlers is a step  *)
(* of the protocol, so what is proved of the coordinator and the host for   *)
(* any operations holds of the imports.                                     *)
THEOREM ImportsFollowTheProtocol == Spec => ProtocolSpec
  <1>1. Init => ProtocolInit
    BY DEF Init
  <1> QED BY <1>1, StepsFollow, Invariant, PTL DEF Spec, ProtocolSpec

(* While imports are started, cancelled, superseded and lost, the           *)
(* coordinator's entries are exactly the open promises.                     *)
THEOREM ImportPromisesAreTracked == Spec => []OpenPromises
  BY ImportsFollowTheProtocol, PromisesAreTracked

(* An import or a release is in the channel, with its handler or answered,  *)
(* never in two places at once; what a connected page awaits is in one.     *)
THEOREM ImportsHaveOnePlace == Spec => []OnePlace
  BY ImportsFollowTheProtocol, RequestsHaveOnePlace

(* A cancelled import reports nothing and is answered by no result.         *)
THEOREM CancelledImportsAreSilent == Spec => CancelledWorkIsSilent
  BY ImportsFollowTheProtocol, WordSilencesTheWorker

(* For any number of imports, a progress bar that runs has an import that   *)
(* still reads its file or is awaited.                                      *)
THEOREM BarsHaveImports == Spec => []BarHasAnImport
  <1>1. HookInv => BarHasAnImport
    BY DEF HookInv
  <1> QED BY <1>1, Invariant, PTL

(* For any number of imports, whatever order the worker answers them in,    *)
(* the model on screen only changes to that of the import begun last.       *)
THEOREM NewestIsShown == Spec => ShowsTheNewest
  <1>1. ASSUME ProtocolTypeOK, HookInv, [Next]_vars
        PROVE  [shown' # shown /\ shown' # 0 => shown' = begun]_vars
    <2>1. ASSUME NEW i \in Imports, ReceiveImported(i)
          PROVE  shown' # shown /\ shown' # 0 => shown' = begun
      BY <1>1, <2>1, RequestsAssumption DEF ReceiveImported, HookInv, Imports
    <2>2. CASE UNCHANGED shown
      BY <2>2
    <2>3. CASE PageNext
      <3>1. ASSUME \A i \in Imports : ~ReceiveImported(i)
            PROVE  shown' \in {0, shown}
        BY <2>3, <3>1 DEF PageNext, ImportFile, CancelImport, FileRead, ReadingFails,
               ReceiveImportError, ReceiveReleased, ReceiveOther, importVars,
               LoseWorker, LoseMessage, LoseGeometrySession, DisposeClient
      <3> QED BY <2>1, <3>1
    <2>4. CASE WorkerNext
      BY <2>2, <2>4 DEF WorkerNext, Handling, TakesCancel, ImportReports, ImportAwaits,
             ImportResumes, CommitsDocument, ImportReturns, ImportFails, Releases, Dies,
             importVars, pageVars
    <2> QED BY <1>1, <2>3, <2>4 DEF Next
  <1> QED BY <1>1, Invariant, PTL DEF Spec, ShowsTheNewest

---------------------------------------------------------------------------
(* What is resident in the worker.                                          *)

(* What has not begun is nowhere.                                           *)
BegunInv ==
    /\ stopped \subseteq 1 .. begun
    /\ session \in 0 .. begun /\ shown \in 0 .. begun
    /\ resident \subseteq 1 .. begun
    /\ bar \in {"idle", "busy", "ready", "error"}
    /\ \A i \in Imports : i > begun =>
         phase[i] = "idle" /\ outcome[Import(i)] = "unsent"

(* What was installed stays: a release is only asked for a document whose   *)
(* result came and that is not shown.                                       *)
ReleasesAreOver ==
    /\ \A i \in Imports :
         outcome[Release(i)] # "unsent" => outcome[Import(i)] = "result" /\ shown # i
    /\ shown # 0 => outcome[Import(shown)] = "result" /\ shown \in resident

(* A result promises a resident document, a release's answer an absent one. *)
ResidentInv ==
    /\ ReleasesAreOver
    /\ \A i \in Imports :
         /\ Holds(toPage, {Message("result", Import(i))}) => i \in resident
         /\ Holds(toPage, AnswersTo(Release(i))) => i \notin resident

(* Only a stopped session's import is told to stop.                         *)
StoppedInv ==
    alive => \A i \in Imports :
        word[Import(i)] \/ Import(i) \in flagged \/ Holds(toWorker, CancelOf(Import(i)))
            => i \in stopped

LEMMA Names ==
    /\ \A i, j : Import(i) # Release(j)
    /\ \A i, j : (Import(i) = Import(j) \/ Release(i) = Release(j)) => i = j
    /\ \A d : {Release(e) : e \in {d} \cap Imports} \in SUBSET Ids
  BY RequestIds DEF Import, Release

LEMMA AnswerEffect ==
    ASSUME ProtocolTypeOK, OpenPromises, NEW next \in SUBSET Ids, ReceiveAnswer(next)
    PROVE  LET answer == Head(toPage) IN
           /\ answer.id \in Ids /\ answer.id \in pending /\ answer.kind \in Answers
           /\ outcome[answer.id] = "awaited" /\ outcome'[answer.id] = answer.kind
           /\ \A id \in Ids : id # answer.id =>
                outcome'[id] = IF id \in next THEN "awaited" ELSE outcome[id]
           /\ pending' = (pending \ {answer.id}) \cup next
           /\ \A id \in next : outcome[id] = "unsent"
           /\ toPage # <<>> /\ toPage' = Tail(toPage)
           /\ UNCHANGED <<lost, word, running, flagged, onCpu, alive>>
  BY DEF ReceiveAnswer, workerVars, ProtocolTypeOK, OpenPromises

LEMMA RejectionEffect ==
    ASSUME ProtocolTypeOK, OpenPromises, WorkerError \/ MessageError \/ Dispose
    PROVE  /\ \A id \in Ids : id \notin pending =>
                outcome'[id] = outcome[id] /\ outcome[id] # "awaited"
           /\ \A id \in Ids : id \in pending =>
                outcome[id] = "awaited" /\ outcome'[id] \in {"abandoned", "cancelled"}
           /\ UNCHANGED toPage \/ (toPage # <<>> /\ toPage' = Tail(toPage))
           /\ UNCHANGED <<toWorker, running, flagged>>
           /\ lost' \/ ~alive'
           /\ alive' => alive /\ UNCHANGED word
  BY DEF WorkerError, MessageError, Dispose, RejectAll, workerVars, ProtocolTypeOK,
         OpenPromises

(* The page takes messages from the worker and changes no document.         *)
LEMMA PageTakes ==
    ASSUME PageNext
    PROVE  /\ resident' = resident
           /\ UNCHANGED toPage \/ (toPage # <<>> /\ toPage' = Tail(toPage))
  <1>1. CASE ImportFile \/ CancelImport
    BY <1>1 DEF ImportFile, CancelImport, CancelSession, RequestCancel, protocolVars
  <1>2. ASSUME NEW i \in Imports, FileRead(i) \/ ReadingFails(i)
        PROVE  resident' = resident /\ UNCHANGED toPage
    BY <1>2 DEF FileRead, ReadingFails, Dispatch, protocolVars
  <1>3. ASSUME NEW i \in Imports, ReceiveImported(i) \/ ReceiveImportError(i)
        PROVE  resident' = resident /\ toPage # <<>> /\ toPage' = Tail(toPage)
    BY <1>3 DEF ReceiveImported, ReceiveImportError, ReceiveAnswer
  <1>4. CASE ReceiveReleased \/ ReceiveOther
    BY <1>4 DEF ReceiveReleased, ReceiveOther, ReceiveAnswer, ReceiveNotice, importVars
  <1>5. CASE LoseWorker \/ LoseMessage \/ DisposeClient
    BY <1>5 DEF LoseWorker, LoseMessage, DisposeClient, LoseGeometrySession,
                WorkerError, MessageError, Dispose
  <1> QED BY <1>1, <1>2, <1>3, <1>4, <1>5 DEF PageNext

(* What the worker's steps leave to the page.                               *)
LEMMA WorkerLeaves ==
    ASSUME WorkerNext
    PROVE  UNCHANGED <<pending, signals, lost, outcome, word, pageVars>> /\ (alive' => alive)
  <1>1. ASSUME NEW id \in ImportIds, Handling(id) \/ TakesCancel(id)
        PROVE  UNCHANGED <<pending, signals, lost, outcome, word, pageVars, alive>>
    BY <1>1 DEF Handling, TakesCancel, HandlesRequest, HandlesCancel, importVars, pageVars
  <1>2. ASSUME NEW i \in Imports, ImportReports(i) \/ ImportAwaits(i) \/ ImportResumes(i)
        PROVE  UNCHANGED <<pending, signals, lost, outcome, word, pageVars, alive>>
    BY <1>2 DEF ImportReports, ImportAwaits, ImportResumes, HandlerReports,
                HandlerAwaits, HandlerResumes, importVars, pageVars
  <1>3. ASSUME NEW i \in Imports, CommitsDocument(i)
        PROVE  UNCHANGED <<pending, signals, lost, outcome, word, pageVars, alive>>
    BY <1>3 DEF CommitsDocument, protocolVars
  <1>4. ASSUME NEW i \in Imports, ImportReturns(i) \/ ImportFails(i) \/ Releases(i)
        PROVE  UNCHANGED <<pending, signals, lost, outcome, word, pageVars, alive>>
    BY <1>4 DEF ImportReturns, ImportFails, Releases, HandlerReturns, HandlerFails,
                HandlerStops, HandlerEnds, importVars, pageVars
  <1>5. CASE Dies
    BY <1>5 DEF Dies, WorkerDies, importVars, pageVars
  <1> QED BY <1>1, <1>2, <1>3, <1>4, <1>5 DEF WorkerNext

(* Who runs was asked for.                                                  *)
LEMMA RunningWasSent ==
    ASSUME ProtocolTypeOK, PlaceInv, NEW id \in Ids, onCpu = id \/ id \in running
    PROVE  id \in running /\ outcome[id] \notin {"unsent", "result"}
  BY IdsAssumption DEF ProtocolTypeOK, PlaceInv, IsPlaced, HasPlace

LEMMA BegunStays ==
    ASSUME HookInv, BegunInv, UNCHANGED <<begun, stopped, resident>>,
           session' \in {0, session}, shown' \in {0, shown, begun},
           bar' \in {"idle", "busy", "ready", "error"},
           \A i \in Imports : i > begun =>
               phase'[i] = phase[i] /\ outcome'[Import(i)] = outcome[Import(i)]
    PROVE  BegunInv'
  BY RequestsAssumption DEF HookInv, BegunInv

LEMMA CancelLeaves ==
    ASSUME CancelSession
    PROVE  UNCHANGED <<pending, signals, lost, outcome, toPage, running, flagged, alive>>
  BY DEF CancelSession, RequestCancel, workerVars, protocolVars

LEMMA FailImportLeaves ==
    ASSUME BegunInv, NEW i, FailImport(i)
    PROVE  /\ token' \in {0, token} /\ session' \in {0, session}
           /\ bar' \in {"idle", "busy", "ready", "error"}
  BY DEF FailImport, BegunInv

LEMMA BegunKeptByPage ==
    ASSUME ProtocolTypeOK, OpenPromises, HookInv, BegunInv, PageNext
    PROVE  BegunInv'
  <1> USE RequestsAssumption DEF Imports
  <1>1. CASE ImportFile
    <2>1. /\ outcome' = outcome /\ begun' = begun + 1 /\ session' = begun + 1
          /\ bar' = "busy" /\ phase' = [phase EXCEPT ![begun + 1] = "reading"]
          /\ UNCHANGED <<shown, resident>>
      BY <1>1, CancelLeaves DEF ImportFile
    <2>2. stopped' \subseteq 1 .. begun
      BY <1>1 DEF ImportFile, CancelSession, BegunInv, HookInv
    <2> QED BY <2>1, <2>2 DEF BegunInv, HookInv
  <1>2. CASE CancelImport
    <2>1. outcome' = outcome /\ UNCHANGED <<begun, phase, session, shown, bar, resident>>
      BY <1>2, CancelLeaves DEF CancelImport
    <2>2. stopped' \subseteq 1 .. begun
      BY <1>2 DEF CancelImport, CancelSession, BegunInv, HookInv
    <2> QED BY <2>1, <2>2 DEF BegunInv
  <1>3. ASSUME NEW i \in Imports, FileRead(i) PROVE BegunInv'
    <2>1. i <= begun
      BY <1>3 DEF FileRead, BegunInv, HookInv
    <2>2. \A j \in Imports : j > begun => outcome'[Import(j)] = outcome[Import(j)]
      BY <1>3, <2>1, RequestIds, Names DEF FileRead, Dispatch, ProtocolTypeOK, HookInv
    <2> QED BY <1>3, <2>1, <2>2, BegunStays DEF FileRead, HookInv, BegunInv
  <1>4. ASSUME NEW i \in Imports, ReadingFails(i) PROVE BegunInv'
    <2>1. i <= begun
      BY <1>4 DEF ReadingFails, BegunInv, HookInv
    <2> QED BY <1>4, <2>1, BegunStays, FailImportLeaves
            DEF ReadingFails, protocolVars, HookInv
  <1>5. ASSUME NEW i \in Imports, NEW next \in SUBSET Ids, ReceiveAnswer(next),
               Head(toPage).id = Import(i), \A j \in Imports : Import(j) \notin next
        PROVE  /\ i <= begun
               /\ \A j \in Imports : j > begun => outcome'[Import(j)] = outcome[Import(j)]
    <2>1. i <= begun
      BY <1>5, AnswerEffect DEF BegunInv, HookInv
    <2> QED BY <1>5, <2>1, AnswerEffect, RequestIds, Names DEF HookInv
  <1>6. ASSUME NEW i \in Imports, ReceiveImported(i) PROVE BegunInv'
    <2>1. \E next \in SUBSET Ids :
             ReceiveAnswer(next) /\ \A j \in Imports : Import(j) \notin next
      BY <1>6, Names, RequestIds DEF ReceiveImported
    <2>2. Head(toPage).id = Import(i)
      BY <1>6 DEF ReceiveImported, Message
    <2>3. /\ i <= begun
          /\ \A j \in Imports : j > begun => outcome'[Import(j)] = outcome[Import(j)]
      BY <1>5, <2>1, <2>2
    <2>4. /\ UNCHANGED <<begun, stopped, resident>>
          /\ session' \in {0, session} /\ shown' \in {0, shown, begun}
          /\ bar' \in {"idle", "busy", "ready", "error"}
          /\ \A j \in Imports : j > begun => phase'[j] = phase[j]
      BY <1>6, <2>3 DEF ReceiveImported, HookInv, BegunInv
    <2> QED BY <2>3, <2>4, BegunStays
  <1>7. ASSUME NEW i \in Imports, ReceiveImportError(i) PROVE BegunInv'
    <2>1. Head(toPage).id = Import(i) /\ ReceiveAnswer({})
      BY <1>7 DEF ReceiveImportError, Message
    <2>2. /\ i <= begun
          /\ \A j \in Imports : j > begun => outcome'[Import(j)] = outcome[Import(j)]
      BY <1>5, <2>1
    <2> QED BY <1>7, <2>2, BegunStays, FailImportLeaves DEF ReceiveImportError, HookInv
  <1>8. CASE ReceiveReleased
    <2>1. ReceiveAnswer({}) /\ \A j \in Imports : Head(toPage).id # Import(j)
      BY <1>8 DEF ReceiveReleased, Import
    <2>2. \A j \in Imports : outcome'[Import(j)] = outcome[Import(j)]
      BY <2>1, AnswerEffect, RequestIds
    <2> QED BY <1>8, <2>2, BegunStays DEF ReceiveReleased, importVars, BegunInv
  <1>9. CASE ReceiveOther
    BY <1>9, BegunStays DEF ReceiveOther, ReceiveNotice, importVars, BegunInv
  <1>10. CASE LoseWorker \/ LoseMessage \/ DisposeClient
    <2>1. \A j \in Imports : j > begun =>
             Import(j) \notin pending /\ outcome'[Import(j)] = outcome[Import(j)]
      BY <1>10, RejectionEffect, RequestIds
         DEF LoseWorker, LoseMessage, DisposeClient, BegunInv, OpenPromises
    <2>2. CASE LoseWorker \/ LoseMessage
      BY <2>1, <2>2, BegunStays
         DEF LoseWorker, LoseMessage, LoseGeometrySession, SessionsEnd
    <2>3. CASE DisposeClient
      BY <2>1, <2>3, BegunStays, FailImportLeaves DEF DisposeClient, SessionsEnd, BegunInv
    <2> QED BY <1>10, <2>2, <2>3
  <1> QED BY <1>1, <1>2, <1>3, <1>4, <1>6, <1>7, <1>8, <1>9, <1>10 DEF PageNext

(* A document becomes resident by the commit of its import and stops being  *)
(* so by its release.                                                       *)
LEMMA DocumentsFollow ==
    ASSUME WorkerNext
    PROVE  \/ UNCHANGED resident
           \/ \E i \in Imports : CommitsDocument(i) \/ Releases(i)
  BY DEF WorkerNext, Handling, TakesCancel, ImportReports, ImportAwaits, ImportResumes,
         ImportReturns, ImportFails, Dies, importVars

LEMMA BegunKeptByWorker ==
    ASSUME ProtocolTypeOK, PlaceInv, HookInv, BegunInv, WorkerNext
    PROVE  BegunInv'
  <1>1. UNCHANGED <<outcome, pageVars>>
    BY WorkerLeaves
  <1>2. resident' \subseteq 1 .. begun
    <2>1. CASE UNCHANGED resident
      BY <2>1 DEF BegunInv
    <2>2. ASSUME NEW i \in Imports, CommitsDocument(i) PROVE resident' \subseteq 1 .. begun
      <3>1. outcome[Import(i)] # "unsent"
        BY <2>2, RunningWasSent, RequestIds DEF CommitsDocument
      <3>2. i \in 1 .. begun
        BY <3>1, RequestsAssumption DEF BegunInv, HookInv, Imports
      <3> QED BY <2>2, <3>2 DEF CommitsDocument, BegunInv
    <2>3. ASSUME NEW i \in Imports, Releases(i) PROVE resident' \subseteq 1 .. begun
      BY <2>3 DEF Releases, BegunInv
    <2> QED BY <2>1, <2>2, <2>3, DocumentsFollow
  <1> QED BY <1>1, <1>2 DEF BegunInv, pageVars

LEMMA ProtocolInvariants == Spec => [](OpenPromises /\ PlaceInv)
  BY ImportsFollowTheProtocol, PromisesAreTracked, PlaceInvariant, PTL

LEMMA BegunInvariant == Spec => []BegunInv
  <1>1. Init => BegunInv
    BY RequestIds, RequestsAssumption DEF Init, ProtocolInit, BegunInv, Imports
  <1>2. /\ ProtocolTypeOK /\ HookInv /\ OpenPromises /\ PlaceInv
        /\ BegunInv /\ [Next]_vars
        => BegunInv'
    <2> SUFFICES ASSUME ProtocolTypeOK, HookInv, OpenPromises, PlaceInv, BegunInv,
                        [Next]_vars
                 PROVE  BegunInv'
      OBVIOUS
    <2>1. CASE UNCHANGED vars
      BY <2>1 DEF vars, protocolVars, importVars, BegunInv
    <2> QED BY <2>1, BegunKeptByPage, BegunKeptByWorker DEF Next
  <1> QED BY <1>1, <1>2, Invariant, ProtocolInvariants, PTL DEF Spec

(* For any number of imports: a session, a document or a set flag is that   *)
(* of an import that has begun, and the token is the newest import's.       *)
THEOREM ImportTypes == Spec => []TypeOK
  <1>1. ProtocolTypeOK /\ HookInv /\ BegunInv => TypeOK
    BY DEF HookInv, BegunInv, TypeOK
  <1> QED BY <1>1, Invariant, BegunInvariant, PTL

---------------------------------------------------------------------------
(* What is promised to be resident.                                         *)

LEMMA ResultIsAnAnswer ==
    ASSUME NEW i, Holds(toPage, {Message("result", Import(i))})
    PROVE  IsAnswered(Import(i))
  BY DEF Holds, IsAnswered, AnswersTo, Message, Answers

LEMMA HeadHolds ==
    ASSUME ProtocolTypeOK, toPage # <<>>, NEW messages, Head(toPage) \in messages
    PROVE  Holds(toPage, messages)
  <1>1. 1 \in DOMAIN toPage /\ Head(toPage) = toPage[1]
    BY DEF ProtocolTypeOK
  <1> QED BY <1>1 DEF Holds

(* No page step but the arrival of an import's result asks for a release,   *)
(* shows another document or takes a result back.                           *)
LEMMA OnlyResultsRelease ==
    ASSUME ProtocolTypeOK, OpenPromises, PageNext,
           \A i \in Imports : ~ReceiveImported(i)
    PROVE  /\ shown' \in {0, shown}
           /\ \A i \in Imports :
                /\ outcome[Release(i)] = "unsent" => outcome'[Release(i)] = "unsent"
                /\ outcome[Import(i)] = "result" => outcome'[Import(i)] = "result"
  <1>1. CASE ImportFile \/ CancelImport
    <2>1. outcome' = outcome
      BY <1>1, CancelLeaves DEF ImportFile, CancelImport
    <2> QED BY <1>1, <2>1 DEF ImportFile, CancelImport
  <1>2. ASSUME NEW i \in Imports, FileRead(i)
        PROVE  /\ shown' = shown /\ outcome[Import(i)] = "unsent"
               /\ \A id \in Ids : id # Import(i) => outcome'[id] = outcome[id]
    BY <1>2, RequestIds DEF FileRead, Dispatch, ProtocolTypeOK
  <1>3. ASSUME NEW i \in Imports, ReadingFails(i) PROVE shown' = shown /\ outcome' = outcome
    BY <1>3 DEF ReadingFails, protocolVars
  <1>4. CASE ReceiveReleased \/ \E i \in Imports : ReceiveImportError(i)
    <2>1. ReceiveAnswer({}) /\ shown' = shown
      BY <1>4 DEF ReceiveImportError, ReceiveReleased, importVars
    <2> QED BY <2>1, AnswerEffect, RequestIds
  <1>5. CASE ReceiveOther
    BY <1>5 DEF ReceiveOther, ReceiveNotice, importVars
  <1>6. CASE LoseWorker \/ LoseMessage \/ DisposeClient
    <2>1. WorkerError \/ MessageError \/ Dispose
      BY <1>6 DEF LoseWorker, LoseMessage, DisposeClient
    <2>2. shown' \in {0, shown}
      BY <1>6 DEF LoseWorker, LoseMessage, DisposeClient, LoseGeometrySession
    <2> QED BY <2>1, <2>2, RejectionEffect, RequestIds
  <1> QED BY <1>1, <1>2, <1>3, <1>4, <1>5, <1>6, RequestIds, Names DEF PageNext

LEMMA ImportedKeepsResident ==
    ASSUME ProtocolTypeOK, OpenPromises, HookInv, ResidentInv,
           NEW i \in Imports, ReceiveImported(i)
    PROVE  ReleasesAreOver'
  <1>1. /\ Head(toPage) = Message("result", Import(i)) /\ toPage # <<>>
        /\ Head(toPage).id = Import(i) /\ Head(toPage).kind = "result"
    BY DEF ReceiveImported, Message
  <1>2. i \in resident
    BY <1>1, HeadHolds DEF ResidentInv
  <1>3. ASSUME NEW next \in SUBSET Ids, ReceiveAnswer(next), \A j : Import(j) \notin next
        PROVE  /\ outcome[Import(i)] = "awaited" /\ outcome'[Import(i)] = "result"
               /\ \A j \in Imports : j # i => outcome'[Import(j)] = outcome[Import(j)]
               /\ \A j \in Imports : outcome'[Release(j)] =
                      IF Release(j) \in next THEN "awaited" ELSE outcome[Release(j)]
    BY <1>1, <1>3, AnswerEffect, RequestIds, Names
  <1>4. 0 \notin Imports /\ (shown # 0 => shown \in Imports) /\ resident' = resident
    BY DEF Imports, HookInv, ReceiveImported
  <1>5. CASE token = i
    <2> DEFINE next == {Release(d) : d \in {shown} \cap Imports}
    <2>1. ReceiveAnswer(next) /\ shown' = i
      BY <1>5 DEF ReceiveImported
    <2>2. next \in SUBSET Ids /\ \A j : Import(j) \notin next
      BY Names
    <2>3. \A j : Release(j) \in next <=> j = shown /\ j \in Imports
      BY Names
    <2> HIDE DEF next
    <2> QED BY <1>2, <1>3, <1>4, <2>1, <2>2, <2>3 DEF ResidentInv, ReleasesAreOver
  <1>6. CASE token # i
    <2>1. ReceiveAnswer({Release(i)}) /\ shown' = shown
      BY <1>6 DEF ReceiveImported
    <2>2. {Release(i)} \in SUBSET Ids /\ \A j : Import(j) \notin {Release(i)}
      BY Names, RequestIds
    <2>3. \A j : Release(j) \in {Release(i)} <=> j = i
      BY Names
    <2> QED BY <1>3, <1>4, <2>1, <2>2, <2>3 DEF ResidentInv, ReleasesAreOver
  <1> QED BY <1>5, <1>6

LEMMA ResidentKeptByPage ==
    ASSUME ProtocolTypeOK, OpenPromises, HookInv, ResidentInv, PageNext
    PROVE  ResidentInv'
  <1>1. ReleasesAreOver'
    <2>1. ASSUME \A i \in Imports : ~ReceiveImported(i) PROVE ReleasesAreOver'
      BY <2>1, OnlyResultsRelease, PageTakes DEF ResidentInv, ReleasesAreOver, HookInv, Imports
    <2> QED BY <2>1, ImportedKeepsResident
  <1>2. resident' = resident /\ \A messages : Holds(toPage', messages) => Holds(toPage, messages)
    <2>1. toPage \in Seq(ToPage)
      BY DEF ProtocolTypeOK
    <2> QED BY <2>1, PageTakes, TailHolds
  <1> QED BY <1>1, <1>2 DEF ResidentInv

(* What the worker appends to its channel.                                  *)
LEMMA SaysAtMost ==
    ASSUME ProtocolTypeOK, NEW k \in Answers \cup {"progress"}, NEW id \in Ids,
           toPage' = Append(toPage, Message(k, id)), NEW i \in Imports
    PROVE  /\ Holds(toPage', {Message("result", Import(i))}) =>
                Holds(toPage, {Message("result", Import(i))})
                \/ (k = "result" /\ id = Import(i))
           /\ Holds(toPage', AnswersTo(Release(i))) =>
                Holds(toPage, AnswersTo(Release(i))) \/ id = Release(i)
  <1>1. toPage \in Seq(ToPage)
    BY DEF ProtocolTypeOK
  <1>2. Message(k, id) = Message("result", Import(i)) => k = "result" /\ id = Import(i)
    BY DEF Message
  <1>3. Message(k, id) \in AnswersTo(Release(i)) => id = Release(i)
    BY DEF Message, AnswersTo
  <1> QED BY <1>1, <1>2, <1>3, AppendHolds

(* Before an import's result is sent and after it was received, no release  *)
(* of its document runs.                                                    *)
LEMMA NoReleaseBefore ==
    ASSUME ProtocolTypeOK, PlaceInv, ResidentInv, NEW i \in Imports,
           Import(i) \in running \/ Holds(toPage, {Message("result", Import(i))})
    PROVE  ~IsAnswered(Release(i)) /\ Release(i) \notin running
  <1>1. HasPlace(Import(i))
    BY ResultIsAnAnswer DEF HasPlace
  <1>2. outcome[Import(i)] # "result"
    BY <1>1, RequestIds DEF PlaceInv, IsPlaced
  <1>3. outcome[Release(i)] = "unsent"
    BY <1>2 DEF ResidentInv, ReleasesAreOver
  <1> QED BY <1>3, RequestIds DEF PlaceInv, IsPlaced, HasPlace

LEMMA ResidentKeptByWorker ==
    ASSUME ProtocolTypeOK, PlaceInv, HookInv, ResidentInv, WorkerNext
    PROVE  ResidentInv'
  <1>0. UNCHANGED <<outcome, shown>>
    BY WorkerLeaves DEF pageVars
  <1>1. ASSUME UNCHANGED <<toPage, resident>> PROVE ResidentInv'
    BY <1>0, <1>1 DEF ResidentInv, ReleasesAreOver
  <1>2. ASSUME NEW id \in ImportIds, Handling(id) \/ TakesCancel(id) PROVE ResidentInv'
    BY <1>1, <1>2 DEF Handling, TakesCancel, HandlesRequest, HandlesCancel, importVars
  <1>3. ASSUME NEW i \in Imports, ImportAwaits(i) \/ ImportResumes(i) PROVE ResidentInv'
    BY <1>1, <1>3 DEF ImportAwaits, ImportResumes, HandlerAwaits, HandlerResumes, importVars
  <1>4. CASE Dies
    BY <1>1, <1>4 DEF Dies, WorkerDies, importVars
  <1>5. ASSUME NEW k \in Answers \cup {"progress"}, NEW id \in Ids,
               toPage' = Append(toPage, Message(k, id)), UNCHANGED resident,
               \A i \in Imports :
                   id # Release(i) /\ (k = "result" /\ id = Import(i) => i \in resident)
        PROVE  ResidentInv'
    BY <1>0, <1>5, SaysAtMost DEF ResidentInv, ReleasesAreOver
  <1>6. ASSUME NEW i \in Imports, ImportReports(i) PROVE ResidentInv'
    <2>1. toPage' = Append(toPage, Message("progress", Import(i))) /\ UNCHANGED resident
      BY <1>6 DEF ImportReports, HandlerReports, importVars
    <2> QED BY <1>5, <2>1, Names, RequestIds DEF Answers
  <1>7. ASSUME NEW i \in Imports, ImportReturns(i) PROVE ResidentInv'
    <2>1. /\ toPage' = Append(toPage, Message(AnswerFor(Import(i)), Import(i)))
          /\ UNCHANGED resident /\ i \in resident
      BY <1>7 DEF ImportReturns, HandlerReturns, HandlerEnds, importVars
    <2>2. AnswerFor(Import(i)) \in Answers
      BY DEF AnswerFor, Answers
    <2> QED BY <1>5, <2>1, <2>2, Names, RequestIds
  <1>8. ASSUME NEW i \in Imports, ImportFails(i) PROVE ResidentInv'
    <2>1. \E k \in Answers \ {"result"} :
             toPage' = Append(toPage, Message(k, Import(i))) /\ UNCHANGED resident
      BY <1>8 DEF ImportFails, HandlerFails, HandlerStops, HandlerEnds, importVars, Answers
    <2> QED BY <1>5, <2>1, Names, RequestIds
  <1>9. ASSUME NEW i \in Imports, CommitsDocument(i) PROVE ResidentInv'
    <2>1. /\ toPage' = toPage /\ resident' = resident \cup {i} /\ onCpu = Import(i)
      BY <1>9 DEF CommitsDocument, protocolVars
    <2>2. ~IsAnswered(Release(i))
      BY <2>1, RunningWasSent, NoReleaseBefore, RequestIds
    <2> QED BY <1>0, <2>1, <2>2 DEF ResidentInv, ReleasesAreOver, IsAnswered
  <1>10. ASSUME NEW i \in Imports, Releases(i) PROVE ResidentInv'
    <2>1. /\ toPage' = Append(toPage, Message(AnswerFor(Release(i)), Release(i)))
          /\ onCpu = Release(i) /\ resident' = resident \ {i}
      BY <1>10 DEF Releases, HandlerReturns, HandlerEnds
    <2>2. AnswerFor(Release(i)) \in Answers
      BY DEF AnswerFor, Answers
    <2>3. Release(i) \in running /\ outcome[Release(i)] # "unsent"
      BY <2>1, RunningWasSent, RequestIds
    <2>4. ~Holds(toPage, {Message("result", Import(i))}) /\ shown # i
      BY <2>3, NoReleaseBefore DEF ResidentInv, ReleasesAreOver
    <2>5. ReleasesAreOver'
      BY <1>0, <2>1, <2>4 DEF ResidentInv, ReleasesAreOver
    <2>6. ASSUME NEW j \in Imports
          PROVE  /\ Holds(toPage', {Message("result", Import(j))}) => j \in resident'
                 /\ Holds(toPage', AnswersTo(Release(j))) => j \notin resident'
      BY <2>1, <2>2, <2>4, SaysAtMost, RequestIds, Names DEF ResidentInv
    <2> QED BY <2>5, <2>6 DEF ResidentInv
  <1> QED BY <1>2, <1>3, <1>4, <1>6, <1>7, <1>8, <1>9, <1>10 DEF WorkerNext

LEMMA ResidentInvariant == Spec => []ResidentInv
  <1>1. Init => ResidentInv
    BY RequestIds DEF Init, ProtocolInit, ResidentInv, ReleasesAreOver, Holds
  <1>2. /\ ProtocolTypeOK /\ HookInv /\ OpenPromises /\ PlaceInv
        /\ ResidentInv /\ [Next]_vars
        => ResidentInv'
    <2> SUFFICES ASSUME ProtocolTypeOK, HookInv, OpenPromises, PlaceInv, ResidentInv,
                        [Next]_vars
                 PROVE  ResidentInv'
      OBVIOUS
    <2>1. CASE UNCHANGED vars
      BY <2>1 DEF vars, protocolVars, importVars, ResidentInv, ReleasesAreOver
    <2> QED BY <2>1, ResidentKeptByPage, ResidentKeptByWorker DEF Next
  <1> QED BY <1>1, <1>2, Invariant, ProtocolInvariants, PTL DEF Spec

(* For any number of imports that supersede, cancel and release each other, *)
(* in whatever order the worker answers: the model on screen is resident in *)
(* a live worker and nobody has asked for its release.                      *)
THEOREM TheShownModelIsResident == Spec => []ShownIsResident
  <1>1. HookInv /\ OpenPromises /\ ResidentInv => ShownIsResident
    BY RequestIds DEF HookInv, OpenPromises, ResidentInv, ReleasesAreOver, ShownIsResident, ReleaseOnItsWay
  <1> QED BY <1>1, Invariant, ProtocolInvariants, ResidentInvariant, PTL

---------------------------------------------------------------------------
(* What is told to stop.                                                    *)

ToldToStop(i) ==
    word[Import(i)] \/ Import(i) \in flagged \/ Holds(toWorker, CancelOf(Import(i)))

LEMMA RequestsCancelNothing ==
    ASSUME ProtocolTypeOK, NEW id \in Ids, Post(<<Message("request", id)>>), NEW i
    PROVE  Holds(toWorker', CancelOf(i)) => Holds(toWorker, CancelOf(i))
  <1>1. toWorker \in Seq(ToWorker) /\ Message("request", id) \in ToWorker
    BY DEF ProtocolTypeOK, Message, ToWorker
  <1>2. Message("request", id) \notin CancelOf(i)
    BY DEF Message, CancelOf
  <1>3. toWorker' = IF alive THEN Append(toWorker, Message("request", id)) ELSE toWorker
    BY <1>1, PostAppends
  <1>4. Holds(Append(toWorker, Message("request", id)), CancelOf(i)) => Holds(toWorker, CancelOf(i))
    BY <1>1, <1>2, AppendHolds
  <1> QED BY <1>3, <1>4

LEMMA CancelSessionStops ==
    ASSUME ProtocolTypeOK, HookInv, BegunInv, StoppedInv, alive, CancelSession,
           NEW i \in Imports
    PROVE  ToldToStop(i)' => i \in stopped'
  <1>1. stopped' = stopped \cup ({session} \cap Imports)
    BY DEF CancelSession
  <1>2. CASE UNCHANGED protocolVars
    BY <1>1, <1>2 DEF protocolVars, StoppedInv, ToldToStop
  <1>3. CASE session # 0 /\ RequestCancel(Import(session))
    <2>1. session \in Imports
      BY <1>3, RequestsAssumption DEF BegunInv, HookInv, Imports
    <2>2. /\ toWorker \in Seq(ToWorker) /\ Message("cancel", Import(session)) \in ToWorker
          /\ Message("cancel", Import(session)) \in CancelOf(Import(i)) => i = session
      BY <2>1, RequestIds, Names DEF ProtocolTypeOK, Message, ToWorker, CancelOf
    <2>3. Holds(toWorker', CancelOf(Import(i))) =>
              Holds(toWorker, CancelOf(Import(i))) \/ i = session
      <3> DEFINE message == Message("cancel", Import(session))
      <3>1. Post(<<message>>)
        BY <1>3 DEF RequestCancel
      <3>2. toWorker' = IF alive THEN Append(toWorker, message) ELSE toWorker
        BY <2>2, <3>1, PostAppends
      <3>3. Holds(Append(toWorker, message), CancelOf(Import(i))) <=>
                Holds(toWorker, CancelOf(Import(i))) \/ message \in CancelOf(Import(i))
        BY <2>2, AppendHolds
      <3> QED BY <2>2, <3>2, <3>3
    <2>4. word'[Import(i)] => word[Import(i)] \/ i = session
      BY <1>3, RequestIds, Names DEF RequestCancel, ProtocolTypeOK
    <2> QED BY <1>1, <1>3, <2>1, <2>3, <2>4 DEF RequestCancel, workerVars, StoppedInv, ToldToStop
  <1> QED BY <1>2, <1>3 DEF CancelSession

LEMMA StoppedKeptByPage ==
    ASSUME ProtocolTypeOK, HookInv, BegunInv, StoppedInv, PageNext
    PROVE  StoppedInv'
  <1> SUFFICES ASSUME alive', NEW i \in Imports PROVE ToldToStop(i)' => i \in stopped'
    BY DEF StoppedInv, ToldToStop
  <1>1. CASE ImportFile \/ CancelImport
    BY <1>1, CancelSessionStops, CancelLeaves DEF ImportFile, CancelImport
  <1>2. ASSUME UNCHANGED <<word, flagged, alive, stopped>>,
               Holds(toWorker', CancelOf(Import(i))) => Holds(toWorker, CancelOf(Import(i)))
        PROVE  ToldToStop(i)' => i \in stopped'
    BY <1>2 DEF StoppedInv, ToldToStop
  <1>3. ASSUME NEW j \in Imports, FileRead(j) PROVE ToldToStop(i)' => i \in stopped'
    BY <1>2, <1>3, RequestsCancelNothing, RequestIds DEF FileRead, Dispatch, workerVars
  <1>4. ASSUME NEW j \in Imports, ReadingFails(j) PROVE ToldToStop(i)' => i \in stopped'
    BY <1>2, <1>4 DEF ReadingFails, protocolVars
  <1>5. ASSUME NEW next \in SUBSET Ids, ReceiveAnswer(next), UNCHANGED stopped
        PROVE  ToldToStop(i)' => i \in stopped'
    <2>1. UNCHANGED toWorker \/ \E id \in next : Post(<<Message("request", id)>>)
      BY <1>5 DEF ReceiveAnswer
    <2> QED BY <1>2, <1>5, <2>1, RequestsCancelNothing DEF ReceiveAnswer, workerVars
  <1>6. ASSUME NEW j \in Imports, ReceiveImported(j) \/ ReceiveImportError(j)
        PROVE  ToldToStop(i)' => i \in stopped'
    <2>1. (\E next \in SUBSET Ids : ReceiveAnswer(next)) /\ UNCHANGED stopped
      BY <1>6, Names, RequestIds DEF ReceiveImported, ReceiveImportError
    <2> QED BY <1>5, <2>1
  <1>7. CASE ReceiveReleased
    BY <1>5, <1>7 DEF ReceiveReleased, importVars
  <1>8. CASE ReceiveOther
    BY <1>2, <1>8 DEF ReceiveOther, ReceiveNotice, workerVars, importVars
  <1>9. CASE LoseWorker \/ LoseMessage
    BY <1>2, <1>9
       DEF LoseWorker, LoseMessage, LoseGeometrySession, WorkerError, MessageError, workerVars
  <1>10. CASE DisposeClient
    BY <1>10 DEF DisposeClient, Dispose
  <1> QED BY <1>1, <1>3, <1>4, <1>6, <1>7, <1>8, <1>9, <1>10 DEF PageNext

LEMMA StoppedKeptByWorker ==
    ASSUME ProtocolTypeOK, StoppedInv, WorkerNext
    PROVE  StoppedInv'
  <1> SUFFICES ASSUME alive', NEW i \in Imports PROVE ToldToStop(i)' => i \in stopped'
    BY DEF StoppedInv, ToldToStop
  <1>1. alive /\ UNCHANGED <<word, stopped>>
    BY WorkerLeaves DEF pageVars
  <1>2. ASSUME flagged' \subseteq flagged, UNCHANGED toWorker
        PROVE  ToldToStop(i)' => i \in stopped'
    BY <1>1, <1>2 DEF StoppedInv, ToldToStop
  <1>3. ASSUME toWorker # <<>>, toWorker' = Tail(toWorker),
               Holds(toWorker', CancelOf(Import(i)))
        PROVE  Holds(toWorker, CancelOf(Import(i)))
    BY <1>3, TailHolds DEF ProtocolTypeOK
  <1>4. ASSUME NEW id \in ImportIds, Handling(id) PROVE ToldToStop(i)' => i \in stopped'
    BY <1>1, <1>3, <1>4 DEF Handling, HandlesRequest, StoppedInv, ToldToStop
  <1>5. ASSUME NEW id \in ImportIds, TakesCancel(id) PROVE ToldToStop(i)' => i \in stopped'
    <2>1. /\ toWorker # <<>> /\ toWorker' = Tail(toWorker)
          /\ Head(toWorker) = Message("cancel", id)
          /\ flagged' \subseteq flagged \cup {id}
      BY <1>5 DEF TakesCancel, HandlesCancel
    <2>2. id = Import(i) => Holds(toWorker, CancelOf(Import(i)))
      <3>1. 1 \in DOMAIN toWorker /\ toWorker[1] = Head(toWorker)
        BY <2>1 DEF ProtocolTypeOK
      <3> QED BY <2>1, <3>1 DEF Holds, CancelOf, Message
    <2> QED BY <1>1, <1>3, <2>1, <2>2 DEF StoppedInv, ToldToStop
  <1>6. ASSUME NEW j \in Imports,
               ImportReports(j) \/ ImportAwaits(j) \/ ImportResumes(j) \/ CommitsDocument(j)
        PROVE  ToldToStop(i)' => i \in stopped'
    BY <1>2, <1>6 DEF ImportReports, ImportAwaits, ImportResumes, CommitsDocument,
                      HandlerReports, HandlerAwaits, HandlerResumes, protocolVars
  <1>7. ASSUME NEW j \in Imports, ImportReturns(j) \/ ImportFails(j) \/ Releases(j)
        PROVE  ToldToStop(i)' => i \in stopped'
    BY <1>2, <1>7 DEF ImportReturns, ImportFails, Releases, HandlerReturns, HandlerFails,
                      HandlerStops, HandlerEnds
  <1>8. CASE Dies
    BY <1>8 DEF Dies, WorkerDies
  <1> QED BY <1>4, <1>5, <1>6, <1>7, <1>8 DEF WorkerNext

LEMMA StoppedInvariant == Spec => []StoppedInv
  <1>1. Init => StoppedInv
    BY RequestIds DEF Init, ProtocolInit, StoppedInv, Holds
  <1>2. ProtocolTypeOK /\ HookInv /\ BegunInv /\ StoppedInv /\ [Next]_vars => StoppedInv'
    <2> SUFFICES ASSUME ProtocolTypeOK, HookInv, BegunInv, StoppedInv, [Next]_vars
                 PROVE  StoppedInv'
      OBVIOUS
    <2>1. CASE UNCHANGED vars
      BY <2>1 DEF vars, protocolVars, importVars, StoppedInv
    <2> QED BY <2>1, StoppedKeptByPage, StoppedKeptByWorker DEF Next
  <1> QED BY <1>1, <1>2, Invariant, BegunInvariant, PTL DEF Spec

---------------------------------------------------------------------------
(* What is left resident.                                                   *)

ResultComes(d) ==
    Import(d) \in running \/ Holds(toPage, {Message("result", Import(d))})

IsSpokenFor(d) == shown = d \/ ResultComes(d) \/ Release(d) \in pending

LeftInv == alive /\ ~lost => \A d \in resident \ stopped : IsSpokenFor(d)

LEMMA ResultStays ==
    ASSUME ProtocolTypeOK, NEW d, ResultComes(d), UNCHANGED running, toPage # <<>>,
           toPage' = Tail(toPage), Head(toPage) # Message("result", Import(d))
    PROVE  ResultComes(d)'
  <1>1. toPage \in Seq(ToPage)
    BY DEF ProtocolTypeOK
  <1> QED BY <1>1, TailHolds DEF ResultComes

(* A result a connected page gets is of an import it awaits.                *)
LEMMA ResultsAreAwaited ==
    ASSUME ProtocolTypeOK, OpenPromises, PlaceInv, alive, ~lost, NEW d \in Imports,
           toPage # <<>>, Head(toPage) = Message("result", Import(d))
    PROVE  Head(toPage).kind # "progress" /\ Head(toPage).id \in pending
  <1>1. Head(toPage).kind = "result" /\ Head(toPage).id = Import(d)
    BY DEF Message
  <1>2. HasPlace(Import(d))
    BY HeadHolds, ResultIsAnAnswer DEF HasPlace
  <1>3. outcome[Import(d)] = "awaited"
    BY <1>2, RequestIds DEF PlaceInv, IsPlaced
  <1> QED BY <1>1, <1>3, RequestIds DEF OpenPromises

LEMMA LeftKeptByPage ==
    ASSUME ProtocolTypeOK, OpenPromises, PlaceInv, HookInv, BegunInv, ResidentInv, LeftInv,
           PageNext
    PROVE  LeftInv'
  <1> SUFFICES ASSUME alive', ~lost', NEW d \in resident', d \notin stopped'
               PROVE  IsSpokenFor(d)'
    BY DEF LeftInv
  <1>0. d \in resident /\ d \in Imports
    <2>1. d \in resident /\ resident \subseteq 1 .. begun /\ begun \in 0 .. MaxImports
      BY PageTakes DEF BegunInv, HookInv
    <2>2. MaxImports \in Nat
      BY RequestsAssumption
    <2> QED BY <2>1, <2>2 DEF Imports
  <1>1. ASSUME alive, ~lost, d \notin stopped PROVE IsSpokenFor(d)
    BY <1>0, <1>1 DEF LeftInv
  <1>2. CASE ImportFile \/ CancelImport
    <2>1. d \notin stopped /\ UNCHANGED shown
      BY <1>2 DEF ImportFile, CancelImport, CancelSession
    <2> QED BY <1>1, <1>2, <2>1, CancelLeaves
            DEF ImportFile, CancelImport, IsSpokenFor, ResultComes
  <1>3. ASSUME NEW i \in Imports, FileRead(i) PROVE IsSpokenFor(d)'
    BY <1>1, <1>3 DEF FileRead, Dispatch, workerVars, IsSpokenFor, ResultComes
  <1>4. ASSUME NEW i \in Imports, ReadingFails(i) PROVE IsSpokenFor(d)'
    BY <1>1, <1>4 DEF ReadingFails, protocolVars, IsSpokenFor, ResultComes
  <1>5. ASSUME NEW next \in SUBSET Ids, ReceiveAnswer(next), UNCHANGED stopped
        PROVE  /\ IsSpokenFor(d)
               /\ Head(toPage) # Message("result", Import(d)) /\ ResultComes(d) => ResultComes(d)'
               /\ pending' = (pending \ {Head(toPage).id}) \cup next
    BY <1>1, <1>5, AnswerEffect, ResultStays
  <1>6. ASSUME NEW i \in Imports, ReceiveImported(i) PROVE IsSpokenFor(d)'
    <2>1. Head(toPage) = Message("result", Import(i)) /\ Head(toPage).id = Import(i)
      BY <1>6 DEF ReceiveImported, Message
    <2>2. Head(toPage) = Message("result", Import(d)) => d = i
      BY <2>1, Names DEF Message
    <2>3. CASE token = i
      <3> DEFINE next == {Release(e) : e \in {shown} \cap Imports}
      <3>1. ReceiveAnswer(next) /\ shown' = i /\ UNCHANGED stopped
        BY <1>6, <2>3 DEF ReceiveImported
      <3>2. next \in SUBSET Ids
        BY Names
      <3>3. shown = d => Release(d) \in next
        BY <1>0
      <3> HIDE DEF next
      <3> QED BY <1>5, <2>1, <2>2, <3>1, <3>2, <3>3, Names DEF IsSpokenFor
    <2>4. CASE token # i
      <3>1. ReceiveAnswer({Release(i)}) /\ UNCHANGED <<shown, stopped>>
        BY <1>6, <2>4 DEF ReceiveImported
      <3>2. {Release(i)} \in SUBSET Ids
        BY RequestIds
      <3> QED BY <1>5, <2>1, <2>2, <3>1, <3>2, Names DEF IsSpokenFor
    <2> QED BY <2>3, <2>4
  <1>7. ASSUME NEW i \in Imports, ReceiveImportError(i) PROVE IsSpokenFor(d)'
    <2>1. /\ ReceiveAnswer({}) /\ UNCHANGED <<shown, stopped>>
          /\ Head(toPage).id = Import(i) /\ Head(toPage) # Message("result", Import(d))
      BY <1>7 DEF ReceiveImportError, Message
    <2> QED BY <1>5, <2>1, Names DEF IsSpokenFor
  <1>8. CASE ReceiveReleased
    <2>1. /\ ReceiveAnswer({}) /\ UNCHANGED <<shown, stopped>> /\ toPage # <<>>
          /\ Head(toPage) # Message("result", Import(d))
      BY <1>8 DEF ReceiveReleased, importVars, Message, Import
    <2>2. Head(toPage).id # Release(d)
      <3>1. ASSUME Head(toPage).id = Release(d) PROVE FALSE
        <4>1. Head(toPage) \in AnswersTo(Release(d))
          BY <2>1, <3>1, Kinds, HeadAndTail DEF ReceiveAnswer, ProtocolTypeOK
        <4> QED BY <1>0, <2>1, <4>1, HeadHolds DEF ResidentInv
      <3> QED BY <3>1
    <2> QED BY <1>5, <2>1, <2>2 DEF IsSpokenFor
  <1>9. CASE ReceiveOther
    <2>1. UNCHANGED <<alive, lost, pending, running, shown, stopped>>
      BY <1>9 DEF ReceiveOther, ReceiveNotice, importVars, workerVars
    <2>2. /\ toPage # <<>> /\ toPage' = Tail(toPage)
          /\ Head(toPage).kind = "progress" \/ Head(toPage).id \notin pending
      BY <1>9 DEF ReceiveOther, ReceiveNotice
    <2>3. Head(toPage) # Message("result", Import(d))
      BY <1>0, <2>1, <2>2, ResultsAreAwaited
    <2> QED BY <1>1, <2>1, <2>2, <2>3, ResultStays DEF IsSpokenFor
  <1>10. CASE LoseWorker \/ LoseMessage \/ DisposeClient
    BY <1>10, RejectionEffect DEF LoseWorker, LoseMessage, DisposeClient
  <1> QED BY <1>2, <1>3, <1>4, <1>6, <1>7, <1>8, <1>9, <1>10 DEF PageNext

LEMMA LeftKeptByWorker ==
    ASSUME ProtocolTypeOK, StoppedInv, BegunInv, HookInv, LeftInv, WorkerNext
    PROVE  LeftInv'
  <1> SUFFICES ASSUME alive', ~lost', NEW d \in resident', d \notin stopped'
               PROVE  IsSpokenFor(d)'
    BY DEF LeftInv
  <1>1. alive /\ ~lost /\ UNCHANGED <<pending, shown, stopped>> /\ d \notin stopped
    BY WorkerLeaves DEF pageVars
  <1>2. ASSUME d \in resident, ResultComes(d) => ResultComes(d)' PROVE IsSpokenFor(d)'
    BY <1>1, <1>2 DEF LeftInv, IsSpokenFor
  <1>3. toPage \in Seq(ToPage)
    BY DEF ProtocolTypeOK
  <1>4. ASSUME NEW id \in ImportIds, Handling(id) \/ TakesCancel(id) PROVE IsSpokenFor(d)'
    BY <1>2, <1>4 DEF Handling, TakesCancel, HandlesRequest, HandlesCancel, importVars,
                      ResultComes
  <1>5. ASSUME NEW i \in Imports, ImportAwaits(i) \/ ImportResumes(i) PROVE IsSpokenFor(d)'
    BY <1>2, <1>5 DEF ImportAwaits, ImportResumes, HandlerAwaits, HandlerResumes, importVars,
                      ResultComes
  <1>6. ASSUME NEW i \in Imports, ImportReports(i) PROVE IsSpokenFor(d)'
    <2>1. /\ toPage' = Append(toPage, Message("progress", Import(i)))
          /\ UNCHANGED <<running, resident>>
      BY <1>6 DEF ImportReports, HandlerReports, importVars
    <2> QED BY <1>2, <1>3, <2>1, AppendHolds DEF ResultComes
  <1>7. ASSUME NEW i \in Imports, CommitsDocument(i) PROVE IsSpokenFor(d)'
    <2>1. /\ resident' = resident \cup {i} /\ Import(i) \in running
          /\ UNCHANGED <<running, toPage>>
      BY <1>7, IdsAssumption, RequestIds DEF CommitsDocument, protocolVars, ProtocolTypeOK
    <2> QED BY <1>2, <2>1 DEF ResultComes, IsSpokenFor
  <1>8. ASSUME NEW id \in Ids, NEW kind, HandlerEnds(id, kind), d \in resident,
               id = Import(d) => kind = "result"
        PROVE  IsSpokenFor(d)'
    <2>1. toPage' = Append(toPage, Message(kind, id)) /\ running' = running \ {id}
      BY <1>8 DEF HandlerEnds
    <2> QED BY <1>2, <1>3, <1>8, <2>1, AppendHolds DEF ResultComes
  <1>9. ASSUME NEW i \in Imports, ImportReturns(i) PROVE IsSpokenFor(d)'
    <2>1. HandlerEnds(Import(i), AnswerFor(Import(i))) /\ d \in resident
      BY <1>9 DEF ImportReturns, HandlerReturns, importVars
    <2>2. d = i => AnswerFor(Import(i)) = "result"
      BY <1>1 DEF AnswerFor, IsCancelled, StoppedInv
    <2> QED BY <1>8, <2>1, <2>2, Names, RequestIds
  <1>10. ASSUME NEW i \in Imports, ImportFails(i) PROVE IsSpokenFor(d)'
    <2>1. d \in resident /\ d # i /\ \E kind : HandlerEnds(Import(i), kind)
      BY <1>10 DEF ImportFails, HandlerFails, HandlerStops, importVars
    <2> QED BY <1>8, <2>1, Names, RequestIds
  <1>11. ASSUME NEW i \in Imports, Releases(i) PROVE IsSpokenFor(d)'
    <2>1. d \in resident /\ \E kind : HandlerEnds(Release(i), kind)
      BY <1>11 DEF Releases, HandlerReturns
    <2> QED BY <1>8, <2>1, Names, RequestIds
  <1>12. CASE Dies
    BY <1>12 DEF Dies, WorkerDies
  <1> QED BY <1>4, <1>5, <1>6, <1>7, <1>9, <1>10, <1>11, <1>12 DEF WorkerNext

(* For any number of imports: while the worker is connected, a document of  *)
(* an import nobody cancelled is shown, about to be answered for, or about  *)
(* to be released. Superseding an import or losing the token leaks nothing. *)
THEOREM OnlyCancelledDocumentsLeak == Spec => []OnlyCancelledAreLeft
  <1>1. Init => LeftInv
    BY DEF Init, LeftInv
  <1>2. /\ ProtocolTypeOK /\ HookInv /\ OpenPromises /\ PlaceInv /\ BegunInv
        /\ ResidentInv /\ StoppedInv /\ LeftInv /\ [Next]_vars
        => LeftInv'
    <2> SUFFICES ASSUME ProtocolTypeOK, HookInv, OpenPromises, PlaceInv, BegunInv,
                        ResidentInv, StoppedInv, LeftInv, [Next]_vars
                 PROVE  LeftInv'
      OBVIOUS
    <2>1. CASE UNCHANGED vars
      BY <2>1 DEF vars, protocolVars, importVars, LeftInv, IsSpokenFor, ResultComes
    <2> QED BY <2>1, LeftKeptByPage, LeftKeptByWorker DEF Next
  <1>3. LeftInv => OnlyCancelledAreLeft
    BY DEF LeftInv, IsSpokenFor, ResultComes, Holds, OnlyCancelledAreLeft, AnswerOnItsWay,
           ReleaseOnItsWay
  <1> QED BY <1>1, <1>2, <1>3, Invariant, ProtocolInvariants, BegunInvariant,
             ResidentInvariant, StoppedInvariant, PTL DEF Spec
=============================================================================
