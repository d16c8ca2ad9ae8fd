-------------------------- MODULE BooleanOperations --------------------------
(* BooleanOperationController in the geometry worker: one disposable nested *)
(* worker at a time runs the Manifold call of a texture or split request. A *)
(* request makes a sequence of calls and goes on from one to the next in    *)
(* the turn that hears the answer. What a late answer, a cancellation, a    *)
(* newer request and a released document do to one another.                 *)
EXTENDS Naturals, FiniteSets

CONSTANTS
    Requests,       \* texture and split requests
    Documents,
    MaxCalls        \* bound: Boolean calls of one request

ASSUME BooleanAssumption == MaxCalls \in Nat \ {0} /\ Cardinality(Documents) > 0

VARIABLES
    owner,      \* the document of each request
    state,      \* how each request's handler stands
    calls,      \* the calls each request has made; the last may be running
    active,     \* controller.active, a set of at most one call
    nested,     \* nested workers that exist, named by their call
    replies,    \* their messages and error events on the way
    words,      \* requests whose shared word the page has written
    flagged     \* requests whose cancel message the worker has handled

booleanVars == <<owner, state, calls, active, nested, replies, words, flagged>>

Call(r, n) == [request |-> r, number |-> n]

Ends == {"result", "failed", "error"}

BooleanInit ==
    /\ owner \in [Requests -> Documents]
    /\ state = [r \in Requests |-> "new"] /\ calls = [r \in Requests |-> 0]
    /\ active = {} /\ nested = {} /\ replies = {} /\ words = {} /\ flagged = {}

(* The combined token.                                                      *)
IsStopped(r) == r \in words \cup flagged

(* A mutant: the superseded promise is left alone.                          *)
FailOnly(failing, superseded) ==
    [r \in Requests |-> IF r \in failing THEN "failed" ELSE state[r]]

(* Handlers whose promise is rejected fail in the same turn: each awaits    *)
(* nothing else. superseded are those of the call cancelActive ends.        *)
Fail(failing, superseded) ==
    [r \in Requests |-> IF r \in failing \cup superseded THEN "failed" ELSE state[r]]

Owners(cs) == {c.request : c \in cs}

(* cancelActive: its worker is terminated and its promise rejected.         *)
CancelActive ==
    /\ state' = Fail({}, Owners(active))
    /\ nested' = nested \ active /\ active' = {}

(* run, for the next call of r, once `others' is what remains of active:    *)
(* whatever is active is superseded, and a new worker gets the call.        *)
Run(r, others) ==
    LET call == Call(r, calls[r] + 1) IN
    /\ calls' = [calls EXCEPT ![r] = @ + 1]
    /\ state' = [Fail({}, Owners(others)) EXCEPT ![r] = "waiting"]
    /\ nested' = (nested \ active) \cup {call}
    /\ active' = {call}

(* The first call, or a request refused before its first: cancelled, or     *)
(* over a limit. A refusal supersedes nothing.                              *)
Begins(r) ==
    /\ state[r] = "new"
    /\ \/ ~IsStopped(r) /\ Run(r, active)
       \/ state' = Fail({r}, {}) /\ UNCHANGED <<calls, nested, active>>
    /\ UNCHANGED <<owner, replies, words, flagged>>

(* A nested worker answers, or crashes.                                     *)
Answers(call) ==
    /\ call \in nested /\ \A m \in replies : m.call # call
    /\ \E kind \in Ends : replies' = replies \cup {[call |-> call, kind |-> kind]}
    /\ UNCHANGED <<owner, state, calls, active, nested, words, flagged>>

(* The answer of a settled call changes nothing. Otherwise the call is      *)
(* finished, and the handler fails (also when its next call is refused),    *)
(* makes its next call, or is through.                                      *)
HearsReply(m) ==
    /\ m \in replies /\ replies' = replies \ {m}
    /\ LET r == m.call.request IN
       IF m.call \notin active THEN UNCHANGED <<state, calls, active, nested>>
       ELSE \/ /\ m.kind = "result" /\ ~IsStopped(r) /\ calls[r] < MaxCalls
               /\ Run(r, active \ {m.call})
            \/ /\ state' = [state EXCEPT ![r] =
                            IF m.kind = "result" /\ ~IsStopped(r) THEN "through" ELSE "failed"]
               /\ active' = active \ {m.call} /\ nested' = nested \ {m.call}
               /\ UNCHANGED calls
    /\ UNCHANGED <<owner, words, flagged>>

(* The page cancels: the word at once, the message later.                   *)
PageCancels(r) ==
    /\ r \notin words /\ words' = words \cup {r}
    /\ UNCHANGED <<owner, state, calls, active, nested, replies, flagged>>

(* The cancel message: onCancelled of a request whose call is running.      *)
CancelArrives(r) ==
    /\ r \in words \ flagged
    /\ flagged' = flagged \cup {r}
    /\ IF r \in Owners(active) THEN CancelActive ELSE UNCHANGED <<state, active, nested>>
    /\ UNCHANGED <<owner, calls, replies, words>>

(* cancelDocument, from modelReleaseHandler.                                *)
Releases(d) ==
    /\ \E c \in active : owner[c.request] = d
    /\ CancelActive
    /\ UNCHANGED <<owner, calls, replies, words, flagged>>

Calls == [request : Requests, number : 1 .. MaxCalls]

Messages == [call : Calls, kind : Ends]

BooleanNext ==
    \/ \E r \in Requests : Begins(r) \/ PageCancels(r) \/ CancelArrives(r)
    \/ \E call \in nested : Answers(call)
    \/ \E m \in replies : HearsReply(m)
    \/ \E d \in Documents : Releases(d)

BooleanSpec == BooleanInit /\ [][BooleanNext]_booleanVars

(* Whatever is superseded, cancelled, released or answered late: a handler  *)
(* waits exactly while its last call is the active one, so none hangs, and  *)
(* no nested worker runs beside that call's.                                *)
WaitsForTheActive ==
    /\ {Call(r, calls[r]) : r \in {q \in Requests : state[q] = "waiting"}} = active
    /\ nested = active /\ Cardinality(active) <= 1
=============================================================================
