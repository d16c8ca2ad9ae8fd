-------------------------- MODULE ImportLifecycle --------------------------
(* Importing a model: the import hook and its token in the workspace store, *)
(* the session that reads the file and dispatches it, the worker's import   *)
(* and release handlers, and the protocol between them (WorkerProtocol).    *)
(* An import and the document it makes have the same number: a document id  *)
(* is never given twice.                                                    *)
EXTENDS WorkerProtocol

CONSTANT MaxImports     \* bound: imports the user starts

VARIABLES
    begun,      \* imports started; the last one is the newest
    phase,      \* what each import's session waits for
    stopped,    \* sessions whose cancelled flag is set
    session,    \* the hook's sessionRef, 0 when undefined
    token,      \* the store's currentImportToken, 0 when undefined
    shown,      \* the document of the store's model, 0 when undefined
    bar,        \* importProgress.state, the working ones as "busy"
    resident    \* worker: the documents of the resident store

pageVars == <<begun, phase, stopped, session, token, shown, bar>>

importVars == <<begun, phase, stopped, session, token, shown, bar, resident>>

vars == <<protocolVars, importVars>>

Imports == 1 .. MaxImports

Import(i) == <<"import", i>>

Release(i) == <<"release", i>>

ImportIds == {Import(i) : i \in Imports} \cup {Release(i) : i \in Imports}

ImportRequests == {Import(i) : i \in Imports}

(* Only an import is dispatched with a shared word.                         *)
ASSUME RequestsAssumption ==
    MaxImports \in Nat /\ Ids = ImportIds /\ Interruptible = ImportRequests

Init ==
    /\ ProtocolInit
    /\ begun = 0 /\ phase = [i \in Imports |-> "idle"]
    /\ stopped = {} /\ session = 0 /\ token = 0
    /\ shown = 0 /\ bar = "idle" /\ resident = {}

---------------------------------------------------------------------------
(* The page.                                                                *)

(* session.cancel: the flag, and the request's cancel once it is sent;      *)
(* requestCancel ignores a request that is no longer pending.               *)
CancelSession ==
    /\ stopped' = stopped \cup ({session} \cap Imports)
    /\ IF session # 0 /\ Import(session) \in pending /\ ~CancelOnItsWay(Import(session))
       THEN RequestCancel(Import(session))
       ELSE UNCHANGED protocolVars

(* importFile, up to the first await: the previous session is cancelled and *)
(* the new one gets the token.                                              *)
ImportFile ==
    /\ begun < MaxImports
    /\ CancelSession
    /\ begun' = begun + 1 /\ session' = begun + 1 /\ token' = begun + 1
    /\ phase' = [phase EXCEPT ![begun + 1] = "reading"]
    /\ bar' = "busy"
    /\ UNCHANGED <<shown, resident>>

CancelImport ==
    /\ session # 0
    /\ CancelSession
    /\ UNCHANGED <<begun, phase, session, token, shown, bar, resident>>

(* failImport, and the rest of the hook's rejection branch: a superseded    *)
(* failure changes nothing.                                                 *)
FailImport(i) ==
    IF token = i
    THEN /\ token' = 0 /\ session' = 0
         /\ bar' = IF shown = 0 THEN "error" ELSE "ready"
    ELSE UNCHANGED <<token, session, bar>>

(* The file was screened and read; a cancelled session ends here.           *)
FileRead(i) ==
    /\ phase[i] = "reading" /\ i \notin stopped
    /\ Dispatch(Import(i))
    /\ phase' = [phase EXCEPT ![i] = "sent"]
    /\ UNCHANGED <<begun, stopped, session, token, shown, bar, resident>>

(* The session rejects before it dispatched: refused by screening,          *)
(* unreadable, cancelled meanwhile, or the coordinator is disposed.         *)
ReadingFails(i) ==
    /\ phase[i] = "reading"
    /\ phase' = [phase EXCEPT ![i] = "over"]
    /\ FailImport(i)
    /\ UNCHANGED <<protocolVars, begun, stopped, shown, resident>>

(* A mutant: the result installs whatever the token says.                   *)
InstallsAnyResult(i) ==
    /\ toPage # <<>> /\ Head(toPage) = Message("result", Import(i))
    /\ phase' = [phase EXCEPT ![i] = "over"]
    /\ ReceiveAnswer({Release(d) : d \in {shown} \cap Imports})
    /\ shown' = i /\ token' = 0 /\ session' = 0 /\ bar' = "ready"
    /\ UNCHANGED <<begun, stopped, resident>>

(* A mutant: the handle to release is read after the commit.                *)
ReleasesTheNew(i) ==
    /\ toPage # <<>> /\ Head(toPage) = Message("result", Import(i))
    /\ phase' = [phase EXCEPT ![i] = "over"]
    /\ ReceiveAnswer({Release(i)})
    /\ IF token = i THEN shown' = i /\ token' = 0 /\ session' = 0 /\ bar' = "ready"
       ELSE UNCHANGED <<shown, token, session, bar>>
    /\ UNCHANGED <<begun, stopped, resident>>

(* A mutant: a result that is not installed is dropped.                     *)
DropsSuperseded(i) ==
    /\ toPage # <<>> /\ Head(toPage) = Message("result", Import(i))
    /\ phase' = [phase EXCEPT ![i] = "over"]
    /\ ReceiveAnswer({})
    /\ IF token = i THEN shown' = i /\ token' = 0 /\ session' = 0 /\ bar' = "ready"
       ELSE UNCHANGED <<shown, token, session, bar>>
    /\ UNCHANGED <<begun, stopped, resident>>

(* The result of the current import is installed and the document it        *)
(* replaces is released; any other result is released itself.               *)
ReceiveImported(i) ==
    /\ toPage # <<>> /\ Head(toPage) = Message("result", Import(i))
    /\ phase' = [phase EXCEPT ![i] = "over"]
    /\ IF token = i
       THEN /\ ReceiveAnswer({Release(d) : d \in {shown} \cap Imports})
            /\ shown' = i /\ token' = 0 /\ session' = 0 /\ bar' = "ready"
       ELSE ReceiveAnswer({Release(i)}) /\ UNCHANGED <<shown, token, session, bar>>
    /\ UNCHANGED <<begun, stopped, resident>>

ReceiveImportError(i) ==
    /\ toPage # <<>>
    /\ Head(toPage) \in {Message("failed", Import(i)), Message("cancelled", Import(i))}
    /\ phase' = [phase EXCEPT ![i] = "over"]
    /\ ReceiveAnswer({}) /\ FailImport(i)
    /\ UNCHANGED <<begun, stopped, shown, resident>>

(* The hook ignores how a release ends.                                     *)
ReceiveReleased ==
    /\ toPage # <<>> /\ Head(toPage).id[1] = "release"
    /\ ReceiveAnswer({})
    /\ UNCHANGED importVars

ReceiveOther == ReceiveNotice /\ UNCHANGED importVars

(* The sessions of rejected requests are over.                              *)
SessionsEnd ==
    phase' = [i \in Imports |-> IF Import(i) \in pending THEN "over" ELSE phase[i]]

(* A mutant: the token survives the session.                                *)
LoseModelOnly ==
    /\ SessionsEnd
    /\ shown' = 0 /\ bar' = "idle"
    /\ UNCHANGED <<begun, stopped, session, token, resident>>

(* loseGeometrySession runs before the rejected promises continue: their    *)
(* failImport meets no token.                                               *)
LoseGeometrySession ==
    /\ SessionsEnd
    /\ token' = 0 /\ shown' = 0 /\ bar' = "idle"
    /\ UNCHANGED <<begun, stopped, session, resident>>

LoseWorker == WorkerError /\ LoseGeometrySession

LoseMessage == MessageError /\ LoseGeometrySession

(* GeometryClient.dispose.                                                  *)
DisposeClient ==
    /\ Dispose /\ SessionsEnd
    /\ IF token # 0 /\ Import(token) \in pending THEN FailImport(token)
       ELSE UNCHANGED <<token, session, bar>>
    /\ UNCHANGED <<begun, stopped, shown, resident>>

---------------------------------------------------------------------------
(* The worker.                                                              *)

Handling(id) == HandlesRequest(id) /\ UNCHANGED importVars

TakesCancel(id) == HandlesCancel(id) /\ UNCHANGED importVars

(* Reading and parsing: progress and awaits before the document exists.     *)
ImportReports(i) ==
    /\ HandlerReports(Import(i))
    /\ UNCHANGED importVars

ImportAwaits(i) ==
    /\ i \notin resident
    /\ HandlerAwaits(Import(i))
    /\ UNCHANGED importVars

ImportResumes(i) == HandlerResumes(Import(i)) /\ UNCHANGED importVars

(* commitImportedDocument: polled once more, then the document is resident. *)
CommitsDocument(i) ==
    /\ alive /\ onCpu = Import(i)
    /\ i \notin resident /\ ~IsCancelled(Import(i))
    /\ resident' = resident \cup {i}
    /\ UNCHANGED <<protocolVars, pageVars>>

(* Nothing awaits between the commit and the host's own check, but the page *)
(* may write the word there.                                                *)
ImportReturns(i) ==
    /\ i \in resident
    /\ HandlerReturns(Import(i))
    /\ UNCHANGED importVars

ImportFails(i) ==
    /\ i \notin resident
    /\ HandlerFails(Import(i)) \/ HandlerStops(Import(i))
    /\ UNCHANGED importVars

(* model/release: synchronous, whether the document is there or not.        *)
Releases(i) ==
    /\ HandlerReturns(Release(i))
    /\ resident' = resident \ {i}
    /\ UNCHANGED pageVars

Dies == WorkerDies /\ UNCHANGED importVars

---------------------------------------------------------------------------
PageNext ==
    \/ ImportFile \/ CancelImport
    \/ \E i \in Imports :
        FileRead(i) \/ ReadingFails(i) \/ ReceiveImported(i) \/ ReceiveImportError(i)
    \/ ReceiveReleased \/ ReceiveOther
    \/ LoseWorker \/ LoseMessage \/ DisposeClient

WorkerNext ==
    \/ \E id \in ImportIds : Handling(id) \/ TakesCancel(id)
    \/ \E i \in Imports :
        \/ ImportReports(i) \/ ImportAwaits(i) \/ ImportResumes(i)
        \/ CommitsDocument(i) \/ ImportReturns(i) \/ ImportFails(i) \/ Releases(i)
    \/ Dies

Next == PageNext \/ WorkerNext

Spec == Init /\ [][Next]_vars

(* Messages are delivered in both directions, a file is read or the read    *)
(* fails, a handler goes on, a dead worker is reported. What the user does, *)
(* crashes and message errors need not happen.                              *)
PageReceives ==
    \/ ReceiveReleased \/ ReceiveOther
    \/ \E i \in Imports : ReceiveImported(i) \/ ReceiveImportError(i)

ReadEnds(i) == FileRead(i) \/ ReadingFails(i)

ImportGoesOn(i) ==
    ImportResumes(i) \/ CommitsDocument(i) \/ ImportReturns(i) \/ Releases(i)
    \/ (IsCancelled(Import(i)) /\ ImportFails(i))

Fairness ==
    /\ WF_vars(PageReceives)
    /\ WF_vars(~alive /\ LoseWorker)
    /\ WF_vars(\E id \in ImportIds : Handling(id) \/ TakesCancel(id))
    /\ \A i \in Imports : WF_vars(ReadEnds(i)) /\ WF_vars(ImportGoesOn(i))

FairSpec == Spec /\ Fairness

---------------------------------------------------------------------------
(* Properties.                                                              *)

TypeOK ==
    /\ ProtocolTypeOK
    /\ begun \in 0 .. MaxImports
    /\ phase \in [Imports -> {"idle", "reading", "sent", "over"}]
    /\ stopped \subseteq 1 .. begun
    /\ {session, token, shown} \subseteq 0 .. begun
    /\ bar \in {"idle", "busy", "ready", "error"}
    /\ resident \subseteq 1 .. begun

(* The progress bar runs exactly while an import holds the token, and that  *)
(* import is still reading its file or awaited from the worker: a stale,    *)
(* cancelled or lost import never leaves a bar nothing will end.            *)
BarHasAnImport ==
    /\ (bar = "busy") = (token # 0)
    /\ token # 0 => phase[token] = "reading" \/ Import(token) \in pending

ReleaseOnItsWay(d) == Release(d) \in pending

(* The model on screen is resident, and nobody has asked for its release:   *)
(* an operation on it can be dispatched. A superseded import that answers   *)
(* late, or a release of the model it replaced, does not take it away.      *)
ShownIsResident ==
    shown # 0 /\ alive => shown \in resident /\ ~ReleaseOnItsWay(shown)

AnswerOnItsWay(d) ==
    Import(d) \in running \/ Message("result", Import(d)) \in
        {toPage[k] : k \in DOMAIN toPage}

(* Every resident document is shown, about to be answered for, or about to  *)
(* be released, as use-model-import.ts says: "a discarded import does not   *)
(* leave a model resident in the worker forever".                           *)
NothingLeftResident ==
    alive /\ ~lost =>
        \A d \in resident : shown = d \/ AnswerOnItsWay(d) \/ ReleaseOnItsWay(d)

(* The same, for every import that was not cancelled: superseding or losing *)
(* a token leaks nothing by itself.                                         *)
OnlyCancelledAreLeft ==
    alive /\ ~lost =>
        \A d \in resident \ stopped :
            shown = d \/ AnswerOnItsWay(d) \/ ReleaseOnItsWay(d)

(* The model on screen only ever changes to that of the import begun last,  *)
(* in whatever order the worker answers.                                    *)
ShowsTheNewest == [][shown' # shown /\ shown' # 0 => shown' = begun]_vars

(* An import the user sees running ends, unless it was started after the    *)
(* worker was lost.                                                         *)
ImportEnds == bar = "busy" /\ ~lost ~> bar # "busy"
=============================================================================
