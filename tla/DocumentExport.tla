--------------------------- MODULE DocumentExport ---------------------------
(* Saving a document: the conversion slice of the store and its hook, the   *)
(* export service, the export worker that writes the file chunk by chunk,   *)
(* and the file on the user's disk, beside a user who confirms and cancels, *)
(* other programs that touch the file, and changes to the document.         *)
(* Small documents are handed over as one download; the others (backed)     *)
(* are written to a file of a folder the user chose.                        *)
EXTENDS Integers, Sequences

CONSTANTS
    MaxExports,     \* bound: exports the user starts
    MaxRevisions,   \* bound: revisions of the document
    Chunks          \* chunks of a backed export

ASSUME ExportAssumption ==
    /\ MaxExports \in Nat /\ MaxRevisions \in Nat \ {0} /\ Chunks \in Nat \ {0}

VARIABLES
    shown,      \* page: the model's revision, 0 when there is no model
    conversion, \* page: conversion.state, and the export it speaks of
    token,      \* page: currentConversionToken, 0 when undefined
    begun,      \* page: exports begun; the last one's token
    op,         \* page: the operation of activeOperationId
    file,       \* page: what selectObjDestination has come to
    prompt,     \* page: the overwrite prompt is on the screen
    downloads,  \* page: the exports handed over as downloads
    request,    \* document/send-for-export: none, asked, sent
    exporter,   \* export worker: its state, and the chunks it has posted
    posts,      \* the export worker's messages to the page
    disk,       \* what is under the file's name, and who put it there
    resident,   \* geometry worker: the document's revision, 0 when it is lost
    change      \* a commit of another tool: none, asked, made

pageVars == <<shown, conversion, token, begun, downloads>>

fileVars == <<file, prompt, disk>>

workVars == <<request, exporter, posts>>

documentVars == <<resident, change>>

exportVars == <<pageVars, op, fileVars, workVars, documentVars>>

Disk(kind, by, chunks) == [kind |-> kind, by |-> by, chunks |-> chunks]

NoFile == Disk("absent", 0, 0)

Placeholder(id) == Disk("placeholder", id, 0)

NoOperation == [id |-> 0]

NoTarget == Disk("unread", 0, 0)

(* refused and late are history, which no step reads: that the file system  *)
(* refused to say what it had made, or to look at it or remove it; and that *)
(* another program wrote the file between a clean-up's look and its removal.*)
NoSink == [phase |-> "none", target |-> NoTarget, created |-> FALSE,
           chunks |-> 0, io |-> "none", removing |-> FALSE,
           refused |-> FALSE, late |-> FALSE]

(* selectObjDestination calls itself.                                       *)
SelectsAgain == [NoSink EXCEPT !.phase = "comparing"]

NoExporter == [state |-> "off", posted |-> 0]

ExportInit ==
    /\ shown = 1 /\ resident = 1 /\ change = "none"
    /\ conversion = [state |-> "closed", of |-> 0] /\ token = 0 /\ begun = 0
    /\ op = NoOperation /\ downloads = {}
    /\ file = NoSink /\ prompt = FALSE
    /\ request = "none" /\ exporter = NoExporter /\ posts = <<>>
    /\ disk \in {NoFile, Disk("other", 0, 0)}

Busy == op # NoOperation

(* active() and current() of the running operation.                         *)
Active == Busy /\ op.outcome = "none"

Current == Active /\ token = op.id

---------------------------------------------------------------------------
(* The end of an operation.                                                 *)

(* settle: the outcome is fixed, the export worker and its channel go; the  *)
(* operation stays active until its output is cleaned up.                   *)
Settle(outcome) ==
    /\ op' = [op EXCEPT !.outcome = outcome, !.writing = FALSE]
    /\ request' = "none" /\ exporter' = NoExporter /\ posts' = <<>>

(* activeOperationId is undefined and the promise resolves; the hook tells  *)
(* the store, which listens only to the current token.                      *)
Resolve(outcome) ==
    /\ op' = NoOperation /\ file' = NoSink
    /\ IF token = op.id
       THEN /\ token' = 0
            /\ conversion' = [state |-> IF outcome = "success" THEN "saved" ELSE "failed",
                              of |-> op.id]
       ELSE UNCHANGED <<token, conversion>>
    /\ UNCHANGED <<shown, begun>>

(* settle with a success: there is nothing to clean up.                     *)
Succeed ==
    /\ Resolve("success")
    /\ request' = "none" /\ exporter' = NoExporter /\ posts' = <<>>

(* failed, of a promise that was rejected or of an error event.             *)
Failed(outcome) ==
    IF Active THEN Settle(outcome) ELSE UNCHANGED <<op, workVars>>

(* abort: of an acquisition that is rejected or begins again, and of the    *)
(* destination of a settled operation. The stream is aborted once nothing   *)
(* is in flight, and then the clean-up begins.                              *)
Aborting ==
    \/ file.phase \in {"rejecting", "retrying"}
    \/ file.phase = "ready" /\ Busy /\ ~Active /\ file.io = "none"

(* A mutant: the clean-up takes whatever file it finds for its own.         *)
FindsAFile ==
    /\ Aborting /\ file.created /\ ~file.removing /\ disk # NoFile
    /\ file' = [file EXCEPT !.removing = TRUE]
    /\ UNCHANGED <<disk, prompt, pageVars, op, workVars, documentVars>>

(* cleanup's look: the placeholder this operation made is there, unchanged. *)
FindsPlaceholder ==
    /\ Aborting /\ file.created /\ ~file.removing /\ disk = Placeholder(op.id)
    /\ file' = [file EXCEPT !.removing = TRUE]
    /\ UNCHANGED <<disk, prompt, pageVars, op, workVars, documentVars>>

(* The rest of the abort. What is under the name by now is removed, if the  *)
(* look found the placeholder; the file system may refuse the look or the   *)
(* removal. That, or a stream that did not abort, fails the abort: of a     *)
(* settled operation this is then the outcome.                              *)
EndsAbort ==
    /\ Aborting
    /\ \E refused, failed \in BOOLEAN :
        /\ refused => failed /\ file.created
        /\ refused \/ file.removing \/ ~(file.created /\ disk = Placeholder(op.id))
        /\ disk' = IF file.removing /\ ~refused THEN NoFile ELSE disk
        /\ IF file.phase = "retrying" /\ ~failed
           THEN file' = SelectsAgain /\ UNCHANGED <<op, workVars>>
           ELSE /\ file' = [file EXCEPT !.phase = "gone", !.created = FALSE,
                                        !.removing = FALSE, !.refused = @ \/ refused]
                /\ IF file.phase = "ready" /\ failed
                   THEN op' = [op EXCEPT !.outcome = "failed"] /\ UNCHANGED workVars
                   ELSE Failed(IF op.aborted THEN "cancelled" ELSE "failed")
    /\ UNCHANGED <<pageVars, prompt, documentVars>>

(* A mutant: settle does not wait for a destination still being acquired.   *)
ResolvesAtOnce ==
    /\ Busy /\ ~Active /\ file.phase # "ready"
    /\ Resolve(op.outcome)
    /\ UNCHANGED <<downloads, prompt, disk, workVars, documentVars>>

(* A settled operation has waited for its acquisition to end, and for the   *)
(* abort of the destination it got, if any.                                 *)
Resolves ==
    /\ Busy /\ ~Active /\ file.phase \in {"none", "gone"}
    /\ Resolve(op.outcome)
    /\ UNCHANGED <<downloads, prompt, disk, workVars, documentVars>>

CleansUp == FindsPlaceholder \/ EndsAbort \/ Resolves

---------------------------------------------------------------------------
(* The hook and the store.                                                  *)

OpenConversion ==
    /\ shown # 0 /\ conversion.state = "closed"
    /\ conversion' = [state |-> "reviewing", of |-> 0] /\ token' = 0
    /\ UNCHANGED <<shown, begun, downloads, op, fileVars, workVars, documentVars>>

(* start, without a destination: the worker is created and the snapshot is  *)
(* asked for.                                                               *)
Starts ==
    /\ exporter' = [state |-> "waiting", posted |-> 0] /\ request' = "asked"
    /\ UNCHANGED posts

(* convert: refused while an operation is active. A backed export asks for  *)
(* a folder first, unless one was chosen before.                            *)
Convert ==
    /\ shown # 0 /\ conversion.state # "closed" /\ ~Busy /\ begun < MaxExports
    /\ begun' = begun + 1 /\ token' = begun + 1
    /\ conversion' = [state |-> "working", of |-> begun + 1]
    /\ \E backed \in BOOLEAN :
        /\ op' = [id |-> begun + 1, of |-> shown, backed |-> backed, outcome |-> "none",
                  writing |-> FALSE, committing |-> FALSE, aborted |-> FALSE]
        /\ IF backed
           THEN /\ \E phase \in {"picking", "comparing"} : file' = [NoSink EXCEPT !.phase = phase]
                /\ UNCHANGED workVars
           ELSE Starts /\ UNCHANGED file
    /\ UNCHANGED <<shown, downloads, prompt, disk, documentVars>>

(* A mutant: a question on the screen is taken away without an answer.      *)
StopLeavingTheQuestion ==
    IF ~Busy THEN UNCHANGED <<op, file, prompt, workVars>>
    ELSE /\ IF Active /\ ~op.committing
            THEN /\ op' = [op EXCEPT !.outcome = "cancelled", !.writing = FALSE, !.aborted = TRUE]
                 /\ request' = "none" /\ exporter' = NoExporter /\ posts' = <<>>
            ELSE op' = [op EXCEPT !.aborted = TRUE] /\ UNCHANGED workVars
         /\ prompt' = FALSE /\ UNCHANGED file

(* What the hook does to stop an export: the acquisition's signal, a no to  *)
(* the open question, and session.cancel, which is ignored once the file is *)
(* being committed. Its session is the active operation's or a dead one's.  *)
StopExport ==
    IF ~Busy THEN UNCHANGED <<op, file, prompt, workVars>>
    ELSE /\ IF Active /\ ~op.committing
            THEN /\ op' = [op EXCEPT !.outcome = "cancelled", !.writing = FALSE, !.aborted = TRUE]
                 /\ request' = "none" /\ exporter' = NoExporter /\ posts' = <<>>
            ELSE op' = [op EXCEPT !.aborted = TRUE] /\ UNCHANGED workVars
         /\ prompt' = FALSE
         /\ file' = IF file.phase = "asking" THEN [file EXCEPT !.phase = "declined"] ELSE file

Cancel ==
    /\ conversion.state = "working" /\ Busy
    /\ StopExport
    /\ UNCHANGED <<pageVars, disk, documentVars>>

---------------------------------------------------------------------------
(* The destination: selectObjDestination. Its check() throws once the       *)
(* acquisition's signal is aborted.                                         *)

(* The acquisition is rejected before it can have made anything.            *)
Rejects(outcome) ==
    /\ file' = [file EXCEPT !.phase = "gone"]
    /\ Failed(outcome)
    /\ UNCHANGED <<pageVars, prompt, disk, documentVars>>

Acquires == UNCHANGED <<pageVars, op, workVars, documentVars>>

PickerCloses ==
    /\ file.phase = "picking"
    /\ \/ Rejects("cancelled")
       \/ /\ ~op.aborted
          /\ file' = [file EXCEPT !.phase = "comparing"]
          /\ UNCHANGED <<disk, prompt>> /\ Acquires

(* check, at any await; and a file system that refuses.                     *)
AcquisitionFails ==
    /\ file.phase = "comparing"
    /\ Rejects(IF op.aborted THEN "cancelled" ELSE "failed")

(* The same once a file may have been made: the abort comes first, and      *)
(* removes nothing when it was not learnt what file it is.                  *)
AcquisitionThrows ==
    /\ file.phase \in {"creating", "making", "probing", "locking"}
    /\ file' = [file EXCEPT !.phase = "rejecting", !.refused = (file.phase = "probing")]
    /\ UNCHANGED <<disk, prompt>> /\ Acquires

(* Declined: by the user, or because the export was stopped.                *)
AcquisitionDeclined == file.phase = "declined" /\ Rejects("cancelled")

(* The target is looked up until two looks agree; a file that is there, or  *)
(* has changed, is asked about.                                             *)
Compares ==
    /\ file.phase = "comparing" /\ ~op.aborted
    /\ LET next == IF disk = file.target
                   THEN IF disk = NoFile THEN "creating" ELSE "locking"
                   ELSE IF disk = NoFile THEN "comparing" ELSE "asking"
       IN  /\ file' = [file EXCEPT !.phase = next, !.target = disk]
           /\ prompt' = (next = "asking")
    /\ UNCHANGED disk /\ Acquires

AnswersPrompt ==
    /\ file.phase = "asking" /\ prompt
    /\ prompt' = FALSE
    /\ \E next \in {"comparing", "declined"} : file' = [file EXCEPT !.phase = next]
    /\ UNCHANGED disk /\ Acquires

(* A second look: the name is still free; or a file appeared, and the       *)
(* selection starts again.                                                  *)
LooksAgain ==
    /\ file.phase = "creating" /\ ~op.aborted
    /\ file' = IF disk = NoFile THEN [file EXCEPT !.phase = "making"] ELSE SelectsAgain
    /\ UNCHANGED <<disk, prompt>> /\ Acquires

(* getFileHandle makes the file, unless one has appeared: it is not an      *)
(* exclusive creation.                                                      *)
MakesFile ==
    /\ file.phase = "making"
    /\ disk' = IF disk = NoFile THEN Placeholder(op.id) ELSE disk
    /\ file' = [file EXCEPT !.phase = "probing"]
    /\ UNCHANGED prompt /\ Acquires

(* getFile: an empty and new file is the operation's placeholder from here  *)
(* on; any other is somebody's, and the selection starts again.             *)
OwnsPlaceholder ==
    /\ file.phase = "probing"
    /\ file' = IF disk = Placeholder(op.id)
               THEN [file EXCEPT !.phase = "locking", !.created = TRUE]
               ELSE SelectsAgain
    /\ UNCHANGED <<disk, prompt>> /\ Acquires

(* The writable is locked; one of a file that changed meanwhile is aborted, *)
(* and the selection starts again. With the destination, run starts the     *)
(* worker unless the operation is over; a stale one is aborted first.       *)
Locks ==
    /\ file.phase = "locking" /\ ~op.aborted
    /\ IF disk = (IF file.created THEN Placeholder(op.id) ELSE file.target)
       THEN /\ file' = [file EXCEPT !.phase = "ready"]
            /\ IF Current THEN Starts /\ UNCHANGED op ELSE Failed("stale")
       ELSE /\ file' = [file EXCEPT !.phase = "retrying"]
            /\ UNCHANGED <<op, workVars>>
    /\ UNCHANGED <<disk, prompt, pageVars, documentVars>>

Acquisition ==
    \/ PickerCloses \/ AcquisitionFails \/ AcquisitionThrows \/ AcquisitionDeclined
    \/ Compares \/ LooksAgain \/ MakesFile \/ OwnsPlaceholder \/ Locks

(* Another program writes the file, once; what it writes is not empty.      *)
OtherProgram ==
    /\ disk.kind # "foreign"
    /\ disk' = Disk("foreign", 0, 0)
    /\ file' = IF file.removing THEN [file EXCEPT !.late = TRUE] ELSE file
    /\ UNCHANGED <<prompt, pageVars, op, workVars, documentVars>>

---------------------------------------------------------------------------
(* The two workers.                                                         *)

(* documentSendForExportHandler: resolving the handle is the staleness      *)
(* check; the snapshot goes to the export worker.                           *)
SendsSnapshot ==
    /\ request = "asked" /\ resident = op.of
    /\ request' = "sent"
    /\ exporter' = [exporter EXCEPT !.state = "writing"]
    /\ UNCHANGED <<posts, op, pageVars, fileVars, documentVars>>

(* The handler rejects, and its error arrives.                              *)
RefusesSnapshot ==
    /\ request = "asked"
    /\ Failed(IF resident # op.of THEN "stale" ELSE "failed")
    /\ UNCHANGED <<pageVars, fileVars, documentVars>>

(* The handler's reply arrives: nothing waits for it.                       *)
SnapshotAnswered ==
    /\ request = "sent" /\ request' = "none"
    /\ UNCHANGED <<exporter, posts, op, pageVars, fileVars, documentVars>>

Posts(kind, state, count) ==
    /\ exporter.state = "writing"
    /\ exporter' = [state |-> state, posted |-> exporter.posted + count]
    /\ posts' = Append(posts, kind)
    /\ UNCHANGED <<request, op, pageVars, fileVars, documentVars>>

(* The export worker: one chunk at a time, each acknowledged before the     *)
(* next; then the file is ready. Without a file, the bytes in one message.  *)
PostsChunk == Busy /\ op.backed /\ exporter.posted < Chunks /\ Posts("chunk", "blocked", 1)

PostsReady == Busy /\ op.backed /\ exporter.posted = Chunks /\ Posts("file-ready", "done", 0)

PostsBytes == Busy /\ ~op.backed /\ Posts("written", "done", 0)

PostsFailure == Posts("failed", "done", 0)

(* An error event: the script does not load, or the worker runs out of      *)
(* memory. It has nothing left to run once it is done.                      *)
ExporterCrashes ==
    /\ exporter.state \in {"waiting", "writing", "blocked"}
    /\ Failed("failed")
    /\ UNCHANGED <<pageVars, fileVars, documentVars>>

---------------------------------------------------------------------------
(* The page's message handler.                                              *)

Hears(kind) == posts # <<>> /\ Head(posts) = kind

(* A mutant: the chunk is acknowledged before it is written.                *)
AcknowledgesAtOnce ==
    /\ Hears("chunk")
    /\ posts' = Tail(posts) /\ exporter' = [exporter EXCEPT !.state = "writing"]
    /\ file' = [file EXCEPT !.io = "writing"]
    /\ UNCHANGED <<op, request, pageVars, prompt, disk, documentVars>>

HearsChunk ==
    /\ Hears("chunk")
    /\ IF file.phase # "ready" \/ op.writing \/ op.committing
       THEN Settle("failed") /\ UNCHANGED file
       ELSE IF ~Current THEN Settle("stale") /\ UNCHANGED file
       ELSE /\ op' = [op EXCEPT !.writing = TRUE]
            /\ file' = [file EXCEPT !.io = "writing"]
            /\ posts' = Tail(posts) /\ UNCHANGED <<request, exporter>>
    /\ UNCHANGED <<pageVars, prompt, disk, documentVars>>

(* The write ends, also after its operation is over.                        *)
WriteEnds ==
    /\ Busy /\ file.io = "writing"
    /\ file' = [file EXCEPT !.io = "none", !.chunks = @ + 1]
    /\ IF Current
       THEN /\ op' = [op EXCEPT !.writing = FALSE]
            /\ exporter' = [exporter EXCEPT !.state = "writing"]
            /\ UNCHANGED <<request, posts>>
       ELSE Failed("stale")
    /\ UNCHANGED <<pageVars, prompt, disk, documentVars>>

WriteFails ==
    /\ Busy /\ file.io = "writing"
    /\ file' = [file EXCEPT !.io = "none"]
    /\ Failed("failed")
    /\ UNCHANGED <<pageVars, prompt, disk, documentVars>>

(* The file is committed from here on: close is under way.                  *)
HearsReady ==
    /\ Hears("file-ready")
    /\ IF ~Current THEN Settle("stale") /\ UNCHANGED file
       ELSE IF file.phase # "ready" \/ op.writing \/ op.committing
       THEN Settle("failed") /\ UNCHANGED file
       ELSE /\ op' = [op EXCEPT !.committing = TRUE]
            /\ file' = [file EXCEPT !.io = "closing"]
            /\ posts' = Tail(posts) /\ UNCHANGED <<request, exporter>>
    /\ UNCHANGED <<pageVars, prompt, disk, documentVars>>

(* The native writable publishes what was written, in one step.             *)
CloseEnds ==
    /\ Busy /\ file.io = "closing"
    /\ disk' = Disk("saved", op.id, file.chunks)
    /\ IF Active THEN Succeed
       ELSE /\ file' = [file EXCEPT !.io = "none", !.created = FALSE]
            /\ UNCHANGED <<op, shown, conversion, token, begun, workVars>>
    /\ UNCHANGED <<downloads, prompt, documentVars>>

CloseFails ==
    /\ Busy /\ file.io = "closing"
    /\ file' = [file EXCEPT !.io = "none"]
    /\ Failed("failed")
    /\ UNCHANGED <<pageVars, prompt, disk, documentVars>>

(* The bytes of a small document; the hook downloads them.                  *)
HearsBytes ==
    /\ Hears("written")
    /\ IF ~Current THEN /\ Settle("stale")
                        /\ UNCHANGED <<pageVars, file>>
       ELSE Succeed /\ downloads' = downloads \cup {op.id}
    /\ UNCHANGED <<prompt, disk, documentVars>>

HearsFailure ==
    /\ Hears("failed")
    /\ Settle("failed")
    /\ UNCHANGED <<pageVars, fileVars, documentVars>>

HearsExporter == HearsChunk \/ HearsReady \/ HearsBytes \/ HearsFailure

FileSystem == WriteEnds \/ WriteFails \/ CloseEnds \/ CloseFails

---------------------------------------------------------------------------
(* What happens to the document.                                            *)

(* Another tool's commit: a fill begins one whatever the conversion does,   *)
(* and a repair's may have begun before it.                                 *)
ChangeBegins ==
    /\ shown # 0 /\ change = "none" /\ resident < MaxRevisions
    /\ change' = "asked"
    /\ UNCHANGED <<resident, pageVars, op, fileVars, workVars>>

ChangeMade ==
    /\ change = "asked" /\ change' = "made" /\ resident' = resident + 1
    /\ UNCHANGED <<pageVars, op, fileVars, workVars>>

(* A mutant: the hook does not notice a new revision.                       *)
ChangeShownOnly ==
    /\ change = "made" /\ change' = "none" /\ shown' = resident
    /\ UNCHANGED <<op, file, prompt, workVars, conversion, token, begun, downloads, disk, resident>>

(* The store shows the new revision, and the hook's effect stops the export.*)
ChangeShown ==
    /\ change = "made" /\ change' = "none" /\ shown' = resident
    /\ StopExport
    /\ UNCHANGED <<conversion, token, begun, downloads, disk, resident>>

(* commitImport: another document, and no conversion.                       *)
DocumentReplaced ==
    /\ shown # 0 /\ resident < MaxRevisions
    /\ resident' = resident + 1 /\ shown' = resident + 1
    /\ conversion' = [state |-> "closed", of |-> 0] /\ token' = 0
    /\ change' = "none"
    /\ StopExport
    /\ UNCHANGED <<begun, downloads, disk>>

(* loseGeometrySession: the pending request is rejected, also while the     *)
(* file is being committed, the model goes, and the conversion with it.     *)
GeometryLost ==
    /\ shown # 0
    /\ shown' = 0 /\ resident' = 0 /\ change' = "none"
    /\ conversion' = [state |-> "closed", of |-> 0] /\ token' = 0
    /\ IF request # "none"
       THEN Failed("failed") /\ UNCHANGED <<file, prompt>>
       ELSE StopExport
    /\ UNCHANGED <<begun, downloads, disk>>

---------------------------------------------------------------------------
Exporter == PostsChunk \/ PostsReady \/ PostsBytes \/ PostsFailure

GeometryAnswers == SendsSnapshot \/ RefusesSnapshot

ExportNext ==
    \/ OpenConversion \/ Convert \/ Cancel \/ AnswersPrompt
    \/ Acquisition \/ OtherProgram
    \/ GeometryAnswers \/ SnapshotAnswered \/ Exporter \/ ExporterCrashes
    \/ HearsExporter \/ FileSystem \/ CleansUp
    \/ ChangeBegins \/ ChangeMade \/ ChangeShown \/ DocumentReplaced \/ GeometryLost

(* The two workers and the file system go on, messages are delivered, and   *)
(* the browser's folder picker is closed at some time; the user need        *)
(* neither answer the prompt nor cancel.                                    *)
ExportFairness ==
    /\ WF_exportVars(Acquisition) /\ WF_exportVars(GeometryAnswers)
    /\ WF_exportVars(Exporter) /\ WF_exportVars(HearsExporter)
    /\ WF_exportVars(FileSystem) /\ WF_exportVars(CleansUp)

ExportSpec == ExportInit /\ [][ExportNext]_exportVars /\ ExportFairness

---------------------------------------------------------------------------
(* Properties.                                                              *)

Whole(d) == d.kind = "saved" => d.chunks = Chunks

(* What the panel says of an export is what became of it: a failed or       *)
(* cancelled one has published no bytes under the name and handed nothing   *)
(* over (at most its own empty placeholder is there), a saved one was       *)
(* published whole or downloaded, and one said to be working is.            *)
PublishedIsTold ==
    /\ Whole(disk)
    /\ conversion.state = "working" => Busy /\ op.id = conversion.of
    /\ conversion.state = "failed" =>
        /\ ~(disk.kind = "saved" /\ disk.by = conversion.of)
        /\ conversion.of \notin downloads
    /\ conversion.state = "saved" =>
        \/ conversion.of \in downloads
        \/ disk.kind = "foreign" \/ disk = Disk("saved", conversion.of, Chunks)

(* Whatever fails or is cancelled and whenever, an export that ends leaves  *)
(* its empty placeholder behind only if the file system refused to tell it  *)
(* what file it had made, or to let it look at or remove the placeholder.   *)
LeavesNoPlaceholder ==
    [][Busy /\ op' # op /\ op' = NoOperation /\ disk' = Placeholder(op.id)
       => file.refused]_exportVars

(* A file that other programs or an earlier export put under the name is    *)
(* replaced by a whole one or not touched, also by the clean-ups; it can    *)
(* only be lost when it was written between a clean-up's look and removal.  *)
TouchesOnlyItsOwn ==
    [][disk.kind \in {"other", "foreign", "saved"} /\ disk' # disk =>
         \/ disk'.kind \in {"foreign", "saved"}
         \/ disk.kind = "foreign" /\ file.late /\ disk' = NoFile]_exportVars

(* No file is published and no download handed over of a revision that is   *)
(* not the one on the screen, whatever commits race the export.             *)
PublishesWhatIsShown ==
    [][((file.io # "closing" /\ file'.io = "closing") \/ downloads' # downloads)
        => op.of = shown]_exportVars

(* Every export ends, or waits for the user to answer the question that is  *)
(* on the screen.                                                           *)
EveryExportEnds == []<>(~Busy \/ prompt)
=============================================================================
