---------------------------- MODULE ServiceProofs ----------------------------
(* Theorems about the Boolean operations, for any requests, documents and   *)
(* number of calls; about the exports of a document, for any number of      *)
(* exports, revisions and chunks; and about the eviction of undo records,   *)
(* for any number of documents and any cap: the order and the records       *)
(* agree, no document's undo is evicted, a commit restores the cap, and the *)
(* closed form of the trimming is what the loop of the code computes.       *)
EXTENDS BooleanOperations, DocumentExport, HistoryEviction, PlaceLemmas

---------------------------------------------------------------------------
(* Boolean operations.                                                      *)

Waiting == {r \in Requests : state[r] = "waiting"}

(* Handlers and calls: a request that has not begun has made no call, and   *)
(* the active call, alone, is the last one of the handler that waits.       *)
CallsInv ==
    /\ state \in [Requests -> {"new", "waiting", "failed", "through"}]
    /\ calls \in [Requests -> 0 .. MaxCalls]
    /\ \A r \in Requests : state[r] = "new" => calls[r] = 0
    /\ active = {Call(r, calls[r]) : r \in Waiting}
    /\ nested = active
    /\ \A c, d \in active : c = d

LEMMA OwnersWait ==
    ASSUME CallsInv
    PROVE  /\ Owners(active) = Waiting
           /\ \A q, r \in Waiting : q = r
  <1>1. \A r : Call(r, calls[r]).request = r
    BY DEF Call
  <1>2. Owners(active) = Waiting
    BY <1>1 DEF CallsInv, Owners
  <1>3. ASSUME NEW q \in Waiting, NEW r \in Waiting PROVE q = r
    <2>1. Call(q, calls[q]) \in active /\ Call(r, calls[r]) \in active
      BY DEF CallsInv
    <2>2. Call(q, calls[q]) = Call(r, calls[r])
      BY <2>1 DEF CallsInv
    <2> QED BY <1>1, <2>2
  <1> QED BY <1>2, <1>3

LEMMA CancelKeepsCalls ==
    ASSUME CallsInv, CancelActive, UNCHANGED calls
    PROVE  CallsInv'
  <1>1. state' = [r \in Requests |-> IF r \in Waiting THEN "failed" ELSE state[r]]
    BY OwnersWait DEF CancelActive, Fail
  <1>2. Waiting' = {} /\ active' = {} /\ nested' = {}
    BY <1>1 DEF Waiting, CancelActive, CallsInv
  <1>3. /\ state' \in [Requests -> {"new", "waiting", "failed", "through"}]
        /\ \A r \in Requests : state'[r] = "new" => state[r] = "new"
    BY <1>1 DEF CallsInv
  <1> QED BY <1>2, <1>3 DEF CallsInv

(* The request that runs its next call is the only one that waits.          *)
LEMMA RunKeepsCalls ==
    ASSUME CallsInv, NEW r \in Requests, NEW others, Run(r, others), calls[r] < MaxCalls,
           \A q \in Waiting : q = r \/ q \in Owners(others)
    PROVE  CallsInv'
  <1>1. /\ calls' = [calls EXCEPT ![r] = @ + 1]
        /\ state' = [[q \in Requests |-> IF q \in Owners(others) THEN "failed" ELSE state[q]]
                        EXCEPT ![r] = "waiting"]
        /\ active' = {Call(r, calls[r] + 1)} /\ nested' = {Call(r, calls[r] + 1)}
    BY DEF Run, Fail, CallsInv
  <1>2. /\ calls' \in [Requests -> 0 .. MaxCalls] /\ calls'[r] = calls[r] + 1
        /\ state' \in [Requests -> {"new", "waiting", "failed", "through"}]
        /\ \A q \in Requests : state'[q] = "new" => q # r /\ state[q] = "new"
    BY <1>1, BooleanAssumption DEF CallsInv
  <1>3. Waiting' = {r}
    BY <1>1 DEF Waiting
  <1>4. active' = {Call(q, calls'[q]) : q \in Waiting'}
    BY <1>1, <1>2, <1>3
  <1>5. \A q \in Requests : q # r => calls'[q] = calls[q]
    BY <1>1 DEF CallsInv
  <1> QED BY <1>1, <1>2, <1>4, <1>5 DEF CallsInv

LEMMA EndKeepsCalls ==
    ASSUME CallsInv, NEW r \in Waiting, NEW how \in {"through", "failed"},
           state' = [state EXCEPT ![r] = how],
           active' = {}, nested' = {}, UNCHANGED calls
    PROVE  CallsInv'
  <1>1. Waiting' = {}
    BY OwnersWait DEF Waiting, CallsInv
  <1>2. /\ state' \in [Requests -> {"new", "waiting", "failed", "through"}]
        /\ \A q \in Requests : state'[q] = "new" => state[q] = "new"
    BY DEF CallsInv, Waiting
  <1> QED BY <1>1, <1>2 DEF CallsInv

LEMMA BeginKeepsCalls ==
    ASSUME CallsInv, NEW r \in Requests, Begins(r)
    PROVE  CallsInv'
  <1>1. CASE Run(r, active)
    <2>1. calls[r] < MaxCalls
      BY BooleanAssumption DEF Begins, CallsInv
    <2>2. \A q \in Waiting : q \in Owners(active)
      BY OwnersWait
    <2> QED BY <1>1, <2>1, <2>2, RunKeepsCalls
  <1>2. CASE state' = Fail({r}, {}) /\ UNCHANGED <<calls, nested, active>>
    <2>1. state' = [q \in Requests |-> IF q = r THEN "failed" ELSE state[q]]
      BY <1>2 DEF Fail
    <2>2. Waiting' = Waiting
      BY <2>1 DEF Waiting, Begins
    <2>3. /\ state' \in [Requests -> {"new", "waiting", "failed", "through"}]
          /\ \A q \in Requests : state'[q] = "new" => state[q] = "new"
      BY <2>1 DEF CallsInv
    <2> QED BY <1>2, <2>2, <2>3 DEF CallsInv
  <1> QED BY <1>1, <1>2 DEF Begins

LEMMA ReplyKeepsCalls ==
    ASSUME CallsInv, NEW m, HearsReply(m)
    PROVE  CallsInv'
  <1> DEFINE r == m.call.request
  <1>1. CASE m.call \notin active
    <2>1. UNCHANGED <<state, calls, active, nested>>
      BY <1>1 DEF HearsReply
    <2> QED BY <2>1 DEF CallsInv, Waiting
  <1>2. CASE m.call \in active
    <2>1. active = {m.call} /\ nested = {m.call} /\ r \in Waiting
      BY <1>2, OwnersWait DEF CallsInv, Owners
    <2>2. CASE calls[r] < MaxCalls /\ Run(r, active \ {m.call})
      <3>1. r \in Requests /\ \A q \in Waiting : q = r
        BY <2>1, OwnersWait DEF Waiting
      <3> QED BY <2>2, <3>1, RunKeepsCalls
    <2>3. CASE /\ state' = [state EXCEPT ![r] =
                            IF m.kind = "result" /\ ~IsStopped(r) THEN "through" ELSE "failed"]
               /\ active' = active \ {m.call} /\ nested' = nested \ {m.call}
               /\ UNCHANGED calls
      <3>1. active' = {} /\ nested' = {}
        BY <2>1, <2>3
      <3> HIDE DEF r
      <3> QED BY <2>1, <2>3, <3>1, EndKeepsCalls
    <2> QED BY <1>2, <2>2, <2>3 DEF HearsReply
  <1> QED BY <1>1, <1>2

LEMMA CallsKept == CallsInv /\ [BooleanNext]_booleanVars => CallsInv'
  <1> SUFFICES ASSUME CallsInv, [BooleanNext]_booleanVars PROVE CallsInv'
    OBVIOUS
  <1>1. ASSUME UNCHANGED <<state, calls, active, nested>> PROVE CallsInv'
    BY <1>1 DEF CallsInv, Waiting
  <1>2. CASE UNCHANGED booleanVars
    BY <1>1, <1>2 DEF booleanVars
  <1>3. ASSUME NEW r \in Requests, Begins(r) \/ PageCancels(r) \/ CancelArrives(r)
        PROVE  CallsInv'
    BY <1>1, <1>3, BeginKeepsCalls, CancelKeepsCalls DEF PageCancels, CancelArrives
  <1>4. ASSUME NEW call \in nested, Answers(call) PROVE CallsInv'
    BY <1>1, <1>4 DEF Answers
  <1>5. ASSUME NEW d \in Documents, Releases(d) PROVE CallsInv'
    BY <1>5, CancelKeepsCalls DEF Releases
  <1> QED BY <1>2, <1>3, <1>4, <1>5, ReplyKeepsCalls DEF BooleanNext

(* For any requests, documents and number of calls, whatever is superseded, *)
(* cancelled, released or answered late: a handler waits exactly while its  *)
(* last call is the active one, and no other nested worker runs.            *)
THEOREM WaitingHandlersAreServed == BooleanSpec => []WaitsForTheActive
  <1>1. BooleanInit => CallsInv
    <2> SUFFICES ASSUME BooleanInit PROVE CallsInv
      OBVIOUS
    <2>1. Waiting = {}
      BY DEF BooleanInit, Waiting
    <2> QED BY <2>1, BooleanAssumption DEF BooleanInit, CallsInv
  <1>2. ASSUME CallsInv PROVE WaitsForTheActive
    <2>1. Cardinality(active) <= 1
      <3>1. CASE active = {}
        BY <3>1, FS_EmptySet
      <3>2. ASSUME NEW c \in active PROVE Cardinality(active) = 1
        <4>1. active = {c}
          BY <1>2, <3>2 DEF CallsInv
        <4> QED BY <4>1, FS_Singleton
      <3> QED BY <3>1, <3>2
    <2> QED BY <1>2, <2>1 DEF WaitsForTheActive, CallsInv, Waiting
  <1> QED BY <1>1, <1>2, CallsKept, PTL DEF BooleanSpec
---------------------------------------------------------------------------
(* Exports.                                                                 *)

Operations ==
    [id : 1 .. begun, of : Nat, backed : BOOLEAN,
     outcome : {"none", "failed", "cancelled", "stale"},
     writing : BOOLEAN, committing : BOOLEAN, aborted : BOOLEAN]

Entries ==
    [kind : {"absent", "other", "foreign", "placeholder", "saved", "unread"},
     by : 0 .. begun, chunks : Nat]

Sinks ==
    [phase : {"none", "picking", "comparing", "asking", "declined", "creating", "making",
              "probing", "locking", "ready", "rejecting", "retrying", "gone"},
     target : Entries, created : BOOLEAN, chunks : Nat, io : {"none", "writing", "closing"},
     removing : BOOLEAN, refused : BOOLEAN, late : BOOLEAN]

Exporters == [state : {"off", "waiting", "writing", "blocked", "done"}, posted : Nat]

Conversions ==
    [state : {"closed", "reviewing", "working", "saved", "failed"}, of : 0 .. begun]

ShapesInv ==
    /\ begun \in Nat /\ shown \in Nat /\ resident \in Nat
    /\ op \in Operations \cup {NoOperation}
    /\ file \in Sinks /\ exporter \in Exporters /\ conversion \in Conversions
    /\ disk \in Entries /\ disk.kind # "unread"

(* A destination takes nothing before it is locked; a placeholder is its    *)
(* own only between the look at what was made and the end of the abort, and *)
(* its removal only begins when nothing is in flight.                       *)
IsSink(f) ==
    /\ f.phase = "none" => f = NoSink
    /\ f.phase # "ready" => f.io = "none"
    /\ f.phase \notin {"ready", "gone"} => f.chunks = 0
    /\ f.created => f.phase \in {"locking", "ready", "rejecting", "retrying"}
    /\ f.removing => f.created /\ f.phase # "locking" /\ f.io = "none"
    /\ f.refused => f.phase \in {"rejecting", "gone"}
    /\ f.io = "closing" => f.chunks = Chunks

(* The destination is that of the operation, which commits it while the     *)
(* file is being closed.                                                    *)
SinkInv ==
    /\ IsSink(file)
    /\ file.phase # "none" <=> Busy /\ op.backed
    /\ file.io = "closing" => op.committing
    /\ Active /\ op.committing => file.io = "closing"
    /\ Busy /\ op.writing => Active /\ file.io = "writing"
    /\ Active /\ file.phase = "ready" => ~file.removing

(* The export worker runs exactly while its operation has somewhere to      *)
(* write, and what it has posted is what was written and what is under way. *)
WorkInv ==
    /\ exporter.state = "off" => posts = <<>> /\ request = "none"
    /\ request = "asked" => exporter.state = "waiting"
    /\ exporter.state # "off" <=> Active /\ file.phase \in {"none", "ready"}
    /\ exporter.state \in {"waiting", "writing"} =>
         /\ posts = <<>> /\ exporter.posted = file.chunks
         /\ ~op.writing /\ ~op.committing /\ file.io = "none"
    /\ exporter.state = "blocked" =>
         /\ op.backed /\ ~op.committing /\ exporter.posted = file.chunks + 1
         /\ \/ posts = <<"chunk">> /\ ~op.writing /\ file.io = "none"
            \/ posts = <<>> /\ op.writing /\ file.io = "writing"
    /\ exporter.state = "done" =>
         \/ posts = <<"failed">> /\ ~op.committing /\ file.io = "none"
         \/ posts = <<"written">> /\ ~op.backed /\ ~op.committing /\ file.io = "none"
         \/ /\ posts = <<"file-ready">> /\ ~op.committing /\ file.io = "none"
            /\ file.chunks = Chunks
         \/ posts = <<>> /\ op.committing /\ file.io = "closing"

(* The token is the active operation's or nobody's; it is given up before   *)
(* a commit is abandoned, and a change of the document settles the export   *)
(* unless its file is being committed.                                      *)
TokenInv ==
    /\ token # 0 => Busy /\ token = op.id
    /\ conversion.state = "working" <=> token # 0
    /\ conversion.state = "working" => conversion.of = token
    /\ conversion.state \in {"saved", "failed"} => ~Busy /\ conversion.of # 0
    /\ Current /\ ~op.committing => op.of = shown
    /\ file.io = "closing" /\ ~Active => token = 0

(* The operation's placeholder is known to be its own from the look at what *)
(* was made, unless the file system refused it; and what a clean-up removes *)
(* is that placeholder, or what was written over it since.                  *)
Owned(f, d) ==
    /\ Busy /\ d = Placeholder(op.id) => f.created \/ f.phase = "probing" \/ f.refused
    /\ f.removing => d = Placeholder(op.id) \/ (d.kind = "foreign" /\ f.late)

(* Who put what under the file's name, and what was handed over.            *)
DiskInv ==
    /\ disk.kind \notin {"placeholder", "saved"} => disk.by = 0
    /\ Owned(file, disk)
    /\ disk.kind = "saved" /\ Busy /\ disk.by = op.id => token = 0 /\ ~Active
    /\ downloads \subseteq 1 .. begun
    /\ Busy => op.id \notin downloads

ExportInv ==
    ShapesInv /\ SinkInv /\ WorkInv /\ TokenInv /\ DiskInv /\ PublishedIsTold

---------------------------------------------------------------------------
(* What the helpers of several actions do.                                  *)

Outcomes == {"failed", "cancelled", "stale"}

(* The operation goes on or ends as the same one.                           *)
SameOperation ==
    /\ op' \in Operations \cup {NoOperation} /\ Busy' = Busy
    /\ op'.id = op.id /\ op'.of = op.of /\ op'.backed = op.backed
    /\ op'.committing = op.committing

(* It is settled, and nothing works for it.                                 *)
Off ==
    /\ exporter' \in Exporters /\ exporter'.state = "off"
    /\ posts' = <<>> /\ request' = "none"
    /\ ~Active' /\ (Busy' => ~op'.writing)

LEMMA NothingRuns == NoExporter \in Exporters /\ NoExporter.state = "off"
  BY DEF NoExporter, Exporters

LEMMA BusyOperations ==
    ASSUME ShapesInv
    PROVE  /\ Busy => op \in Operations
           /\ Busy <=> op.id # 0
           /\ Active <=> op.id # 0 /\ op.outcome = "none"
  BY DEF ShapesInv, Operations, Busy, Active, NoOperation

LEMMA SettleEffect ==
    ASSUME ShapesInv, Busy, NEW o \in Outcomes, Settle(o)
    PROVE  SameOperation /\ Off
  <1>1. op \in Operations /\ op.id # 0
    BY BusyOperations
  <1>2. op' \in Operations
    BY <1>1 DEF Settle, Operations, Outcomes
  <1>3. /\ op'.id = op.id /\ op'.of = op.of /\ op'.backed = op.backed
        /\ op'.committing = op.committing /\ op'.outcome = o /\ ~op'.writing
    BY <1>1 DEF Settle, Operations
  <1>4. Busy' /\ ~Active'
    BY <1>1, <1>3 DEF Busy, Active, NoOperation, Outcomes
  <1> QED BY <1>2, <1>3, <1>4, NothingRuns DEF SameOperation, Off, Settle

LEMMA FailedEffect ==
    ASSUME ShapesInv, NEW o \in Outcomes, Failed(o)
    PROVE  /\ SameOperation
           /\ \/ Active /\ Off
              \/ ~Active /\ UNCHANGED <<op, workVars>>
  <1>1. CASE Active
    BY <1>1, SettleEffect DEF Failed, Active
  <1>2. CASE ~Active
    BY <1>2 DEF Failed, ShapesInv, SameOperation, Busy
  <1> QED BY <1>1, <1>2

LEMMA StopEffect ==
    ASSUME ShapesInv, StopExport
    PROVE  /\ SameOperation
           /\ \/ Active /\ ~op.committing /\ Off
              \/ /\ ~Active \/ op.committing
                 /\ UNCHANGED workVars
                 /\ op'.outcome = op.outcome /\ op'.writing = op.writing
           /\ \/ UNCHANGED file
              \/ file.phase = "asking" /\ file' = [file EXCEPT !.phase = "declined"]
  <1>1. CASE ~Busy
    BY <1>1 DEF StopExport, Active, SameOperation, ShapesInv, Busy
  <1>2. CASE Active /\ ~op.committing
    <2>1. op \in Operations /\ op.id # 0
      BY <1>2, BusyOperations DEF Active
    <2>2. /\ op' = [op EXCEPT !.outcome = "cancelled", !.writing = FALSE, !.aborted = TRUE]
          /\ exporter' = NoExporter /\ posts' = <<>> /\ request' = "none"
          /\ file' = IF file.phase = "asking" THEN [file EXCEPT !.phase = "declined"] ELSE file
      BY <1>2 DEF StopExport, Active
    <2>3. op' \in Operations /\ op'.outcome = "cancelled"
      BY <2>1, <2>2 DEF Operations
    <2>4. /\ op'.id = op.id /\ op'.of = op.of /\ op'.backed = op.backed
          /\ op'.committing = op.committing /\ ~op'.writing
      BY <2>1, <2>2 DEF Operations
    <2>5. SameOperation /\ Off
      BY <1>2, <2>1, <2>2, <2>3, <2>4, NothingRuns
         DEF SameOperation, Off, Busy, Active, NoOperation
    <2> QED BY <1>2, <2>2, <2>5
  <1>3. CASE Busy /\ ~(Active /\ ~op.committing)
    <2>1. op \in Operations /\ op.id # 0
      BY <1>3, BusyOperations
    <2>2. /\ op' = [op EXCEPT !.aborted = TRUE] /\ UNCHANGED workVars
          /\ file' = IF file.phase = "asking" THEN [file EXCEPT !.phase = "declined"] ELSE file
      BY <1>3 DEF StopExport
    <2>3. op' \in Operations
      BY <2>1, <2>2 DEF Operations
    <2>4. /\ op'.id = op.id /\ op'.of = op.of /\ op'.backed = op.backed
          /\ op'.committing = op.committing
          /\ op'.outcome = op.outcome /\ op'.writing = op.writing
      BY <2>1, <2>2 DEF Operations
    <2>5. SameOperation
      BY <1>3, <2>1, <2>3, <2>4 DEF SameOperation, Busy, NoOperation
    <2> QED BY <1>3, <2>2, <2>4, <2>5
  <1> QED BY <1>1, <1>2, <1>3

(* What the end of a promise tells the store.                               *)
LEMMA ResolveEffect ==
    ASSUME ShapesInv, TokenInv, Busy, NEW o, Resolve(o)
    PROVE  /\ ~Busy' /\ ~Active' /\ op' = NoOperation /\ file' = NoSink
           /\ UNCHANGED <<shown, begun>> /\ token' = 0
           /\ \/ token = 0 /\ UNCHANGED conversion
              \/ token = op.id /\ conversion' =
                    [state |-> IF o = "success" THEN "saved" ELSE "failed", of |-> op.id]
  BY DEF Resolve, TokenInv, Busy, Active

(* What a step leaves of the placeholder and of its clean-up.               *)
SamePlaceholder ==
    /\ file'.created = file.created /\ file'.refused = file.refused
    /\ file'.removing = file.removing /\ file'.late = file.late
    /\ file'.phase = "probing" <=> file.phase = "probing"

LEMMA OwnedStays ==
    ASSUME ExportInv, SamePlaceholder
    PROVE  Owned(file', disk)
  BY DEF ExportInv, DiskInv, Owned, SamePlaceholder

---------------------------------------------------------------------------
(* What the parts of the invariant depend on.                               *)

LEMMA ShapesStay ==
    ASSUME ShapesInv, begun' = begun, shown' \in Nat, resident' \in Nat,
           op' \in Operations \cup {NoOperation}, file' \in Sinks,
           exporter' \in Exporters, conversion' \in Conversions,
           disk' \in Entries, disk'.kind # "unread"
    PROVE  ShapesInv'
  BY DEF ShapesInv, Operations, Entries, Sinks, Exporters, Conversions

LEMMA SinkStays ==
    ASSUME SinkInv, SameOperation, UNCHANGED file, Active' <=> Active,
           op'.writing = op.writing
    PROVE  SinkInv'
  BY DEF SinkInv, IsSink, SameOperation

(* A settled operation leaves nothing to its workers.                       *)
LEMMA OffWorks ==
    ASSUME Off
    PROVE  WorkInv'
  BY DEF Off, WorkInv

LEMMA WorkStays ==
    ASSUME WorkInv, SameOperation, Active' <=> Active, op'.writing = op.writing,
           UNCHANGED workVars, file'.io = file.io, file'.chunks = file.chunks,
           file'.phase \in {"none", "ready"} <=> file.phase \in {"none", "ready"}
    PROVE  WorkInv'
  BY DEF WorkInv, SameOperation, workVars

LEMMA TokenStays ==
    ASSUME TokenInv, SameOperation, Active' => Active,
           UNCHANGED <<token, conversion, shown>>,
           file'.io = "closing" => file.io = "closing" /\ (Active' \/ ~Active)
    PROVE  TokenInv'
  BY DEF TokenInv, SameOperation, Current

LEMMA DiskStays ==
    ASSUME DiskInv, PublishedIsTold, SameOperation, Active' => Active,
           UNCHANGED <<token, conversion, begun, downloads, disk>>, SamePlaceholder
    PROVE  DiskInv' /\ PublishedIsTold'
  <1>1. Owned(file, disk)'
    BY DEF DiskInv, Owned, SameOperation, SamePlaceholder
  <1>2. DiskInv'
    BY <1>1 DEF DiskInv, SameOperation
  <1>3. PublishedIsTold'
    BY DEF PublishedIsTold, SameOperation, Whole
  <1> QED BY <1>2, <1>3

---------------------------------------------------------------------------
(* The end of an operation.                                                 *)

(* An operation is settled, or its clean-up goes on: its file is no longer  *)
(* being closed, or nobody holds the token any more.                        *)
LEMMA SettledKeeps ==
    ASSUME ExportInv, SameOperation, Off,
           UNCHANGED <<begun, shown, conversion, token, downloads, resident>>,
           file' \in Sinks, IsSink(file'), Owned(file', disk'),
           file'.phase = "none" <=> file.phase = "none",
           file'.io # "closing",
           disk' = disk \/ (Busy /\ disk' = NoFile)
    PROVE  ExportInv'
  <1>1. disk' \in Entries /\ disk'.kind # "unread"
    BY DEF ExportInv, ShapesInv, NoFile, Disk, Entries
  <1>2. ShapesInv'
    BY <1>1, ShapesStay DEF ExportInv, ShapesInv, SameOperation, Off
  <1>3. SinkInv'
    BY DEF ExportInv, SinkInv, SameOperation, Off, IsSink
  <1>4. TokenInv'
    BY TokenStays DEF ExportInv, Off
  <1>5. Owned(file, disk)'
    BY DEF Owned, SameOperation
  <1>6. DiskInv'
    BY <1>5 DEF ExportInv, DiskInv, SameOperation, Off, NoFile, Disk
  <1>7. PublishedIsTold'
    BY DEF ExportInv, TokenInv, PublishedIsTold, SameOperation, Whole, NoFile, Disk
  <1> QED BY <1>2, <1>3, <1>4, <1>6, <1>7, OffWorks DEF ExportInv

(* A failure leaves a settled operation, also when it was one before.       *)
LEMMA FailureSettles ==
    ASSUME ExportInv, NEW o \in Outcomes, Failed(o)
    PROVE  SameOperation /\ Off
  <1>1. SameOperation
    BY FailedEffect DEF ExportInv
  <1>2. CASE ~Active /\ UNCHANGED <<op, workVars>>
    <2>1. ~Active' /\ (Busy' <=> Busy)
      BY <1>2 DEF Active, Busy
    <2>2. exporter.state = "off" /\ (Busy => ~op.writing) /\ exporter \in Exporters
      BY <1>2 DEF ExportInv, WorkInv, SinkInv, ShapesInv
    <2> QED BY <1>1, <1>2, <2>1, <2>2 DEF Off, ExportInv, WorkInv, workVars
  <1> QED BY <1>1, <1>2, FailedEffect DEF ExportInv

(* A failure while the file is not being closed.                            *)
LEMMA FailureKeeps ==
    ASSUME ExportInv, NEW o \in Outcomes, Failed(o), file.io # "closing",
           UNCHANGED <<begun, shown, conversion, token, downloads, disk, resident, file>>
    PROVE  ExportInv'
  <1>1. SamePlaceholder
    BY DEF SamePlaceholder
  <1> QED BY <1>1, OwnedStays, FailureSettles, SettledKeeps DEF ExportInv, ShapesInv, SinkInv

(* The promise resolves: the store, if it still listens, is told what came  *)
(* of the export.                                                           *)
LEMMA ResolvedKeeps ==
    ASSUME ExportInv, Busy, NEW o, Resolve(o), UNCHANGED resident,
           exporter' \in Exporters, exporter'.state = "off", posts' = <<>>, request' = "none",
           disk' \in Entries, disk'.kind # "unread", Whole(disk'),
           disk'.kind \notin {"placeholder", "saved"} => disk'.by = 0,
           downloads' \subseteq 1 .. begun,
           token # 0 /\ o # "success" =>
               ~(disk'.kind = "saved" /\ disk'.by = op.id) /\ op.id \notin downloads',
           token # 0 /\ o = "success" =>
               op.id \in downloads' \/ disk' = Disk("saved", op.id, Chunks)
    PROVE  ExportInv'
  <1>1. op \in Operations /\ op.id \in 1 .. begun
    BY BusyOperations DEF ExportInv, Operations
  <1>2. /\ ~Busy' /\ ~Active' /\ op' = NoOperation /\ file' = NoSink
        /\ UNCHANGED <<shown, begun>> /\ token' = 0
        /\ \/ token = 0 /\ UNCHANGED conversion
           \/ token = op.id /\ conversion' =
                 [state |-> IF o = "success" THEN "saved" ELSE "failed", of |-> op.id]
    BY ResolveEffect DEF ExportInv
  <1>3. conversion.state \notin {"saved", "failed"}
    BY DEF ExportInv, TokenInv
  <1>4. NoSink \in Sinks
    BY DEF ExportInv, ShapesInv, NoSink, NoTarget, Disk, Sinks, Entries
  <1>5. conversion' \in Conversions
    BY <1>1, <1>2 DEF ExportInv, ShapesInv, Conversions
  <1>6. ShapesInv'
    BY <1>2, <1>4, <1>5, ShapesStay DEF ExportInv, ShapesInv
  <1>7. SinkInv'
    BY <1>2 DEF SinkInv, IsSink, NoSink
  <1>8. WorkInv'
    BY <1>2, OffWorks DEF Off
  <1>9. TokenInv'
    BY <1>1, <1>2, <1>3 DEF ExportInv, TokenInv, Current, NoSink
  <1>10. DiskInv'
    BY <1>2 DEF DiskInv, Owned, NoSink
  <1>11. PublishedIsTold'
    BY <1>1, <1>2, <1>3 DEF ExportInv, TokenInv, PublishedIsTold
  <1> QED BY <1>6, <1>7, <1>8, <1>9, <1>10, <1>11 DEF ExportInv

---------------------------------------------------------------------------
(* The destination.                                                         *)

(* A step of the acquisition, or of its abort, after which the operation    *)
(* still waits for it: only its placeholder comes under the name, and only  *)
(* what a clean-up found is removed.                                        *)
LEMMA AcquisitionGoesOn ==
    ASSUME ExportInv, file.phase \notin {"none", "ready", "gone"},
           file' \in Sinks, IsSink(file'), file'.phase \notin {"none", "ready", "gone"},
           disk' \in {disk, NoFile, Placeholder(op.id)}, Owned(file', disk'),
           UNCHANGED <<pageVars, op, workVars, documentVars>>
    PROVE  ExportInv'
  <1>1. Busy /\ op \in Operations /\ op.id \in 1 .. begun /\ file.io = "none"
        /\ file.chunks = 0
    BY BusyOperations DEF ExportInv, SinkInv, IsSink, Operations
  <1>2. SameOperation /\ Active' = Active /\ Busy' /\ op' = op
    BY <1>1 DEF SameOperation, ExportInv, ShapesInv, Active, Busy
  <1>3. /\ disk' \in Entries /\ disk'.kind # "unread"
        /\ disk' = disk \/ disk'.kind \in {"absent", "placeholder"}
        /\ disk' = disk \/ disk'.kind = "placeholder" \/ disk'.by = 0
    BY <1>1 DEF ExportInv, ShapesInv, NoFile, Placeholder, Disk, Entries
  <1>4. ShapesInv'
    BY <1>3, ShapesStay DEF ExportInv, ShapesInv, pageVars, workVars, documentVars
  <1>5. file'.io = "none" /\ file'.chunks = 0
    BY DEF IsSink
  <1>6. SinkInv'
    BY <1>1, <1>2, <1>5 DEF ExportInv, SinkInv
  <1>7. WorkInv'
    BY <1>1, <1>2, <1>5, WorkStays DEF ExportInv
  <1>8. TokenInv'
    BY <1>2, <1>5, TokenStays DEF ExportInv, pageVars
  <1>9. Owned(file, disk)'
    BY <1>1, <1>2 DEF Owned
  <1>10. DiskInv'
    BY <1>1, <1>2, <1>3, <1>9 DEF ExportInv, DiskInv, pageVars
  <1>11. PublishedIsTold'
    BY <1>1, <1>2, <1>3 DEF ExportInv, TokenInv, PublishedIsTold, Whole, pageVars
  <1> QED BY <1>4, <1>6, <1>7, <1>8, <1>10, <1>11 DEF ExportInv

LEMMA RejectionKeeps ==
    ASSUME ExportInv, NEW o \in Outcomes, Rejects(o),
           file.phase \in {"picking", "comparing", "declined"}
    PROVE  ExportInv'
  <1>1. SameOperation /\ Off
    BY FailureSettles DEF Rejects
  <1>2. /\ file' \in Sinks /\ file'.phase = "gone" /\ IsSink(file')
        /\ file'.io = "none" /\ SamePlaceholder
    BY DEF Rejects, ExportInv, ShapesInv, SinkInv, IsSink, Sinks, SamePlaceholder
  <1> QED BY <1>1, <1>2, OwnedStays, SettledKeeps DEF Rejects, pageVars, documentVars

(* The destination is ready, and the export worker is started for it.       *)
LEMMA LockKeeps ==
    ASSUME ExportInv, file.phase = "locking", file' = [file EXCEPT !.phase = "ready"],
           UNCHANGED <<pageVars, documentVars, disk>>,
           \/ Current /\ Starts /\ UNCHANGED op
           \/ ~Current /\ Failed("stale")
    PROVE  ExportInv'
  <1>1. /\ Busy /\ op.id # 0 /\ op.backed /\ file.io = "none" /\ file.chunks = 0
        /\ exporter.state = "off" /\ posts = <<>> /\ request = "none"
        /\ ~(Active /\ op.committing) /\ ~op.writing
    BY BusyOperations DEF ExportInv, SinkInv, IsSink, WorkInv
  <1>2. /\ file' \in Sinks /\ IsSink(file') /\ file'.phase = "ready"
        /\ file'.io = "none" /\ file'.chunks = 0 /\ ~file'.removing
        /\ SamePlaceholder
    BY <1>1 DEF ExportInv, ShapesInv, SinkInv, IsSink, Sinks, SamePlaceholder
  <1>3. CASE ~Current /\ Failed("stale")
    <2>1. SameOperation /\ Off
      BY <1>3, FailureSettles DEF Outcomes
    <2> QED BY <1>2, <2>1, OwnedStays, SettledKeeps DEF pageVars, documentVars
  <1>4. CASE Current /\ Starts /\ UNCHANGED op
    <2>1. SameOperation /\ Active /\ Active' /\ Busy' /\ op' = op
      BY <1>1, <1>4 DEF SameOperation, ExportInv, ShapesInv, Active, Busy, Current
    <2>2. exporter' = [state |-> "waiting", posted |-> 0] /\ request' = "asked" /\ posts' = <<>>
      BY <1>1, <1>4 DEF Starts
    <2>3. exporter' \in Exporters
      BY <2>2 DEF Exporters
    <2>4. ShapesInv'
      BY <1>2, <2>1, <2>3, ShapesStay DEF ExportInv, ShapesInv, pageVars, documentVars
    <2>5. SinkInv'
      BY <1>1, <1>2, <2>1 DEF SinkInv
    <2>6. WorkInv'
      BY <1>1, <1>2, <2>1, <2>2 DEF WorkInv
    <2>7. TokenInv'
      BY <1>2, <2>1, TokenStays DEF ExportInv, pageVars
    <2>8. DiskInv' /\ PublishedIsTold'
      BY <1>2, <2>1, DiskStays DEF ExportInv, pageVars
    <2> QED BY <2>4, <2>5, <2>6, <2>7, <2>8 DEF ExportInv
  <1> QED BY <1>3, <1>4

LEMMA AgainIsASink ==
    ASSUME ShapesInv
    PROVE  /\ SelectsAgain \in Sinks /\ IsSink(SelectsAgain)
           /\ SelectsAgain.phase = "comparing"
           /\ \A d : d # Placeholder(op.id) => Owned(SelectsAgain, d)
  <1>1. NoTarget \in Entries
    BY DEF NoTarget, Disk, Entries, ShapesInv
  <1>2. SelectsAgain \in Sinks
    <2> HIDE DEF Entries
    <2> QED BY <1>1 DEF SelectsAgain, NoSink, Sinks
  <1>3. /\ SelectsAgain.phase = "comparing" /\ ~SelectsAgain.removing
        /\ ~SelectsAgain.created /\ ~SelectsAgain.refused
        /\ SelectsAgain.io = "none" /\ SelectsAgain.chunks = 0
    BY DEF SelectsAgain, NoSink
  <1> QED BY <1>2, <1>3 DEF IsSink, Owned

LEMMA AcquisitionKeeps ==
    ASSUME ExportInv, Acquisition \/ AnswersPrompt
    PROVE  ExportInv'
  <1>0. /\ ShapesInv /\ file \in Sinks /\ IsSink(file) /\ disk \in Entries
        /\ disk.kind # "unread" /\ Owned(file, disk)
    BY DEF ExportInv, ShapesInv, SinkInv, DiskInv
  <1>1. ASSUME NEW phase \in {"comparing", "asking", "declined", "creating", "locking"},
               file.phase \in {"picking", "comparing", "asking"}, NEW target \in Entries,
               file' = [file EXCEPT !.phase = phase, !.target = target],
               UNCHANGED disk, Acquires
        PROVE  ExportInv'
    <2>1. file' \in Sinks /\ IsSink(file') /\ file'.phase = phase /\ SamePlaceholder
      BY <1>0, <1>1 DEF Sinks, IsSink, SamePlaceholder
    <2> QED BY <1>1, <2>1, OwnedStays, AcquisitionGoesOn DEF Acquires
  <1>2. CASE PickerCloses
    <2>1. file.target \in Entries /\ file' = [file EXCEPT !.phase = "comparing"] =>
             file' = [file EXCEPT !.phase = "comparing", !.target = file.target]
      BY <1>0 DEF Sinks
    <2> QED BY <1>0, <1>1, <1>2, <2>1, RejectionKeeps DEF PickerCloses, Sinks, Outcomes
  <1>3. CASE AcquisitionFails \/ AcquisitionDeclined
    BY <1>3, RejectionKeeps DEF AcquisitionFails, AcquisitionDeclined, Outcomes
  <1>4. CASE Compares
    BY <1>0, <1>1, <1>4 DEF Compares
  <1>5. CASE AnswersPrompt
    <2>1. PICK phase \in {"comparing", "declined"} : file' = [file EXCEPT !.phase = phase]
      BY <1>5 DEF AnswersPrompt
    <2>2. /\ file.target \in Entries
          /\ file' = [file EXCEPT !.phase = phase, !.target = file.target]
      BY <1>0, <2>1 DEF Sinks
    <2>3. phase \in {"comparing", "asking", "declined", "creating", "locking"}
      BY <2>1
    <2>4. file.phase \in {"picking", "comparing", "asking"} /\ UNCHANGED disk /\ Acquires
      BY <1>5 DEF AnswersPrompt
    <2> QED BY <1>1, <2>2, <2>3, <2>4
  <1>6. SelectsAgain \in Sinks /\ IsSink(SelectsAgain) /\ SelectsAgain.phase = "comparing"
        /\ \A d : d # Placeholder(op.id) => Owned(SelectsAgain, d)
    BY <1>0, AgainIsASink
  <1>7. CASE AcquisitionThrows
    <2>1. /\ file' = [file EXCEPT !.phase = "rejecting", !.refused = (file.phase = "probing")]
          /\ file.phase \in {"creating", "making", "probing", "locking"}
          /\ disk' = disk
      BY <1>7 DEF AcquisitionThrows
    <2>2. /\ file' \in Sinks /\ file'.phase = "rejecting"
          /\ file'.refused = (file.phase = "probing")
          /\ file'.created = file.created /\ file'.removing = file.removing
          /\ file'.late = file.late /\ file'.io = file.io /\ file'.chunks = file.chunks
      BY <1>0, <2>1 DEF Sinks
    <2>3. IsSink(file') /\ Owned(file', disk')
      BY <1>0, <2>1, <2>2 DEF IsSink, Owned
    <2> QED BY <1>7, <2>1, <2>2, <2>3, AcquisitionGoesOn DEF AcquisitionThrows, Acquires
  <1>8. CASE LooksAgain
    <2>1. CASE disk = NoFile
      <3>1. file' \in Sinks /\ IsSink(file') /\ file'.phase = "making" /\ SamePlaceholder
        BY <1>0, <1>8, <2>1 DEF LooksAgain, Sinks, IsSink, SamePlaceholder
      <3> QED BY <1>8, <3>1, OwnedStays, AcquisitionGoesOn DEF LooksAgain, Acquires
    <2>2. CASE disk # NoFile
      <3>1. Busy /\ disk # Placeholder(op.id)
        BY <1>0, <1>8 DEF LooksAgain, IsSink, Owned, ExportInv, SinkInv
      <3> QED BY <1>6, <1>8, <2>2, <3>1, AcquisitionGoesOn DEF LooksAgain, Acquires
    <2> QED BY <2>1, <2>2
  <1>9. CASE MakesFile
    <2>1. /\ file' \in Sinks /\ IsSink(file') /\ file'.phase = "probing"
          /\ ~file'.removing
      BY <1>0, <1>9 DEF MakesFile, Sinks, IsSink
    <2>2. Owned(file', disk') /\ disk' \in {disk, Placeholder(op.id)}
      BY <1>9, <2>1 DEF Owned, MakesFile
    <2> QED BY <1>9, <2>1, <2>2, AcquisitionGoesOn DEF MakesFile, Acquires
  <1>10. CASE OwnsPlaceholder
    <2>1. CASE disk = Placeholder(op.id)
      <3>1. /\ file' \in Sinks /\ IsSink(file') /\ file'.phase = "locking"
            /\ file'.created /\ ~file'.removing
        BY <1>0, <1>10, <2>1 DEF OwnsPlaceholder, Sinks, IsSink
      <3>2. Owned(file', disk')
        BY <3>1 DEF Owned
      <3> QED BY <1>10, <3>1, <3>2, AcquisitionGoesOn DEF OwnsPlaceholder, Acquires
    <2>2. CASE disk # Placeholder(op.id)
      BY <1>6, <1>10, <2>2, AcquisitionGoesOn DEF OwnsPlaceholder, Acquires
    <2> QED BY <2>1, <2>2
  <1>11. CASE Locks
    <2>1. CASE disk = (IF file.created THEN Placeholder(op.id) ELSE file.target)
      BY <1>11, <2>1, LockKeeps DEF Locks
    <2>2. CASE disk # (IF file.created THEN Placeholder(op.id) ELSE file.target)
      <3>1. file' = [file EXCEPT !.phase = "retrying"] /\ file.phase = "locking"
            /\ UNCHANGED <<disk, op, workVars, pageVars, documentVars>>
        BY <1>11, <2>2 DEF Locks
      <3>2. file' \in Sinks /\ IsSink(file') /\ file'.phase = "retrying" /\ SamePlaceholder
        BY <1>0, <3>1 DEF Sinks, IsSink, SamePlaceholder
      <3> QED BY <3>1, <3>2, OwnedStays, AcquisitionGoesOn
    <2> QED BY <2>1, <2>2
  <1> QED BY <1>2, <1>3, <1>4, <1>5, <1>7, <1>8, <1>9, <1>10, <1>11 DEF Acquisition

---------------------------------------------------------------------------
(* The workers, and what the page hears of them.                            *)

LEMMA WorkKeeps ==
    ASSUME ExportInv, UNCHANGED <<op, pageVars, fileVars, documentVars>>,
           exporter' \in Exporters, WorkInv'
    PROVE  ExportInv'
  <1>1. SameOperation /\ (Active' <=> Active) /\ op'.writing = op.writing
    BY DEF SameOperation, Active, Busy, ExportInv, ShapesInv
  <1>2. ShapesInv'
    BY ShapesStay DEF ExportInv, ShapesInv, pageVars, fileVars, documentVars
  <1>3. SinkInv'
    BY <1>1, SinkStays DEF ExportInv, fileVars
  <1>4. TokenInv'
    BY <1>1, TokenStays DEF ExportInv, pageVars, fileVars
  <1>5. DiskInv' /\ PublishedIsTold'
    BY <1>1, DiskStays DEF ExportInv, pageVars, fileVars, SamePlaceholder
  <1> QED BY <1>2, <1>3, <1>4, <1>5 DEF ExportInv

LEMMA OnesChunk ==
    /\ \A kind : Append(<<>>, kind) = <<kind>>
    /\ \A kind : <<kind>> # <<>> /\ Head(<<kind>>) = kind /\ Tail(<<kind>>) = <<>>
  OBVIOUS

LEMMA WorkerKeeps ==
    ASSUME ExportInv, GeometryAnswers \/ SnapshotAnswered \/ Exporter \/ ExporterCrashes
    PROVE  ExportInv'
  <1>0. /\ ShapesInv /\ SinkInv /\ WorkInv /\ exporter \in Exporters
        /\ exporter.state # "off" => Busy /\ Active
        /\ exporter.state \in {"waiting", "writing", "blocked"} => file.io # "closing"
    BY DEF ExportInv, ShapesInv, SinkInv, WorkInv, Active
  <1>1. ASSUME UNCHANGED <<op, fileVars>> PROVE Active' <=> Active
    BY <1>1 DEF Active, Busy
  <1>2. CASE SendsSnapshot
    <2>1. /\ exporter.state = "waiting" /\ exporter'.state = "writing"
          /\ exporter'.posted = exporter.posted /\ exporter' \in Exporters
          /\ request' = "sent" /\ UNCHANGED <<posts, op, file>>
      BY <1>0, <1>2 DEF SendsSnapshot, WorkInv, Exporters, fileVars
    <2>2. WorkInv'
      BY <1>0, <1>1, <1>2, <2>1 DEF WorkInv, SendsSnapshot
    <2> QED BY <1>2, <2>1, <2>2, WorkKeeps DEF SendsSnapshot
  <1>3. CASE SnapshotAnswered
    <2>1. WorkInv'
      BY <1>0, <1>1, <1>3 DEF SnapshotAnswered, WorkInv, fileVars
    <2> QED BY <1>0, <1>3, <2>1, WorkKeeps DEF SnapshotAnswered
  <1>4. CASE RefusesSnapshot
    BY <1>0, <1>4, FailureKeeps
       DEF RefusesSnapshot, WorkInv, pageVars, fileVars, documentVars, Outcomes
  <1>5. CASE ExporterCrashes
    BY <1>0, <1>5, FailureKeeps
       DEF ExporterCrashes, pageVars, fileVars, documentVars, Outcomes
  <1>6. ASSUME NEW kind \in {"chunk", "file-ready", "written", "failed"},
               NEW next \in {"blocked", "done"}, NEW count \in {0, 1},
               Posts(kind, next, count),
               kind = "chunk" => op.backed /\ next = "blocked" /\ count = 1,
               kind # "chunk" => next = "done", kind = "written" => ~op.backed,
               kind = "file-ready" => exporter.posted = Chunks
        PROVE  ExportInv'
    <2>1. /\ exporter.state = "writing" /\ exporter'.state = next
          /\ exporter'.posted = exporter.posted + count /\ exporter' \in Exporters
          /\ posts' = <<kind>> /\ UNCHANGED <<request, op, file>>
          /\ UNCHANGED <<op, pageVars, fileVars, documentVars>>
      BY <1>0, <1>6, OnesChunk DEF Posts, WorkInv, Exporters, fileVars
    <2>2. WorkInv'
      BY <1>0, <1>1, <1>6, <2>1 DEF WorkInv
    <2> QED BY <2>1, <2>2, WorkKeeps
  <1>7. CASE Exporter
    BY <1>6, <1>7 DEF Exporter, PostsChunk, PostsReady, PostsBytes, PostsFailure
  <1> QED BY <1>2, <1>3, <1>4, <1>5, <1>7 DEF GeometryAnswers

(* A message that arrives is of an operation that runs and writes nothing.  *)
LEMMA Heard ==
    ASSUME ExportInv, NEW kind, Hears(kind)
    PROVE  /\ Active /\ Busy /\ op \in Operations /\ ~op.committing /\ ~op.writing
           /\ file.io = "none" /\ posts = <<kind>>
           /\ kind = "chunk" => exporter.state = "blocked" /\ op.backed
                                /\ exporter.posted = file.chunks + 1
           /\ kind # "chunk" => exporter.state = "done"
           /\ kind = "file-ready" => file.chunks = Chunks
           /\ kind = "written" => ~op.backed
  <1>1. exporter.state \in {"blocked", "done"} /\ posts # <<>>
    BY DEF ExportInv, WorkInv, ShapesInv, Exporters, Hears
  <1>2. Active /\ Busy /\ op \in Operations
    BY <1>1, BusyOperations DEF ExportInv, WorkInv, Active
  <1>3. \E k \in {"chunk", "failed", "written", "file-ready"} :
          /\ posts = <<k>> /\ ~op.committing /\ file.io = "none"
          /\ k = "chunk" => exporter.state = "blocked" /\ op.backed
                            /\ exporter.posted = file.chunks + 1
          /\ k # "chunk" => exporter.state = "done"
          /\ k = "file-ready" => file.chunks = Chunks
          /\ k = "written" => ~op.backed
    BY <1>1 DEF ExportInv, WorkInv
  <1>4. \A k : posts = <<k>> => k = kind
    BY OnesChunk DEF Hears
  <1>5. ~op.writing
    BY <1>2, <1>3 DEF ExportInv, SinkInv
  <1> QED BY <1>2, <1>3, <1>4, <1>5

(* A message of an operation the store gave up, or out of turn: it settles. *)
LEMMA SettleKeeps ==
    ASSUME ExportInv, Active, NEW o \in Outcomes, Settle(o), file.io # "closing",
           UNCHANGED <<pageVars, fileVars, documentVars>>
    PROVE  ExportInv'
  <1>1. Failed(o)
    BY DEF Failed
  <1> QED BY <1>1, FailureKeeps DEF pageVars, fileVars, documentVars

LEMMA ChunkKeeps ==
    ASSUME ExportInv, HearsChunk
    PROVE  ExportInv'
  <1>1. /\ Active /\ Busy /\ op \in Operations /\ ~op.committing /\ ~op.writing
        /\ file.io = "none" /\ posts = <<"chunk">> /\ exporter.state = "blocked"
        /\ op.backed /\ exporter.posted = file.chunks + 1
    BY Heard DEF HearsChunk
  <1>2. file.phase = "ready"
    BY <1>1 DEF ExportInv, WorkInv, SinkInv
  <1>3. CASE ~Current
    BY <1>1, <1>3, SettleKeeps DEF HearsChunk, fileVars, Outcomes
  <1>4. CASE Current
    <2>1. /\ op' = [op EXCEPT !.writing = TRUE] /\ file' = [file EXCEPT !.io = "writing"]
          /\ posts' = <<>> /\ UNCHANGED <<request, exporter, pageVars, disk, documentVars>>
      BY <1>1, <1>2, <1>4, OnesChunk DEF HearsChunk
    <2>2. /\ op' \in Operations /\ op'.writing /\ op'.id = op.id /\ op'.of = op.of
          /\ op'.backed = op.backed /\ op'.committing = op.committing
          /\ op'.outcome = op.outcome
      BY <1>1, <2>1 DEF Operations
    <2>3. /\ file' \in Sinks /\ file'.io = "writing" /\ file'.phase = file.phase
          /\ file'.chunks = file.chunks /\ SamePlaceholder
      BY <2>1 DEF ExportInv, ShapesInv, Sinks, SamePlaceholder
    <2>4. SameOperation /\ Active' /\ Busy'
      BY <1>1, <2>2, BusyOperations
         DEF SameOperation, Active, Busy, NoOperation, Operations
    <2>5. ShapesInv'
      BY <2>1, <2>2, <2>3, ShapesStay DEF ExportInv, ShapesInv, pageVars, documentVars
    <2>6. SinkInv'
      BY <1>1, <1>2, <2>2, <2>3, <2>4 DEF ExportInv, SinkInv, IsSink, SamePlaceholder
    <2>7. WorkInv'
      BY <1>1, <1>2, <2>1, <2>2, <2>3, <2>4 DEF ExportInv, WorkInv
    <2>8. TokenInv'
      BY <1>1, <2>1, <2>3, <2>4, TokenStays DEF ExportInv, pageVars
    <2>9. DiskInv' /\ PublishedIsTold'
      BY <1>1, <2>1, <2>3, <2>4, DiskStays DEF ExportInv, pageVars
    <2> QED BY <2>5, <2>6, <2>7, <2>8, <2>9 DEF ExportInv
  <1> QED BY <1>3, <1>4

LEMMA ReadyKeeps ==
    ASSUME ExportInv, HearsReady
    PROVE  ExportInv'
  <1>1. /\ Active /\ Busy /\ op \in Operations /\ ~op.committing /\ ~op.writing
        /\ file.io = "none" /\ posts = <<"file-ready">> /\ exporter.state = "done"
        /\ file.chunks = Chunks
    BY Heard DEF HearsReady
  <1>2. CASE ~Current \/ file.phase # "ready"
    BY <1>1, <1>2, SettleKeeps DEF HearsReady, fileVars, Outcomes
  <1>3. CASE Current /\ file.phase = "ready"
    <2>1. /\ op' = [op EXCEPT !.committing = TRUE] /\ file' = [file EXCEPT !.io = "closing"]
          /\ posts' = <<>> /\ UNCHANGED <<request, exporter, pageVars, disk, documentVars>>
      BY <1>1, <1>3, OnesChunk DEF HearsReady
    <2>2. /\ op' \in Operations /\ op'.committing /\ op'.id = op.id
          /\ op'.backed = op.backed /\ op'.writing = op.writing
          /\ op'.outcome = op.outcome
      BY <1>1, <2>1 DEF Operations
    <2>3. /\ file' \in Sinks /\ file'.io = "closing" /\ file'.phase = file.phase
          /\ file'.chunks = file.chunks /\ SamePlaceholder
      BY <2>1 DEF ExportInv, ShapesInv, Sinks, SamePlaceholder
    <2>4. Active' /\ Busy'
      BY <1>1, <2>2, BusyOperations DEF Active, Busy, NoOperation, Operations
    <2>5. ShapesInv'
      BY <2>1, <2>2, <2>3, ShapesStay DEF ExportInv, ShapesInv, pageVars, documentVars
    <2>6. SinkInv'
      BY <1>1, <1>3, <2>2, <2>3, <2>4 DEF ExportInv, SinkInv, IsSink, SamePlaceholder
    <2>7. WorkInv'
      BY <1>1, <1>3, <2>1, <2>2, <2>3, <2>4 DEF ExportInv, WorkInv
    <2>8. TokenInv'
      BY <1>1, <2>1, <2>2, <2>3, <2>4 DEF ExportInv, TokenInv, Current, pageVars
    <2>9. DiskInv' /\ PublishedIsTold'
      BY <1>1, <2>1, <2>2, <2>3, <2>4
         DEF ExportInv, DiskInv, PublishedIsTold, Whole, pageVars, Owned, SamePlaceholder
    <2> QED BY <2>5, <2>6, <2>7, <2>8, <2>9 DEF ExportInv
  <1> QED BY <1>2, <1>3

LEMMA HearingKeeps ==
    ASSUME ExportInv, HearsExporter
    PROVE  ExportInv'
  <1>1. CASE HearsBytes
    <2>1. Active /\ Busy /\ op \in Operations /\ file.io = "none" /\ ~op.backed
      BY <1>1, Heard DEF HearsBytes
    <2>2. CASE ~Current
      BY <1>1, <2>1, <2>2, SettleKeeps DEF HearsBytes, fileVars, Outcomes
    <2>3. CASE Current
      <3>1. /\ Resolve("success") /\ exporter' = NoExporter /\ posts' = <<>>
            /\ request' = "none" /\ downloads' = downloads \cup {op.id}
            /\ UNCHANGED <<disk, resident>>
        BY <1>1, <2>3 DEF HearsBytes, Succeed, documentVars
      <3> QED BY <2>1, <3>1, ResolvedKeeps, NothingRuns
              DEF ExportInv, ShapesInv, DiskInv, PublishedIsTold, Operations
    <2> QED BY <2>2, <2>3
  <1>2. CASE HearsFailure
    BY <1>2, Heard, SettleKeeps DEF HearsFailure, Outcomes
  <1> QED BY <1>1, <1>2, ChunkKeeps, ReadyKeeps DEF HearsExporter

---------------------------------------------------------------------------
(* The file system and the clean-up.                                        *)

LEMMA WriteKeeps ==
    ASSUME ExportInv, WriteEnds \/ WriteFails
    PROVE  ExportInv'
  <1>0. /\ Busy /\ file \in Sinks /\ IsSink(file) /\ file.io = "writing"
        /\ file.phase = "ready" /\ op \in Operations /\ op.backed
        /\ UNCHANGED <<begun, shown, conversion, token, downloads, disk, resident>>
        /\ UNCHANGED <<pageVars, documentVars>>
    BY BusyOperations
       DEF WriteEnds, WriteFails, ExportInv, ShapesInv, SinkInv, IsSink, pageVars, documentVars
  <1>1. CASE WriteFails
    <2>1. /\ file' \in Sinks /\ IsSink(file') /\ SamePlaceholder
          /\ file'.phase = file.phase /\ file'.io = "none"
      BY <1>0, <1>1 DEF WriteFails, Sinks, IsSink, SamePlaceholder
    <2>2. SameOperation /\ Off
      BY <1>1, FailureSettles DEF WriteFails, Outcomes
    <2> QED BY <1>0, <2>1, <2>2, OwnedStays, SettledKeeps
  <1>2. CASE WriteEnds
    <2>1. /\ file' \in Sinks /\ IsSink(file') /\ SamePlaceholder
          /\ file'.phase = file.phase /\ file'.io = "none" /\ file'.chunks = file.chunks + 1
      <3>1. /\ file' = [file EXCEPT !.io = "none", !.chunks = file.chunks + 1]
            /\ file.chunks + 1 \in Nat
        BY <1>0, <1>2 DEF WriteEnds, Sinks
      <3> HIDE DEF Entries
      <3> QED BY <1>0, <3>1 DEF Sinks, IsSink, SamePlaceholder
    <2>2. CASE ~Current
      <3>1. SameOperation /\ Off
        BY <1>2, <2>2, FailureSettles DEF WriteEnds, Outcomes
      <3> QED BY <1>0, <2>1, <3>1, OwnedStays, SettledKeeps
    <2>3. CASE Current
      <3>1. /\ Active /\ exporter.state = "blocked" /\ posts = <<>> /\ ~op.committing
            /\ exporter.posted = file.chunks + 1 /\ exporter \in Exporters
        BY <1>0, <2>3 DEF Current, ExportInv, WorkInv, ShapesInv, Exporters
      <3>2. /\ op' = [op EXCEPT !.writing = FALSE] /\ UNCHANGED <<request, posts>>
            /\ exporter' = [exporter EXCEPT !.state = "writing"]
        BY <1>2, <2>3 DEF WriteEnds
      <3>3. /\ op' \in Operations /\ ~op'.writing /\ op'.id = op.id /\ op'.of = op.of
            /\ op'.backed = op.backed /\ op'.committing = op.committing
            /\ op'.outcome = op.outcome
        BY <1>0, <3>2 DEF Operations
      <3>4. /\ exporter' \in Exporters /\ exporter'.state = "writing"
            /\ exporter'.posted = exporter.posted
        BY <3>1, <3>2 DEF Exporters
      <3>5. SameOperation /\ Active' /\ Busy'
        BY <1>0, <3>1, <3>3, BusyOperations
           DEF SameOperation, Active, Busy, NoOperation, Operations
      <3>6. ShapesInv'
        BY <1>0, <2>1, <3>3, <3>4, ShapesStay DEF ExportInv, ShapesInv
      <3>7. SinkInv'
        BY <1>0, <2>1, <3>1, <3>3, <3>5 DEF SinkInv, IsSink, SamePlaceholder
      <3>8. WorkInv'
        BY <1>0, <2>1, <3>1, <3>2, <3>3, <3>4, <3>5 DEF ExportInv, WorkInv
      <3>9. TokenInv'
        BY <1>0, <2>1, <3>1, <3>5, TokenStays DEF ExportInv
      <3>10. DiskInv' /\ PublishedIsTold'
        BY <1>0, <2>1, <3>1, <3>5, DiskStays DEF ExportInv
      <3> QED BY <3>6, <3>7, <3>8, <3>9, <3>10 DEF ExportInv
    <2> QED BY <2>2, <2>3
  <1> QED BY <1>1, <1>2

LEMMA CloseKeeps ==
    ASSUME ExportInv, CloseEnds \/ CloseFails
    PROVE  ExportInv'
  <1>0. /\ Busy /\ file \in Sinks /\ IsSink(file) /\ file.io = "closing"
        /\ file.phase = "ready" /\ file.chunks = Chunks
        /\ op \in Operations /\ op.backed /\ op.committing /\ op.id \in 1 .. begun
    BY BusyOperations
       DEF CloseEnds, CloseFails, ExportInv, ShapesInv, SinkInv, IsSink, Operations
  <1>1. CASE CloseFails
    <2>1. /\ file' \in Sinks /\ IsSink(file') /\ SamePlaceholder
          /\ file'.phase = file.phase /\ file'.io = "none"
      BY <1>0, <1>1 DEF CloseFails, Sinks, IsSink, SamePlaceholder
    <2>2. SameOperation /\ Off
      BY <1>1, FailureSettles DEF CloseFails, Outcomes
    <2> QED BY <1>1, <2>1, <2>2, OwnedStays, SettledKeeps DEF CloseFails, pageVars, documentVars
  <1>2. Disk("saved", op.id, Chunks) \in Entries
    BY <1>0, ExportAssumption DEF Disk, Entries
  <1>3. CASE CloseEnds /\ Active
    <2>1. /\ Resolve("success") /\ exporter' = NoExporter /\ posts' = <<>>
          /\ request' = "none" /\ disk' = Disk("saved", op.id, Chunks)
          /\ UNCHANGED <<downloads, resident>>
      BY <1>0, <1>3 DEF CloseEnds, Succeed, documentVars
    <2>2. downloads \subseteq 1 .. begun
      BY DEF ExportInv, DiskInv
    <2>3. Disk("saved", op.id, Chunks).kind = "saved" /\ Whole(Disk("saved", op.id, Chunks))
      BY DEF Disk, Whole
    <2> QED BY <1>0, <1>2, <2>1, <2>2, <2>3, ResolvedKeeps, NothingRuns
  <1>4. CASE CloseEnds /\ ~Active
    <2>1. /\ disk' = Disk("saved", op.id, Chunks)
          /\ file' = [file EXCEPT !.io = "none", !.created = FALSE]
          /\ UNCHANGED <<op, shown, conversion, token, begun, workVars, downloads, documentVars>>
      BY <1>0, <1>4 DEF CloseEnds
    <2>2. /\ file' \in Sinks /\ IsSink(file') /\ ~file'.created /\ ~file'.removing
          /\ file'.phase = file.phase /\ file'.io = "none" /\ file'.chunks = file.chunks
      BY <1>0, <2>1 DEF Sinks, IsSink
    <2>3. SameOperation /\ Busy' /\ ~Active' /\ op' = op
      BY <1>0, <1>4, <2>1 DEF SameOperation, Busy, Active
    <2>4. ~op.writing /\ exporter.state = "off" /\ token = 0
      BY <1>0, <1>4 DEF ExportInv, SinkInv, WorkInv, TokenInv
    <2>5. disk' \in Entries /\ disk'.kind = "saved" /\ disk'.by = op.id /\ Whole(disk')
      BY <1>2, <2>1 DEF Disk, Whole
    <2>6. ShapesInv'
      BY <1>0, <2>1, <2>2, <2>5, ShapesStay
         DEF ExportInv, ShapesInv, workVars, documentVars
    <2>7. SinkInv'
      BY <1>0, <2>2, <2>3, <2>4 DEF SinkInv
    <2>8. WorkInv'
      BY <2>1, <2>3, <2>4 DEF ExportInv, WorkInv, workVars
    <2>9. TokenInv'
      BY <2>1, <2>2, <2>3, TokenStays DEF ExportInv
    <2>10. DiskInv'
      <3>1. downloads' = downloads /\ begun' = begun /\ token' = 0
        BY <2>1, <2>4
      <3>2. downloads \subseteq 1 .. begun /\ (Busy => op.id \notin downloads)
        BY DEF ExportInv, DiskInv
      <3>3. downloads' \subseteq 1 .. begun' /\ (Busy' => op'.id \notin downloads')
        BY <1>0, <2>3, <3>1, <3>2
      <3>4. Owned(file, disk)'
        BY <2>2, <2>5 DEF Owned, Placeholder, Disk
      <3> QED BY <2>3, <2>5, <3>1, <3>3, <3>4 DEF DiskInv
    <2>11. PublishedIsTold'
      BY <1>0, <2>1, <2>3, <2>4, <2>5 DEF ExportInv, TokenInv, PublishedIsTold
    <2> QED BY <2>6, <2>7, <2>8, <2>9, <2>10, <2>11 DEF ExportInv
  <1> QED BY <1>1, <1>3, <1>4

(* An abort ends in the rejection of the acquisition, or with the clean-up  *)
(* of a settled operation.                                                  *)
LEMMA AbortEffect ==
    ASSUME ExportInv, EndsAbort, ~(file.phase = "retrying" /\ file' = SelectsAgain)
    PROVE  SameOperation /\ Off
  <1>1. PICK refused \in BOOLEAN, failed \in BOOLEAN :
          \/ file.phase = "retrying" /\ file' = SelectsAgain
          \/ IF file.phase = "ready" /\ failed
             THEN op' = [op EXCEPT !.outcome = "failed"] /\ UNCHANGED workVars
             ELSE Failed(IF op.aborted THEN "cancelled" ELSE "failed")
    BY DEF EndsAbort
  <1>2. CASE Failed(IF op.aborted THEN "cancelled" ELSE "failed")
    BY <1>2, FailureSettles DEF Outcomes
  <1>3. CASE /\ file.phase = "ready"
             /\ op' = [op EXCEPT !.outcome = "failed"] /\ UNCHANGED workVars
    <2>1. Busy /\ ~Active /\ op \in Operations /\ op.id # 0
      BY <1>3, BusyOperations DEF EndsAbort, Aborting, ExportInv
    <2>2. /\ op' \in Operations /\ op'.id = op.id /\ op'.of = op.of
          /\ op'.backed = op.backed /\ op'.committing = op.committing
          /\ op'.writing = op.writing /\ op'.outcome = "failed"
      BY <1>3, <2>1 DEF Operations
    <2>3. SameOperation /\ ~Active'
      BY <2>1, <2>2 DEF SameOperation, Busy, Active, NoOperation
    <2>4. ~op.writing /\ exporter.state = "off" /\ exporter \in Exporters
      BY <2>1 DEF ExportInv, SinkInv, WorkInv, ShapesInv
    <2> QED BY <1>3, <2>2, <2>3, <2>4 DEF Off, ExportInv, WorkInv, workVars
  <1> QED BY <1>1, <1>2, <1>3

LEMMA CleanUpKeeps ==
    ASSUME ExportInv, CleansUp
    PROVE  ExportInv'
  <1>0. /\ ShapesInv /\ file \in Sinks /\ IsSink(file) /\ disk \in Entries
        /\ disk.kind # "unread" /\ Owned(file, disk) /\ SinkInv
    BY DEF ExportInv, ShapesInv, SinkInv, DiskInv
  <1>1. Busy
    BY <1>0 DEF CleansUp, FindsPlaceholder, EndsAbort, Resolves, Aborting, SinkInv
  <1>2. CASE Resolves
    <2>1. /\ ~Active /\ op \in Operations /\ op.outcome # "success"
          /\ exporter.state = "off" /\ Resolve(op.outcome)
          /\ UNCHANGED <<downloads, disk, request, exporter, posts, resident>>
      BY <1>1, <1>2, BusyOperations
         DEF Resolves, ExportInv, WorkInv, Operations, workVars, documentVars
    <2>2. /\ Whole(disk) /\ (disk.kind \notin {"placeholder", "saved"} => disk.by = 0)
          /\ token # 0 => ~(disk.kind = "saved" /\ disk.by = op.id)
          /\ op.id \notin downloads /\ downloads \subseteq 1 .. begun
      BY <1>1 DEF ExportInv, DiskInv, PublishedIsTold
    <2>3. posts = <<>> /\ request = "none" /\ exporter \in Exporters
      BY <2>1 DEF ExportInv, WorkInv, ShapesInv
    <2> QED BY <1>0, <1>1, <2>1, <2>2, <2>3, ResolvedKeeps
  <1>3. CASE FindsPlaceholder
    <2>1. /\ file' = [file EXCEPT !.removing = TRUE] /\ file.created
          /\ disk = Placeholder(op.id) /\ Aborting
          /\ UNCHANGED <<disk, pageVars, op, workVars, documentVars>>
      BY <1>3 DEF FindsPlaceholder
    <2>2. /\ file' \in Sinks /\ IsSink(file') /\ file'.created /\ file'.io = file.io
          /\ file'.phase = file.phase
      BY <1>0, <2>1 DEF Sinks, IsSink, Aborting
    <2>3. Owned(file', disk')
      BY <2>1, <2>2 DEF Owned
    <2>4. CASE file.phase \in {"rejecting", "retrying"}
      BY <2>1, <2>2, <2>3, <2>4, AcquisitionGoesOn
    <2>5. CASE file.phase = "ready" /\ ~Active
      <3>1. SameOperation /\ ~Active'
        BY <1>0, <2>1, <2>5 DEF SameOperation, ShapesInv, Busy, Active
      <3>2. ~op.writing /\ exporter.state = "off" /\ exporter \in Exporters
        BY <1>1, <2>5 DEF ExportInv, SinkInv, WorkInv, ShapesInv
      <3>3. Off
        BY <2>1, <3>1, <3>2 DEF Off, ExportInv, WorkInv, workVars
      <3>4. file.io # "closing"
        BY <2>1, <2>5 DEF Aborting
      <3> QED BY <2>1, <2>2, <2>3, <3>1, <3>3, <3>4, SettledKeeps DEF pageVars, documentVars
    <2> QED BY <2>1, <2>4, <2>5 DEF Aborting
  <1>4. CASE EndsAbort
    <2>1. PICK refused \in BOOLEAN, failed \in BOOLEAN :
            /\ refused => failed /\ file.created
            /\ refused \/ file.removing \/ ~(file.created /\ disk = Placeholder(op.id))
            /\ disk' = IF file.removing /\ ~refused THEN NoFile ELSE disk
            /\ IF file.phase = "retrying" /\ ~failed
               THEN file' = SelectsAgain /\ UNCHANGED <<op, workVars>>
               ELSE file' = [file EXCEPT !.phase = "gone", !.created = FALSE,
                                         !.removing = FALSE, !.refused = @ \/ refused]
      BY <1>4 DEF EndsAbort
    <2>2. Aborting /\ UNCHANGED <<pageVars, prompt, documentVars>>
      BY <1>4 DEF EndsAbort
    <2>3. NoFile # Placeholder(op.id)
      BY DEF NoFile, Placeholder, Disk
    <2>4. disk' = Placeholder(op.id) => refused \/ file.refused
      BY <1>0, <1>1, <2>1, <2>2, <2>3 DEF Owned, Aborting
    <2>5. CASE file.phase = "retrying" /\ ~failed
      <3>1. /\ SelectsAgain \in Sinks /\ IsSink(SelectsAgain)
            /\ SelectsAgain.phase = "comparing"
            /\ \A d : d # Placeholder(op.id) => Owned(SelectsAgain, d)
        BY <1>0, AgainIsASink
      <3>2. disk' # Placeholder(op.id)
        BY <1>0, <2>1, <2>4, <2>5 DEF IsSink
      <3> QED BY <2>1, <2>2, <2>5, <3>1, <3>2, AcquisitionGoesOn
    <2>6. CASE ~(file.phase = "retrying" /\ ~failed)
      <3>1. file' = [file EXCEPT !.phase = "gone", !.created = FALSE,
                                 !.removing = FALSE, !.refused = file.refused \/ refused]
        BY <2>1, <2>6
      <3>2. /\ file' \in Sinks /\ file'.phase = "gone" /\ ~file'.created /\ ~file'.removing
            /\ file'.refused = (file.refused \/ refused) /\ file'.io = file.io
        BY <1>0, <3>1 DEF Sinks
      <3>3. file.io = "none"
        BY <1>0, <2>2 DEF Aborting, IsSink
      <3>4. IsSink(file') /\ Owned(file', disk')
        BY <2>4, <3>2, <3>3 DEF IsSink, Owned
      <3>5. file' # SelectsAgain
        BY <1>0, <3>2, AgainIsASink
      <3>6. SameOperation /\ Off
        BY <1>4, <3>5, AbortEffect
      <3>7. file.phase # "none"
        BY <2>2 DEF Aborting
      <3> QED BY <1>1, <2>1, <2>2, <3>2, <3>3, <3>4, <3>6, <3>7, SettledKeeps
              DEF pageVars, documentVars
    <2> QED BY <2>5, <2>6
  <1> QED BY <1>2, <1>3, <1>4 DEF CleansUp

---------------------------------------------------------------------------
(* The user, other programs, and what happens to the document.              *)

(* An operation is stopped, or goes on because its file is being committed  *)
(* or because it is over: the document may be another one, and the store    *)
(* may have given the export up.                                            *)
LEMMA StoppedKeeps ==
    ASSUME ExportInv, SameOperation, UNCHANGED <<begun, downloads, disk>>,
           shown' \in Nat, resident' \in Nat,
           \/ Off /\ (file.io # "closing" \/ token' = 0)
           \/ /\ ~Active \/ op.committing
              /\ UNCHANGED workVars
              /\ op'.outcome = op.outcome /\ op'.writing = op.writing,
           \/ UNCHANGED file
           \/ file.phase = "asking" /\ file' = [file EXCEPT !.phase = "declined"],
           \/ UNCHANGED <<token, conversion>>
           \/ token' = 0 /\ conversion' = [state |-> "closed", of |-> 0]
    PROVE  ExportInv'
  <1>1. /\ ShapesInv /\ SinkInv /\ WorkInv /\ TokenInv /\ DiskInv /\ PublishedIsTold
        /\ file \in Sinks /\ IsSink(file)
    BY DEF ExportInv, ShapesInv, SinkInv
  <1>2. /\ file' \in Sinks /\ IsSink(file') /\ file'.io = file.io
        /\ file'.chunks = file.chunks /\ SamePlaceholder
        /\ file'.phase = "ready" <=> file.phase = "ready"
        /\ file'.phase \in {"none", "ready"} <=> file.phase \in {"none", "ready"}
        /\ file'.phase = "none" <=> file.phase = "none"
    <2>1. CASE UNCHANGED file
      BY <1>1, <2>1 DEF SamePlaceholder
    <2>2. CASE file.phase = "asking" /\ file' = [file EXCEPT !.phase = "declined"]
      <3> HIDE DEF Entries
      <3> QED BY <1>1, <2>2 DEF Sinks, IsSink, SamePlaceholder
    <2> QED BY <2>1, <2>2
  <1>3. /\ Off \/ (Active' <=> Active)
        /\ Active' => Active /\ op.committing
    BY DEF Off, Active, SameOperation
  <1>4. conversion' \in Conversions
    BY <1>1 DEF ShapesInv, Conversions
  <1>5. ShapesInv'
    BY <1>1, <1>2, <1>4, ShapesStay DEF ShapesInv, SameOperation, Off, workVars
  <1>6. SinkInv'
    <2>1. CASE Off
      BY <1>1, <1>2, <1>3, <2>1 DEF SinkInv, SameOperation, Off, SamePlaceholder
    <2>2. CASE ~Off
      BY <1>1, <1>2, <1>3, <2>2 DEF SinkInv, SameOperation, SamePlaceholder
    <2> QED BY <2>1, <2>2
  <1>7. WorkInv'
    BY <1>1, <1>2, <1>3, OffWorks, WorkStays
  <1>8. op'.id = op.id /\ (Busy' <=> Busy) /\ op'.committing = op.committing
        /\ (Busy <=> op.id # 0)
    BY <1>1, BusyOperations DEF SameOperation
  <1>9. TokenInv'
    <2>1. CASE token' = 0 /\ conversion' = [state |-> "closed", of |-> 0]
      BY <1>3, <1>8, <2>1 DEF TokenInv, Current, Active
    <2>2. CASE UNCHANGED <<token, conversion>>
      <3>1. file'.io = "closing" /\ ~Active' => token' = 0
        <4>1. CASE Active' <=> Active
          BY <1>1, <1>2, <2>2, <4>1 DEF TokenInv
        <4>2. CASE ~(Active' <=> Active)
          <5>1. file.io # "closing" \/ token' = 0
            BY <4>2 DEF Active, SameOperation
          <5> QED BY <1>2, <5>1
        <4> QED BY <4>1, <4>2
      <3> QED BY <1>1, <1>3, <1>8, <2>2, <3>1 DEF TokenInv, Current
    <2> QED BY <2>1, <2>2
  <1>10. DiskInv'
    <2>1. token = 0 => token' = 0
      OBVIOUS
    <2>2. Active' => Active
      BY <1>3
    <2>3. Owned(file, disk)'
      BY <1>1, <1>2, <1>8 DEF DiskInv, Owned, SamePlaceholder
    <2> QED BY <1>1, <1>8, <2>1, <2>2, <2>3 DEF DiskInv
  <1>11. PublishedIsTold'
    BY <1>1, <1>8 DEF PublishedIsTold, Whole
  <1> QED BY <1>5, <1>6, <1>7, <1>9, <1>10, <1>11 DEF ExportInv

LEMMA StopKeeps ==
    ASSUME ExportInv, StopExport, UNCHANGED <<begun, downloads, disk>>,
           shown' \in Nat, resident' \in Nat,
           \/ UNCHANGED <<token, conversion>>
           \/ token' = 0 /\ conversion' = [state |-> "closed", of |-> 0]
    PROVE  ExportInv'
  <1>1. ShapesInv /\ SinkInv
    BY DEF ExportInv
  <1>2. Active /\ ~op.committing => file.io # "closing"
    BY <1>1 DEF SinkInv
  <1> QED BY <1>1, <1>2, StopEffect, StoppedKeeps

LEMMA DocumentKeeps ==
    ASSUME ExportInv,
           Cancel \/ ChangeBegins \/ ChangeMade \/ ChangeShown \/ DocumentReplaced \/ GeometryLost
    PROVE  ExportInv'
  <1>0. /\ shown \in Nat /\ resident \in Nat
        /\ op \in Operations \cup {NoOperation}
    BY DEF ExportInv, ShapesInv
  <1>1. CASE Cancel
    BY <1>0, <1>1, StopKeeps DEF Cancel, pageVars, documentVars
  <1>2. CASE ChangeShown
    BY <1>0, <1>2, StopKeeps DEF ChangeShown
  <1>3. CASE DocumentReplaced
    BY <1>0, <1>3, StopKeeps DEF DocumentReplaced
  <1>4. CASE GeometryLost
    <2>1. CASE request # "none"
      BY <1>0, <1>4, <2>1, FailureSettles, StoppedKeeps DEF GeometryLost, Outcomes
    <2>2. CASE request = "none"
      BY <1>0, <1>4, <2>2, StopKeeps DEF GeometryLost
    <2> QED BY <2>1, <2>2
  <1>5. CASE ChangeBegins \/ ChangeMade
    <2>1. /\ UNCHANGED <<pageVars, op, fileVars, workVars>> /\ resident' \in Nat
      BY <1>0, <1>5 DEF ChangeBegins, ChangeMade
    <2>2. /\ UNCHANGED <<shown, conversion, token, begun, downloads, file, disk, op>>
          /\ UNCHANGED <<request, exporter, posts>>
      BY <2>1 DEF pageVars, fileVars, workVars
    <2>3. (Busy' <=> Busy) /\ (Active' <=> Active)
      BY <2>2 DEF Busy, Active
    <2> QED BY <2>1, <2>2, <2>3
            DEF ExportInv, ShapesInv, Operations, Entries, Sinks, Conversions, Exporters, SinkInv, WorkInv, TokenInv,
                DiskInv, Owned, PublishedIsTold, Current
  <1> QED BY <1>1, <1>2, <1>3, <1>4, <1>5

LEMMA UserKeeps ==
    ASSUME ExportInv, OpenConversion \/ Convert \/ OtherProgram
    PROVE  ExportInv'
  <1>0. ShapesInv /\ SinkInv /\ WorkInv /\ TokenInv /\ DiskInv /\ PublishedIsTold
    BY DEF ExportInv
  <1>1. CASE OpenConversion
    <2>1. /\ conversion' = [state |-> "reviewing", of |-> 0] /\ token' = 0
          /\ conversion.state = "closed"
          /\ UNCHANGED <<shown, begun, downloads, op, file, disk, request, exporter, posts,
                         resident>>
      BY <1>1 DEF OpenConversion, fileVars, workVars, documentVars
    <2>2. (Busy' <=> Busy) /\ (Active' <=> Active)
      BY <2>1 DEF Busy, Active
    <2>3. conversion' \in Conversions
      BY <1>0, <2>1 DEF ShapesInv, Conversions
    <2>4. ShapesInv'
      BY <1>0, <2>1, <2>3, ShapesStay DEF ShapesInv
    <2>5. SinkInv' /\ WorkInv'
      BY <1>0, <2>1, <2>2 DEF SinkInv, WorkInv
    <2>6. TokenInv'
      BY <1>0, <2>1, <2>2, <2>4, BusyOperations DEF TokenInv, Current
    <2>7. DiskInv' /\ PublishedIsTold'
      BY <1>0, <2>1, <2>2 DEF DiskInv, Owned, PublishedIsTold
    <2> QED BY <2>4, <2>5, <2>6, <2>7 DEF ExportInv
  <1>2. CASE OtherProgram
    <2>1. /\ disk' = [kind |-> "foreign", by |-> 0, chunks |-> 0]
          /\ file' = IF file.removing THEN [file EXCEPT !.late = TRUE] ELSE file
          /\ UNCHANGED <<shown, conversion, token, begun, downloads, op, request, exporter,
                         posts, resident>>
      BY <1>2 DEF OtherProgram, pageVars, workVars, documentVars, Disk
    <2>2. (Busy' <=> Busy) /\ (Active' <=> Active)
      BY <2>1 DEF Busy, Active
    <2>3. disk' \in Entries /\ disk'.kind = "foreign" /\ disk'.by = 0
      BY <1>0, <2>1 DEF ShapesInv, Entries
    <2>4. /\ file' \in Sinks /\ file'.phase = file.phase /\ file'.io = file.io
          /\ file'.chunks = file.chunks /\ file'.created = file.created
          /\ file'.removing = file.removing /\ file'.refused = file.refused
          /\ file.removing => file'.late
      <3> HIDE DEF Entries
      <3> QED BY <1>0, <2>1 DEF ShapesInv, Sinks
    <2>5. file = NoSink => file' = NoSink
      BY <2>1 DEF NoSink
    <2>6. ShapesInv'
      BY <1>0, <2>1, <2>3, <2>4, ShapesStay DEF ShapesInv
    <2>7. IsSink(file')
      BY <1>0, <2>4, <2>5 DEF SinkInv, IsSink
    <2>8. SinkInv' /\ WorkInv' /\ TokenInv'
      BY <1>0, <2>1, <2>2, <2>4, <2>7 DEF SinkInv, WorkInv, TokenInv, Current
    <2>9. Owned(file, disk)'
      BY <2>3, <2>4 DEF Owned, Placeholder, Disk
    <2>10. DiskInv' /\ PublishedIsTold'
      BY <1>0, <2>1, <2>2, <2>3, <2>9 DEF DiskInv, TokenInv, PublishedIsTold, Whole
    <2> QED BY <2>6, <2>8, <2>10 DEF ExportInv
  <1>3. CASE Convert
    <2>1. PICK backed \in BOOLEAN :
            /\ op' = [id |-> begun + 1, of |-> shown, backed |-> backed, outcome |-> "none",
                      writing |-> FALSE, committing |-> FALSE, aborted |-> FALSE]
            /\ IF backed
               THEN /\ \E phase \in {"picking", "comparing"} :
                         file' = [NoSink EXCEPT !.phase = phase]
                    /\ UNCHANGED workVars
               ELSE Starts /\ UNCHANGED file
      BY <1>3 DEF Convert
    <2>2. /\ ~Busy /\ begun \in Nat /\ begun' = begun + 1 /\ token' = begun + 1
          /\ conversion' = [state |-> "working", of |-> begun + 1]
          /\ UNCHANGED <<shown, downloads, disk, resident>>
          /\ shown \in Nat /\ resident \in Nat
      BY <1>0, <1>3 DEF Convert, documentVars, ShapesInv
    <2>3. /\ file = NoSink /\ ~Active /\ exporter.state = "off" /\ posts = <<>>
          /\ request = "none" /\ exporter \in Exporters
          /\ disk \in Entries /\ disk.kind # "unread"
      BY <1>0, <2>2 DEF ShapesInv, SinkInv, IsSink, WorkInv, DiskInv, Active
    <2>4. /\ disk.by \in 0 .. begun /\ disk.by # begun + 1 /\ disk' \in Entries'
      BY <2>2, <2>3 DEF Entries
    <2>5. /\ op' \in Operations' /\ op'.id = begun + 1 /\ op'.of = shown
          /\ op'.backed = backed /\ op'.outcome = "none" /\ ~op'.writing /\ ~op'.committing
      BY <2>1, <2>2 DEF Operations
    <2>6. Busy' /\ Active'
      BY <2>2, <2>5 DEF Busy, Active, NoOperation, Operations
    <2>7. NoTarget \in Entries'
      BY <2>2 DEF NoTarget, Disk, Entries
    <2>8. /\ file' \in Sinks' /\ file'.io = "none" /\ file'.chunks = 0 /\ ~file'.created
          /\ ~file'.removing /\ ~file'.refused
          /\ file'.phase \in {"none", "picking", "comparing"}
          /\ file'.phase = "none" => file' = NoSink
          /\ file'.phase # "none" <=> backed
      <3> HIDE DEF Entries
      <3>1. CASE backed
        <4>1. PICK phase \in {"picking", "comparing"} : file' = [NoSink EXCEPT !.phase = phase]
          BY <2>1, <3>1
        <4> QED BY <2>7, <3>1, <4>1 DEF NoSink, Sinks
      <3>2. CASE ~backed
        <4>1. file' = NoSink
          BY <2>1, <2>3, <3>2
        <4>2. /\ NoSink \in Sinks' /\ NoSink.io = "none" /\ NoSink.chunks = 0
              /\ ~NoSink.created /\ NoSink.phase = "none"
              /\ ~NoSink.removing /\ ~NoSink.refused
          BY <2>7 DEF NoSink, Sinks
        <4> QED BY <3>2, <4>1, <4>2
      <3> QED BY <3>1, <3>2
    <2>9. IsSink(file')
      BY <2>8 DEF IsSink
    <2>10. /\ exporter' \in Exporters /\ posts' = <<>>
           /\ backed => exporter'.state = "off" /\ request' = "none"
           /\ ~backed => exporter'.state = "waiting" /\ exporter'.posted = 0
      <3>1. CASE backed
        BY <2>1, <2>3, <3>1 DEF workVars
      <3>2. CASE ~backed
        BY <2>1, <2>3, <3>2 DEF Starts, Exporters
      <3> QED BY <3>1, <3>2
    <2>11. conversion' \in Conversions'
      BY <2>2 DEF Conversions
    <2>12. ShapesInv'
      BY <2>2, <2>3, <2>4, <2>5, <2>8, <2>10, <2>11 DEF ShapesInv, Exporters
    <2>13. SinkInv'
      BY <2>5, <2>6, <2>8, <2>9 DEF SinkInv
    <2>14. WorkInv'
      BY <2>5, <2>6, <2>8, <2>10 DEF WorkInv
    <2>15. TokenInv'
      BY <2>2, <2>5, <2>6, <2>8 DEF TokenInv, Current
    <2>16. DiskInv'
      <3>1. downloads \subseteq 1 .. begun
        BY <1>0 DEF DiskInv
      <3>2. downloads' \subseteq 1 .. begun' /\ begun + 1 \notin downloads'
        BY <2>2, <3>1
      <3>3. Owned(file, disk)'
        BY <2>2, <2>4, <2>5, <2>8 DEF Owned, Placeholder, Disk
      <3> QED BY <1>0, <2>2, <2>4, <2>5, <3>2, <3>3 DEF DiskInv
    <2>17. PublishedIsTold'
      BY <1>0, <2>2, <2>5, <2>6 DEF PublishedIsTold, Whole
    <2> QED BY <2>12, <2>13, <2>14, <2>15, <2>16, <2>17 DEF ExportInv
  <1> QED BY <1>1, <1>2, <1>3

---------------------------------------------------------------------------
(* The invariant of every export, and what follows.                         *)

LEMMA ExportStarts == ExportInit => ExportInv
  <1> SUFFICES ASSUME ExportInit PROVE ExportInv
    OBVIOUS
  <1>1. /\ shown = 1 /\ resident = 1 /\ begun = 0 /\ token = 0 /\ downloads = {}
        /\ conversion = [state |-> "closed", of |-> 0] /\ op = NoOperation
        /\ file = NoSink /\ exporter = NoExporter /\ posts = <<>> /\ request = "none"
        /\ disk \in Entries /\ disk.kind \in {"absent", "other"} /\ disk.by = 0
    BY DEF ExportInit, NoFile, Disk, Entries
  <1>2. ~Busy /\ ~Active
    BY <1>1 DEF Busy, Active
  <1>3. NoSink \in Sinks /\ IsSink(NoSink) /\ NoSink.io = "none" /\ NoSink.phase = "none"
    BY <1>1 DEF NoSink, NoTarget, Disk, Sinks, Entries, IsSink
  <1>4. ShapesInv
    BY <1>1, <1>3, NothingRuns DEF ShapesInv, Conversions
  <1>5. SinkInv /\ WorkInv
    BY <1>1, <1>2, <1>3, NothingRuns DEF SinkInv, WorkInv
  <1>6. Owned(file, disk)
    BY <1>1, <1>2 DEF Owned, NoSink
  <1>7. TokenInv /\ DiskInv /\ PublishedIsTold
    BY <1>1, <1>2, <1>3, <1>6 DEF TokenInv, DiskInv, PublishedIsTold, Current, Whole
  <1> QED BY <1>4, <1>5, <1>7 DEF ExportInv

LEMMA ExportKept == ExportInv /\ [ExportNext]_exportVars => ExportInv'
  <1>1. ASSUME ExportInv, UNCHANGED exportVars PROVE ExportInv'
    <2>1. /\ UNCHANGED <<shown, conversion, token, begun, downloads, op, file, prompt, disk>>
          /\ UNCHANGED <<request, exporter, posts, resident, change>>
      BY <1>1 DEF exportVars, pageVars, fileVars, workVars, documentVars
    <2>2. (Busy' <=> Busy) /\ (Active' <=> Active)
      BY <2>1 DEF Busy, Active
    <2> QED BY <1>1, <2>1, <2>2
            DEF ExportInv, ShapesInv, Operations, Entries, Sinks, Conversions, Exporters,
                SinkInv, WorkInv, TokenInv, DiskInv, Owned, PublishedIsTold, Current
  <1>2. ASSUME ExportInv, ExportNext PROVE ExportInv'
    BY <1>2, UserKeeps, DocumentKeeps, AcquisitionKeeps, WorkerKeeps, HearingKeeps, WriteKeeps,
       CloseKeeps, CleanUpKeeps DEF ExportNext, FileSystem
  <1> QED BY <1>1, <1>2

LEMMA ExportHolds == ExportSpec => []ExportInv
  BY ExportStarts, ExportKept, PTL DEF ExportSpec

(* Whatever fails, is cancelled or races, in every run with any number of   *)
(* exports, revisions and chunks, the panel says of an export what became   *)
(* of it: nothing of a failed one was published or handed over (at most its *)
(* empty placeholder is under the name), and a saved one was published      *)
(* whole.                                                                   *)
THEOREM ExportsAreToldTruly == ExportSpec => []PublishedIsTold
  <1>1. ExportInv => PublishedIsTold
    BY DEF ExportInv
  <1> QED BY <1>1, ExportHolds, PTL

(* What a step may do to the file under the name.                           *)
LEMMA DiskChanges ==
    ASSUME ExportNext
    PROVE  \/ disk' = disk \/ disk = NoFile \/ disk'.kind \in {"foreign", "saved"}
           \/ file.removing /\ disk' = NoFile
  <1>1. CASE Acquisition \/ AnswersPrompt
    BY <1>1 DEF Acquisition, PickerCloses, AcquisitionFails, AcquisitionThrows,
                AcquisitionDeclined, Rejects, Compares, LooksAgain, MakesFile, OwnsPlaceholder,
                Locks, AnswersPrompt
  <1>2. CASE OtherProgram \/ FileSystem
    BY <1>2 DEF OtherProgram, FileSystem, WriteEnds, WriteFails, CloseEnds, CloseFails, Disk
  <1>3. CASE CleansUp
    BY <1>3 DEF CleansUp, FindsPlaceholder, EndsAbort, Resolves
  <1>4. CASE GeometryAnswers \/ SnapshotAnswered \/ Exporter \/ ExporterCrashes
    BY <1>4 DEF GeometryAnswers, SendsSnapshot, RefusesSnapshot, SnapshotAnswered, Exporter,
                PostsChunk, PostsReady, PostsBytes, PostsFailure, Posts, ExporterCrashes, fileVars
  <1>5. CASE HearsExporter
    BY <1>5 DEF HearsExporter, HearsChunk, HearsReady, HearsBytes, HearsFailure, fileVars
  <1>6. CASE OpenConversion \/ Convert \/ Cancel
    BY <1>6 DEF OpenConversion, Convert, Cancel, fileVars
  <1>7. CASE ChangeBegins \/ ChangeMade \/ ChangeShown \/ DocumentReplaced \/ GeometryLost
    BY <1>7 DEF ChangeBegins, ChangeMade, ChangeShown, DocumentReplaced, GeometryLost, fileVars
  <1> QED BY <1>1, <1>2, <1>3, <1>4, <1>5, <1>6, <1>7 DEF ExportNext

(* A file of another program or of an earlier export is only replaced, by   *)
(* another program or by a whole export, and no clean-up removes it, except *)
(* one written between the clean-up's look and its removal.                 *)
THEOREM ExportsTouchOnlyTheirOwn == ExportSpec => TouchesOnlyItsOwn
  <1> DEFINE Kept == disk.kind \in {"other", "foreign", "saved"} /\ disk' # disk =>
                       \/ disk'.kind \in {"foreign", "saved"}
                       \/ disk.kind = "foreign" /\ file.late /\ disk' = NoFile
  <1>1. ExportInv /\ [ExportNext]_exportVars => [Kept]_exportVars
    <2> SUFFICES ASSUME ExportInv, ExportNext PROVE Kept
      OBVIOUS
    <2>1. file.removing => disk.kind = "placeholder" \/ (disk.kind = "foreign" /\ file.late)
      BY DEF ExportInv, DiskInv, Owned, Placeholder, Disk
    <2>2. disk = NoFile => disk.kind = "absent"
      BY DEF NoFile, Disk
    <2> QED BY <2>1, <2>2, DiskChanges
  <1> QED BY <1>1, ExportHolds, PTL DEF ExportSpec, TouchesOnlyItsOwn

(* An operation only ends when its file was published, or when it has no    *)
(* destination, or no longer has one, and nothing is done to the disk.      *)
LEMMA OperationEnds ==
    ASSUME ExportInv, ExportNext, Busy, op' = NoOperation
    PROVE  \/ disk'.kind = "saved"
           \/ UNCHANGED disk /\ file.phase \in {"none", "gone"}
  <1>0. ~SameOperation /\ op' # op /\ op.id # 0 /\ op \in Operations
    BY BusyOperations DEF SameOperation, Busy, ExportInv
  <1>1. ~StopExport /\ \A o \in Outcomes : ~Failed(o) /\ ~(Active /\ Settle(o))
    BY <1>0, StopEffect, FailedEffect, SettleEffect DEF ExportInv
  <1>2. \A w, c \in BOOLEAN : \A o \in {"failed"} :
          /\ [op EXCEPT !.writing = w].id = op.id
          /\ [op EXCEPT !.committing = c].id = op.id
          /\ [op EXCEPT !.outcome = o].id = op.id
    BY <1>0 DEF Operations
  <1>3. NoOperation.id = 0
    BY DEF NoOperation
  <1>4. CASE Acquisition \/ AnswersPrompt
    <2>1. ~(\E o \in Outcomes : Rejects(o)) /\ ~Acquires
      BY <1>0, <1>1 DEF Rejects, Acquires
    <2>2. CASE Locks
      BY <1>0, <1>1, <2>2 DEF Locks, Outcomes
    <2> QED BY <1>4, <2>1, <2>2
            DEF Acquisition, PickerCloses, AcquisitionFails, AcquisitionThrows,
                AcquisitionDeclined, Compares, LooksAgain, MakesFile, OwnsPlaceholder,
                AnswersPrompt, Outcomes
  <1>5. CASE OtherProgram \/ OpenConversion \/ ChangeBegins \/ ChangeMade \/ Convert
    BY <1>0, <1>5 DEF OtherProgram, OpenConversion, ChangeBegins, ChangeMade, Convert
  <1>6. CASE Cancel \/ ChangeShown \/ DocumentReplaced \/ GeometryLost
    BY <1>1, <1>6 DEF Cancel, ChangeShown, DocumentReplaced, GeometryLost, Outcomes
  <1>7. CASE GeometryAnswers \/ SnapshotAnswered \/ Exporter \/ ExporterCrashes
    BY <1>0, <1>1, <1>7
       DEF GeometryAnswers, SendsSnapshot, RefusesSnapshot, SnapshotAnswered, Exporter,
           PostsChunk, PostsReady, PostsBytes, PostsFailure, Posts, ExporterCrashes, Outcomes
  <1>8. CASE HearsChunk \/ HearsReady \/ HearsFailure
    <2>1. Active
      BY <1>8, Heard DEF HearsChunk, HearsReady, HearsFailure
    <2> QED BY <1>0, <1>1, <1>2, <1>3, <1>8, <2>1
            DEF HearsChunk, HearsReady, HearsFailure, Outcomes
  <1>9. CASE HearsBytes
    <2>1. Active /\ ~op.backed
      BY <1>9, Heard DEF HearsBytes
    <2>2. file.phase = "none"
      BY <2>1 DEF ExportInv, SinkInv, Active
    <2> QED BY <1>9, <2>2 DEF HearsBytes
  <1>10. CASE WriteEnds \/ WriteFails \/ CloseFails
    BY <1>0, <1>1, <1>2, <1>3, <1>10 DEF WriteEnds, WriteFails, CloseFails, Outcomes
  <1>11. CASE CloseEnds
    BY <1>11 DEF CloseEnds, Disk
  <1>12. CASE CleansUp
    <2>1. CASE Resolves
      BY <2>1 DEF Resolves
    <2>2. CASE FindsPlaceholder
      BY <1>0, <2>2 DEF FindsPlaceholder
    <2>3. CASE EndsAbort
      BY <1>0, <1>1, <1>2, <1>3, <2>3 DEF EndsAbort, Outcomes
    <2> QED BY <1>12, <2>1, <2>2, <2>3 DEF CleansUp
  <1> QED BY <1>4, <1>5, <1>6, <1>7, <1>8, <1>9, <1>10, <1>11, <1>12
          DEF ExportNext, HearsExporter, FileSystem

(* However an export ends and whatever else touches the file, its empty     *)
(* placeholder only stays when the file system refused to say what it had   *)
(* made, or refused the clean-up its look or the removal.                   *)
THEOREM ExportsLeaveNoPlaceholder == ExportSpec => LeavesNoPlaceholder
  <1>1. ASSUME ExportInv, ExportNext, Busy, op' = NoOperation, disk' = Placeholder(op.id)
        PROVE  file.refused
    <2>1. disk'.kind # "saved"
      BY <1>1 DEF Placeholder, Disk
    <2>2. disk = Placeholder(op.id) /\ file.phase \in {"none", "gone"}
      BY <1>1, <2>1, OperationEnds
    <2> QED BY <1>1, <2>2 DEF ExportInv, DiskInv, Owned, SinkInv, IsSink
  <1>2. ExportInv /\ [ExportNext]_exportVars =>
          [Busy /\ op' # op /\ op' = NoOperation /\ disk' = Placeholder(op.id)
           => file.refused]_exportVars
    BY <1>1
  <1> QED BY <1>2, ExportHolds, PTL DEF ExportSpec, LeavesNoPlaceholder

(* Only the message that the file is ready begins its commit, and only the  *)
(* bytes of a small document are handed over.                               *)
LEMMA PublishingBegins ==
    ASSUME ExportInv, ExportNext,
           (file.io # "closing" /\ file'.io = "closing") \/ downloads' # downloads
    PROVE  Current /\ (HearsReady \/ HearsBytes)
  <1>0. file \in Sinks
    BY DEF ExportInv, ShapesInv
  <1> HIDE DEF Entries
  <1>1. /\ NoSink.io # "closing" /\ \A phase : [NoSink EXCEPT !.phase = phase].io # "closing"
        /\ SelectsAgain.io # "closing"
    BY DEF NoSink, SelectsAgain
  <1>3. \A io \in {"none", "writing"} :
          /\ [file EXCEPT !.io = io].io = io
          /\ \A n : [file EXCEPT !.io = io, !.chunks = n].io = io
          /\ \A b : [file EXCEPT !.io = io, !.created = b].io = io
    BY <1>0 DEF Sinks
  <1>2. /\ \A p : file' = [file EXCEPT !.phase = p] => file'.io = file.io
        /\ \A p, t : file' = [file EXCEPT !.phase = p, !.target = t] => file'.io = file.io
        /\ \A p, c : file' = [file EXCEPT !.phase = p, !.created = c] => file'.io = file.io
        /\ \A p, r : file' = [file EXCEPT !.phase = p, !.refused = r] => file'.io = file.io
        /\ \A r : file' = [file EXCEPT !.phase = "gone", !.created = FALSE,
                                      !.removing = FALSE, !.refused = r] => file'.io = file.io
        /\ \A m : file' = [file EXCEPT !.removing = m] => file'.io = file.io
        /\ \A l : file' = [file EXCEPT !.late = l] => file'.io = file.io
    BY <1>0 DEF Sinks
  <1>4. CASE Acquisition \/ AnswersPrompt
    <2>1. UNCHANGED downloads
      BY <1>4 DEF Acquisition, PickerCloses, AcquisitionFails, AcquisitionThrows,
                  AcquisitionDeclined, AnswersPrompt, Compares, LooksAgain, MakesFile,
                  OwnsPlaceholder, Locks, Rejects, Acquires, pageVars
    <2>2. \/ \E p : file' = [file EXCEPT !.phase = p]
          \/ \E p, t : file' = [file EXCEPT !.phase = p, !.target = t]
          \/ \E p, c : file' = [file EXCEPT !.phase = p, !.created = c]
          \/ \E p, r : file' = [file EXCEPT !.phase = p, !.refused = r]
          \/ file' = SelectsAgain
      <3>1. CASE Compares
        BY <3>1 DEF Compares
      <3>2. CASE AnswersPrompt
        BY <3>2 DEF AnswersPrompt
      <3>3. CASE LooksAgain \/ MakesFile \/ OwnsPlaceholder
        BY <3>3 DEF LooksAgain, MakesFile, OwnsPlaceholder
      <3>4. CASE Locks \/ PickerCloses \/ AcquisitionFails \/ AcquisitionDeclined
        BY <3>4 DEF Locks, PickerCloses, AcquisitionFails, AcquisitionDeclined, Rejects
      <3>5. CASE AcquisitionThrows
        BY <3>5 DEF AcquisitionThrows
      <3> QED BY <1>4, <3>1, <3>2, <3>3, <3>4, <3>5 DEF Acquisition
    <2>3. CASE file' = SelectsAgain
      BY <1>1, <2>1, <2>3
    <2>4. CASE file' # SelectsAgain
      BY <1>2, <2>1, <2>2, <2>4
    <2> QED BY <2>3, <2>4
  <1>5. CASE WriteEnds \/ WriteFails \/ CloseFails
    <2>1. CASE WriteEnds
      <3>1. file' = [file EXCEPT !.io = "none", !.chunks = file.chunks + 1]
        BY <2>1 DEF WriteEnds
      <3>2. file'.io = "none"
        BY <1>3, <3>1
      <3> QED BY <2>1, <3>2 DEF WriteEnds, pageVars
    <2>2. CASE WriteFails \/ CloseFails
      <3>1. file' = [file EXCEPT !.io = "none"] /\ UNCHANGED downloads
        BY <2>2 DEF WriteFails, CloseFails, pageVars
      <3>2. file'.io = "none"
        BY <1>3, <3>1
      <3> QED BY <3>1, <3>2
    <2> QED BY <1>5, <2>1, <2>2
  <1>6. CASE CloseEnds \/ CleansUp
    <2>1. UNCHANGED downloads
      BY <1>6 DEF CloseEnds, CleansUp, FindsPlaceholder, EndsAbort, Resolves, pageVars
    <2>2. CASE CloseEnds \/ Resolves
      <3>1. file' = NoSink \/ file' = [file EXCEPT !.io = "none", !.created = FALSE]
        BY <2>2 DEF CloseEnds, Resolves, Succeed, Resolve
      <3>2. [file EXCEPT !.io = "none", !.created = FALSE].io = "none"
        BY <1>3
      <3> QED BY <1>1, <2>1, <3>1, <3>2
    <2>3. CASE FindsPlaceholder
      BY <1>2, <2>1, <2>3 DEF FindsPlaceholder
    <2>4. CASE EndsAbort
      <3>1. \/ file' = SelectsAgain
            \/ \E r : file' = [file EXCEPT !.phase = "gone", !.created = FALSE,
                                           !.removing = FALSE, !.refused = r]
        BY <2>4 DEF EndsAbort
      <3>2. CASE file' = SelectsAgain
        BY <1>1, <2>1, <3>2
      <3>3. CASE file' # SelectsAgain
        BY <1>2, <2>1, <3>1, <3>3
      <3> QED BY <3>2, <3>3
    <2> QED BY <1>6, <2>2, <2>3, <2>4 DEF CleansUp
  <1>7. CASE GeometryAnswers \/ SnapshotAnswered \/ Exporter \/ ExporterCrashes
    BY <1>7 DEF GeometryAnswers, SendsSnapshot, RefusesSnapshot, SnapshotAnswered, Exporter,
                PostsChunk, PostsReady, PostsBytes, PostsFailure, Posts, ExporterCrashes,
                fileVars, pageVars
  <1>8. CASE HearsChunk \/ HearsFailure
    BY <1>3, <1>8 DEF HearsChunk, HearsFailure, fileVars, pageVars
  <1>9. CASE HearsReady \/ HearsBytes
    BY <1>9 DEF HearsReady, HearsBytes, pageVars
  <1>10. CASE OpenConversion \/ Convert \/ OtherProgram \/ ChangeBegins \/ ChangeMade
    <2>1. CASE Convert
      BY <1>1, <2>1 DEF Convert
    <2> QED BY <1>2, <1>10, <2>1
            DEF OpenConversion, OtherProgram, ChangeBegins, ChangeMade, fileVars, pageVars
  <1>11. CASE Cancel \/ ChangeShown \/ DocumentReplaced \/ GeometryLost
    <2>1. downloads' = downloads
      BY <1>11 DEF Cancel, ChangeShown, DocumentReplaced, GeometryLost, pageVars
    <2>2. UNCHANGED file \/ file' = [file EXCEPT !.phase = "declined"]
      BY <1>11 DEF Cancel, ChangeShown, DocumentReplaced, GeometryLost, StopExport
    <2> QED BY <1>2, <2>1, <2>2
  <1> QED BY <1>4, <1>5, <1>6, <1>7, <1>8, <1>9, <1>10, <1>11
          DEF ExportNext, HearsExporter, FileSystem

(* However commits of other tools, other documents and lost sessions race   *)
(* an export, no file is committed and no download handed over of a         *)
(* revision that is not the one on the screen.                              *)
THEOREM ExportsPublishWhatIsShown == ExportSpec => PublishesWhatIsShown
  <1> DEFINE Shown == ((file.io # "closing" /\ file'.io = "closing") \/ downloads' # downloads)
                         => op.of = shown
  <1>1. ExportInv /\ [ExportNext]_exportVars => [Shown]_exportVars
    <2> SUFFICES ASSUME ExportInv, ExportNext,
                        (file.io # "closing" /\ file'.io = "closing") \/ downloads' # downloads
                 PROVE  op.of = shown
      OBVIOUS
    <2>1. Current /\ (HearsReady \/ HearsBytes)
      BY PublishingBegins
    <2>2. ~op.committing
      BY <2>1, Heard DEF HearsReady, HearsBytes
    <2> QED BY <2>1, <2>2 DEF ExportInv, TokenInv
  <1> QED BY <1>1, ExportHolds, PTL DEF ExportSpec, PublishesWhatIsShown
-----------------------------------------------------------------------------
(* The eviction of undo records. One trimming.                              *)

LEMMA ScanEnds ==
    ASSUME NEW h, NEW S, h.order \in Seq(S), NEW excess
    PROVE  LET end == ScanEnd(h, excess) IN
           /\ end \in 0 .. Len(h.order)
           /\ end = Len(h.order) \/ Cardinality(SpentUpTo(h, end)) = excess
           /\ \A i \in 0 .. Len(h.order) :
                i < end => Cardinality(SpentUpTo(h, i)) # excess
  <1> DEFINE reached == {i \in 0 .. Len(h.order) : Cardinality(SpentUpTo(h, i)) = excess}
             end == ScanEnd(h, excess)
  <1>1. Len(h.order) \in Nat
    BY LenProperties
  <1>2. CASE reached = {}
    <2>1. end = Len(h.order)
      BY <1>2 DEF ScanEnd
    <2> HIDE DEF end
    <2>2. \A i \in 0 .. Len(h.order) : Cardinality(SpentUpTo(h, i)) # excess
      BY <1>2
    <2> QED BY <1>1, <2>1, <2>2 DEF end
  <1>3. CASE reached # {}
    <2>1. end = CHOOSE i \in reached : \A j \in reached : i <= j
      BY <1>3 DEF ScanEnd
    <2>2. reached \in SUBSET Nat
      BY <1>1
    <2> HIDE DEF end
    <2>3. \E i \in reached : \A j \in reached : i <= j
      <3> HIDE DEF reached
      <3> QED BY <1>3, <2>2, LeastNatural
    <2>4. end \in reached /\ \A j \in reached : end <= j
      <3> HIDE DEF reached
      <3> QED BY <2>1, <2>3
    <2> QED BY <1>1, <2>4 DEF end
  <1> QED BY <1>2, <1>3

(* The places of the list, or of its part that is scanned, whose record is  *)
(* kept.                                                                    *)
KeptUpTo(h, i) == (1 .. i) \ SpentUpTo(h, i)

LEMMA SpentAndKept ==
    ASSUME NEW h, NEW n \in Nat
    PROVE  /\ SpentUpTo(h, n) \in SUBSET (1 .. n) /\ KeptUpTo(h, n) \in SUBSET (1 .. n)
           /\ Cardinality(SpentUpTo(h, n)) \in Nat /\ Cardinality(KeptUpTo(h, n)) \in Nat
           /\ Cardinality(SpentUpTo(h, n)) + Cardinality(KeptUpTo(h, n)) = n
           /\ KeptUpTo(h, n) = {j \in 1 .. n : IsUndoable(h, h.order[j])}
  <1> DEFINE X == SpentUpTo(h, n)
             K == KeptUpTo(h, n)
  <1>1. X \in SUBSET (1 .. n) /\ K = (1 .. n) \ X /\ K \in SUBSET (1 .. n)
    BY DEF SpentUpTo, KeptUpTo
  <1>2. K = {j \in 1 .. n : IsUndoable(h, h.order[j])}
    BY DEF KeptUpTo, SpentUpTo
  <1> HIDE DEF X, K
  <1>3. IsFiniteSet(1 .. n) /\ Cardinality(1 .. n) = n
    BY FS_Interval
  <1>4. (1 .. n) \cap X = X
    BY <1>1
  <1>5. Cardinality(K) = n - Cardinality(X)
    <2>1. Cardinality((1 .. n) \ X) = Cardinality(1 .. n) - Cardinality((1 .. n) \cap X)
      BY <1>3, FS_Difference, Zenon
    <2> QED BY <1>1, <1>3, <1>4, <2>1
  <1>6. Cardinality(X) \in Nat /\ Cardinality(K) \in Nat
    BY <1>1, Subsets
  <1> QED BY <1>1, <1>2, <1>5, <1>6 DEF X, K

(* The places, in a list of L entries whose first end are scanned, of what  *)
(* is left when the entries at the places K are moved behind the others.    *)
PlaceLeft(L, end, K, i) == IF i <= L - end THEN end + i ELSE PlaceOf(K, i - (L - end))

Rotates(S, s, L, end, X, K, C, o) ==
    /\ s \in Seq(S) /\ L \in Nat /\ Len(s) = L /\ end \in 0 .. L
    /\ K \in SUBSET (1 .. end) /\ X = (1 .. end) \ K
    /\ C \in Nat /\ Cardinality(K) = C
    /\ o = SubSeq(s, end + 1, Len(s)) \o EntriesAt(s, K)

(* o are the entries of s that are not at the places X, each once.          *)
IsLeft(S, s, L, end, X, K, C, o) ==
    /\ o \in Seq(S) /\ Len(o) = (L - end) + C
    /\ \A i \in 1 .. Len(o) :
         /\ PlaceLeft(L, end, K, i) \in (1 .. L) \ X
         /\ o[i] = s[PlaceLeft(L, end, K, i)]
    /\ \A j \in (1 .. L) \ X : \E i \in 1 .. Len(o) : PlaceLeft(L, end, K, i) = j
    /\ \A i, j \in 1 .. Len(o) :
         PlaceLeft(L, end, K, i) = PlaceLeft(L, end, K, j) => i = j

LEMMA Rotated ==
    ASSUME NEW S, NEW s, NEW L, NEW end, NEW X, NEW K, NEW C, NEW o,
           Rotates(S, s, L, end, X, K, C, o)
    PROVE  IsLeft(S, s, L, end, X, K, C, o)
  <1>0. /\ s \in Seq(S) /\ L \in Nat /\ Len(s) = L /\ end \in 0 .. L
        /\ K \in SUBSET (1 .. end) /\ X = (1 .. end) \ K
        /\ C \in Nat /\ Cardinality(K) = C
        /\ o = SubSeq(s, end + 1, Len(s)) \o EntriesAt(s, K)
    BY DEF Rotates
  <1>1. PICK rest \in Nat : rest = L - end
    BY <1>0
  <1>2. PICK tail : tail = SubSeq(s, end + 1, Len(s))
    BY <1>0
  <1>3. PICK kept : kept = EntriesAt(s, K)
    BY <1>0
  <1>4. o = tail \o kept
    BY <1>0, <1>2, <1>3
  <1> DEFINE at(i) == IF i <= rest THEN end + i ELSE PlaceOf(K, i - rest)
  <1>5. tail \in Seq(S) /\ Len(tail) = rest
        /\ \A i \in 1 .. rest : tail[i] = s[end + i]
    <2>1. \A i \in end + 1 .. L : s[i] \in S
      <3>1. \A i \in end + 1 .. L : i \in 1 .. Len(s)
        BY <1>0
      <3> QED BY <1>0, <3>1, ElementOfSeq
    <2> QED BY <1>0, <1>1, <1>2, <2>1, SubSeqProperties
  <1>6. kept \in Seq(S) /\ Len(kept) = C
        /\ \A r \in 1 .. C : kept[r] = s[PlaceOf(K, r)]
    <2>1. K \in SUBSET (1 .. Len(s))
      BY <1>0
    <2> QED BY <1>0, <1>3, <2>1, EntriesInOrder
  <1>7. o \in Seq(S) /\ Len(o) = rest + C
        /\ \A i \in 1 .. rest + C : o[i] = IF i <= rest THEN tail[i] ELSE kept[i - rest]
    <2>1. /\ tail \o kept \in Seq(S) /\ Len(tail \o kept) = Len(tail) + Len(kept)
          /\ \A i \in 1 .. Len(tail) + Len(kept) :
               (tail \o kept)[i] = IF i <= Len(tail) THEN tail[i] ELSE kept[i - Len(tail)]
      BY <1>0, <1>5, <1>6, ConcatProperties, Zenon
    <2> QED BY <1>0, <1>4, <1>5, <1>6, <2>1
  <1>8. /\ \A i \in K : Rank(K, i) \in 1 .. C /\ PlaceOf(K, Rank(K, i)) = i
        /\ \A r \in 1 .. C : PlaceOf(K, r) \in K /\ Rank(K, PlaceOf(K, r)) = r
    <2>1. end \in Nat
      BY <1>0
    <2> QED BY <1>0, <2>1, PlacesInOrder
  <1>9. ASSUME NEW i \in 1 .. rest + C
        PROVE  at(i) \in (1 .. L) \ X /\ o[i] = s[at(i)]
    <2>1. CASE i <= rest
      <3>1. i \in 1 .. rest /\ at(i) = end + i /\ end + i \in (1 .. L) \ (1 .. end)
        BY <1>0, <1>1, <2>1
      <3> QED BY <1>0, <1>5, <1>7, <2>1, <3>1
    <2>2. CASE ~(i <= rest)
      <3>1. i - rest \in 1 .. C /\ at(i) = PlaceOf(K, i - rest)
        BY <1>0, <1>1, <2>2
      <3>2. at(i) \in K /\ o[i] = s[at(i)]
        BY <1>0, <1>6, <1>7, <1>8, <2>2, <3>1
      <3>3. \A k \in K : k \in (1 .. L) \ X
        BY <1>0
      <3> HIDE DEF at
      <3> QED BY <3>2, <3>3
    <2> QED BY <2>1, <2>2
  <1>10. ASSUME NEW j \in (1 .. L) \ X PROVE \E i \in 1 .. rest + C : at(i) = j
    <2>1. CASE j \in K
      <3>1. PICK r \in 1 .. C : PlaceOf(K, r) = j
        BY <1>0, <1>8, <2>1
      <3>2. rest + r \in 1 .. rest + C /\ ~(rest + r <= rest) /\ (rest + r) - rest = r
        BY <1>0, <1>1, <3>1
      <3> QED BY <3>1, <3>2
    <2>2. CASE j \notin K
      <3>1. j \in 1 .. L /\ j \notin 1 .. end
        BY <1>0, <2>2
      <3>2. j - end \in 1 .. rest + C /\ j - end <= rest /\ end + (j - end) = j
        BY <1>0, <1>1, <3>1
      <3> QED BY <1>0, <3>2
    <2> QED BY <2>1, <2>2
  <1>11. ASSUME NEW i \in 1 .. rest + C, NEW j \in 1 .. rest + C, at(i) = at(j) PROVE i = j
    <2>1. \A k \in 1 .. rest + C : k <= rest => at(k) = end + k /\ end + k \notin K
      BY <1>0, <1>1
    <2>2. \A k \in 1 .. rest + C :
            ~(k <= rest) => at(k) \in K /\ Rank(K, at(k)) = k - rest
      <3> SUFFICES ASSUME NEW k \in 1 .. rest + C, ~(k <= rest)
                   PROVE  at(k) \in K /\ Rank(K, at(k)) = k - rest
        BY <1>0
      <3>1. k - rest \in 1 .. C
        BY <1>0
      <3> QED BY <1>0, <1>8, <3>1
    <2> HIDE DEF at
    <2> QED BY <1>0, <1>11, <2>1, <2>2
  <1>12. \A i : at(i) = PlaceLeft(L, end, K, i)
    BY <1>0, <1>1 DEF PlaceLeft
  <1> HIDE DEF at
  <1> QED BY <1>1, <1>7, <1>9, <1>10, <1>11, <1>12 DEF IsLeft

(* A list that names every record, once.                                    *)
EachListed(h) ==
    /\ DOMAIN h = {"records", "undoable", "order"}
    /\ h.order \in Seq(DOMAIN h.records)
    /\ \A key \in DOMAIN h.records : \E i \in 1 .. Len(h.order) : h.order[i] = key
    /\ \A i, j \in 1 .. Len(h.order) : h.order[i] = h.order[j] => i = j

LEMMA TrimmedList ==
    ASSUME NEW h, EachListed(h)
    PROVE  LET t == Trim(h) IN
           /\ EachListed(t) /\ t.undoable = h.undoable
           /\ \A key \in DOMAIN t.records :
                key \in DOMAIN h.records /\ t.records[key] = h.records[key]
           /\ \A key \in DOMAIN h.records : IsUndoable(h, key) => key \in DOMAIN t.records
           /\ \/ Len(t.order) <= MaxDescriptors
              \/ \A i \in 1 .. Len(t.order) : IsUndoable(h, t.order[i])
  <1>1. CASE Len(h.order) <= MaxDescriptors
    <2>1. Trim(h) = h
      BY <1>1 DEF Trim
    <2> QED BY <1>1, <2>1
  <1>2. CASE ~(Len(h.order) <= MaxDescriptors)
    <2>1. h.order \in Seq(DOMAIN h.records)
      BY DEF EachListed
    <2>2. PICK L \in Nat : L = Len(h.order)
      BY <2>1, LenProperties
    <2>3. PICK end \in 0 .. L :
            /\ end = ScanEnd(h, L - MaxDescriptors)
            /\ end = L \/ Cardinality(SpentUpTo(h, end)) = L - MaxDescriptors
      BY <2>1, <2>2, ScanEnds
    <2>4. PICK X, K : X = SpentUpTo(h, end) /\ K = KeptUpTo(h, end)
      OBVIOUS
    <2>5. PICK C \in Nat : C = Cardinality(K)
      BY <2>4, SpentAndKept
    <2>6. /\ K \in SUBSET (1 .. end) /\ X = (1 .. end) \ K /\ K = (1 .. end) \ X
          /\ Cardinality(X) + C = end /\ Cardinality(X) \in Nat
          /\ K = {j \in 1 .. end : IsUndoable(h, h.order[j])}
      BY <2>4, <2>5, SpentAndKept DEF KeptUpTo
    <2>7. PICK o : o = SubSeq(h.order, end + 1, Len(h.order)) \o EntriesAt(h.order, K)
      OBVIOUS
    <2>8. PICK evicted : evicted = {h.order[j] : j \in X}
      OBVIOUS
    <2>9. PICK t : t = Trim(h)
      OBVIOUS
    <2>10. /\ t.order = o /\ t.undoable = h.undoable
           /\ DOMAIN t = {"records", "undoable", "order"}
           /\ t.records = [key \in DOMAIN h.records \ evicted |-> h.records[key]]
      BY <1>2, <2>2, <2>3, <2>4, <2>7, <2>8, <2>9 DEF Trim, EachListed, KeptUpTo
    <2> DEFINE at(i) == PlaceLeft(L, end, K, i)
    <2>11. /\ o \in Seq(DOMAIN h.records) /\ Len(o) = (L - end) + C
           /\ \A i \in 1 .. Len(o) : at(i) \in (1 .. L) \ X /\ o[i] = h.order[at(i)]
           /\ \A j \in (1 .. L) \ X : \E i \in 1 .. Len(o) : at(i) = j
           /\ \A i, j \in 1 .. Len(o) : at(i) = at(j) => i = j
      <3>1. PICK S : S = DOMAIN h.records
        OBVIOUS
      <3>2. PICK s : s = h.order
        OBVIOUS
      <3>3. Rotates(S, s, L, end, X, K, C, o)
        BY <2>1, <2>2, <2>5, <2>6, <2>7, <3>1, <3>2 DEF Rotates
      <3>4. IsLeft(S, s, L, end, X, K, C, o)
        BY <3>3, Rotated
      <3> QED BY <3>1, <3>2, <3>4 DEF IsLeft
    <2> HIDE DEF at
    <2>12. \A i, j \in 1 .. L : h.order[i] = h.order[j] => i = j
      BY <2>2 DEF EachListed
    <2>13. X \in SUBSET (1 .. L)
      BY <2>6
    <2>14. DOMAIN t.records = DOMAIN h.records \ evicted
      BY <2>10
    <2>15. \A i \in 1 .. Len(o) : o[i] \in DOMAIN t.records
      <3> SUFFICES ASSUME NEW i \in 1 .. Len(o) PROVE o[i] \in DOMAIN t.records
        OBVIOUS
      <3>1. at(i) \in (1 .. L) \ X /\ o[i] = h.order[at(i)]
        BY <2>11
      <3>2. o[i] \in DOMAIN h.records
        BY <2>11, ElementOfSeq
      <3>3. o[i] \notin evicted
        BY <2>8, <2>12, <2>13, <3>1
      <3> QED BY <2>14, <3>2, <3>3
    <2>16. t.order \in Seq(DOMAIN t.records)
      <3>1. Len(o) \in Nat /\ DOMAIN o = 1 .. Len(o) /\ o \in [1 .. Len(o) -> DOMAIN h.records]
        BY <2>11, LenProperties
      <3>2. o \in [1 .. Len(o) -> DOMAIN t.records]
        BY <2>15, <3>1
      <3>3. o \in Seq(DOMAIN t.records)
        BY <3>1, <3>2, SeqDef
      <3> QED BY <2>10, <3>3
    <2>17. \A key \in DOMAIN t.records : \E i \in 1 .. Len(t.order) : t.order[i] = key
      <3> SUFFICES ASSUME NEW key \in DOMAIN t.records
                   PROVE  \E i \in 1 .. Len(o) : o[i] = key
        BY <2>10
      <3>1. PICK j \in 1 .. L : h.order[j] = key
        BY <2>2, <2>14 DEF EachListed
      <3>2. j \notin X
        BY <2>8, <2>14, <3>1
      <3> QED BY <2>11, <3>1, <3>2
    <2>18. \A i, j \in 1 .. Len(t.order) : t.order[i] = t.order[j] => i = j
      BY <2>10, <2>11, <2>12, SMTT(20)
    <2>19. EachListed(t)
      BY <2>10, <2>16, <2>17, <2>18 DEF EachListed
    <2>20. \A key \in DOMAIN h.records : IsUndoable(h, key) => key \in DOMAIN t.records
      BY <2>6, <2>8, <2>14
    <2>21. \/ Len(t.order) <= MaxDescriptors
           \/ \A i \in 1 .. Len(t.order) : IsUndoable(h, t.order[i])
      <3>1. CASE end = L
        <4> SUFFICES ASSUME NEW i \in 1 .. Len(o) PROVE IsUndoable(h, o[i])
          BY <2>10
        <4>1. at(i) \in (1 .. L) \ X /\ o[i] = h.order[at(i)]
          BY <2>11
        <4> QED BY <2>6, <3>1, <4>1
      <3>2. CASE Cardinality(X) = L - MaxDescriptors
        <4>1. (L - end) + C <= MaxDescriptors
          BY <2>6, <3>2, MaxDescriptorsAssumption
        <4> QED BY <2>10, <2>11, <4>1
      <3> QED BY <2>3, <2>4, <3>1, <3>2
    <2> QED BY <2>9, <2>10, <2>14, <2>19, <2>20, <2>21
  <1> QED BY <1>1, <1>2
-----------------------------------------------------------------------------
(* The invariant of the history.                                            *)

UndoKept(h) ==
    \A d \in DOMAIN h.undoable :
        /\ d \in HistoryDocuments /\ h.undoable[d].documentId = d
        /\ h.undoable[d] \in DOMAIN h.records
        /\ h.records[h.undoable[d]].previousMesh # NoMesh

(* A record is of a revision its document had, so the next one is new.      *)
Reached(h, revisions) ==
    \A key \in DOMAIN h.records :
        /\ key.documentId \in HistoryDocuments /\ key.revision \in Nat
        /\ key.revision <= revisions[key.documentId] /\ key.revision <= HistoryRevisions

EvictionInv ==
    /\ revision \in [HistoryDocuments -> Nat]
    /\ EachListed(history) /\ UndoKept(history) /\ Reached(history, revision)

LEMMA ReleasedRecord ==
    ASSUME NEW h, EachListed(h), NEW key \in DOMAIN h.records, NEW cause
    PROVE  LET t == ReleaseRecord(h, key, cause) IN
           /\ EachListed(t) /\ t.order = h.order /\ DOMAIN t.records = DOMAIN h.records
           /\ \A k \in DOMAIN h.records : k # key => t.records[k] = h.records[k]
           /\ t.undoable = IF IsUndoable(h, key) THEN Remove(h.undoable, key.documentId)
                           ELSE h.undoable
  <1> DEFINE record == h.records[key]
             spent == [record EXCEPT !.previousMesh = NoMesh, !.previousParts = NoParts,
                                     !.undone = @ \/ cause = "undone",
                                     !.superseded = @ \/ cause = "superseded"]
  <1>1. PICK t : t = ReleaseRecord(h, key, cause)
    OBVIOUS
  <1>2. PICK e : e = spent
    OBVIOUS
  <1>3. /\ DOMAIN t = {"records", "undoable", "order"} /\ t.order = h.order
        /\ t.records = Put(h.records, key, e)
        /\ t.undoable = IF IsUndoable(h, key) THEN Remove(h.undoable, key.documentId)
                        ELSE h.undoable
    BY <1>1, <1>2 DEF ReleaseRecord, EachListed
  <1>4. /\ DOMAIN t.records = DOMAIN h.records
        /\ \A k \in DOMAIN h.records : k # key => t.records[k] = h.records[k]
    BY <1>3 DEF Put
  <1>5. EachListed(t)
    BY <1>3, <1>4 DEF EachListed
  <1> QED BY <1>1, <1>3, <1>4, <1>5

(* A record is released and its document, if it was the one to undo, has    *)
(* nothing left to undo.                                                    *)
LEMMA ReleaseKeeps ==
    ASSUME NEW h, EachListed(h), UndoKept(h), NEW d \in DOMAIN h.undoable, NEW cause
    PROVE  LET t == ReleaseRecord(h, h.undoable[d], cause) IN
           /\ EachListed(t) /\ UndoKept(t) /\ t.order = h.order
           /\ DOMAIN t.records = DOMAIN h.records /\ d \notin DOMAIN t.undoable
  <1>1. PICK key \in DOMAIN h.records : key = h.undoable[d] /\ key.documentId = d
    BY DEF UndoKept
  <1>2. IsUndoable(h, key)
    BY <1>1 DEF IsUndoable
  <1>3. PICK t : t = ReleaseRecord(h, key, cause)
    OBVIOUS
  <1>4. /\ EachListed(t) /\ t.order = h.order /\ DOMAIN t.records = DOMAIN h.records
        /\ \A k \in DOMAIN h.records : k # key => t.records[k] = h.records[k]
        /\ t.undoable = Remove(h.undoable, d)
    BY <1>1, <1>2, <1>3, ReleasedRecord
  <1>5. /\ DOMAIN t.undoable = DOMAIN h.undoable \ {d}
        /\ \A x \in DOMAIN t.undoable : t.undoable[x] = h.undoable[x]
    BY <1>4 DEF Remove, Restrict
  <1>6. \A x \in DOMAIN t.undoable : h.undoable[x] # key
    BY <1>1, <1>5 DEF UndoKept
  <1>7. UndoKept(t)
    BY <1>4, <1>5, <1>6 DEF UndoKept
  <1> QED BY <1>1, <1>3, <1>4, <1>5, <1>7

(* The new record is the last of the list, and its document's undo.         *)
LEMMA AddedRecord ==
    ASSUME NEW h, EachListed(h), UndoKept(h), NEW key, key \notin DOMAIN h.records,
           key.documentId \in HistoryDocuments, NEW record, record.previousMesh # NoMesh
    PROVE  LET t == AddRecord(h, key, record) IN
           /\ EachListed(t) /\ UndoKept(t) /\ t.order = Append(h.order, key)
           /\ DOMAIN t.records = DOMAIN h.records \cup {key}
  <1>1. PICK g : g = ReleaseHistory(h, key.documentId)
    OBVIOUS
  <1>2. /\ EachListed(g) /\ UndoKept(g) /\ g.order = h.order
        /\ DOMAIN g.records = DOMAIN h.records /\ key.documentId \notin DOMAIN g.undoable
    BY <1>1, ReleaseKeeps DEF ReleaseHistory
  <1>3. PICK t : t = AddRecord(h, key, record)
    OBVIOUS
  <1>4. /\ DOMAIN t = {"records", "undoable", "order"} /\ t.order = Append(h.order, key)
        /\ t.records = Put(g.records, key, record)
        /\ t.undoable = Put(g.undoable, key.documentId, key)
    BY <1>1, <1>2, <1>3 DEF AddRecord
  <1>5. /\ DOMAIN t.records = DOMAIN h.records \cup {key} /\ t.records[key] = record
        /\ \A k \in DOMAIN h.records : t.records[k] = g.records[k]
    BY <1>2, <1>4 DEF Put
  <1>6. /\ DOMAIN t.undoable = DOMAIN g.undoable \cup {key.documentId}
        /\ t.undoable[key.documentId] = key
        /\ \A d \in DOMAIN g.undoable : t.undoable[d] = g.undoable[d]
    BY <1>2, <1>4 DEF Put
  <1>7. UndoKept(t)
    BY <1>2, <1>5, <1>6 DEF UndoKept
  <1>8. EachListed(t)
    <2>1. PICK S, o, s : S = DOMAIN t.records /\ o = t.order /\ s = h.order
      OBVIOUS
    <2>2. s \in Seq(S) /\ key \in S
      <3>1. s \in Seq(DOMAIN h.records) /\ DOMAIN h.records \subseteq S
        BY <1>5, <2>1 DEF EachListed
      <3> QED BY <1>5, <2>1, <3>1, SeqMonotonic
    <2>3. /\ o \in Seq(S) /\ Len(o) = Len(s) + 1 /\ Len(s) \in Nat
          /\ \A i \in 1 .. Len(s) : o[i] = s[i]
          /\ o[Len(s) + 1] = key
      BY <1>4, <2>1, <2>2, AppendProperties, LenProperties
    <2>4. \A i \in 1 .. Len(s) : s[i] \in DOMAIN h.records
      BY <2>1, ElementOfSeq DEF EachListed
    <2>5. \A k \in S : \E i \in 1 .. Len(o) : o[i] = k
      BY <1>5, <2>1, <2>3 DEF EachListed
    <2>6. \A i, j \in 1 .. Len(o) : o[i] = o[j] => i = j
      <3>1. \A i, j \in 1 .. Len(s) : s[i] = s[j] => i = j
        BY <2>1 DEF EachListed
      <3>2. \A i \in 1 .. Len(o) : i \in 1 .. Len(s) \/ i = Len(s) + 1
        BY <2>3
      <3>3. \A i \in 1 .. Len(s) : o[i] # key
        BY <2>3, <2>4
      <3> QED BY <2>3, <3>1, <3>2, <3>3
    <2> QED BY <1>4, <2>1, <2>3, <2>5, <2>6, ZenonT(30) DEF EachListed
  <1> QED BY <1>3, <1>4, <1>5, <1>7, <1>8

LEMMA TrimKeeps ==
    ASSUME NEW g, EachListed(g), UndoKept(g)
    PROVE  LET t == Trim(g) IN
           /\ EachListed(t) /\ UndoKept(t) /\ DOMAIN t.records \subseteq DOMAIN g.records
           /\ \A k : IsUndoable(t, k) <=> IsUndoable(g, k)
           /\ \/ Len(t.order) <= MaxDescriptors
              \/ \A i \in 1 .. Len(t.order) : IsUndoable(t, t.order[i])
  <1>1. PICK t : t = Trim(g)
    OBVIOUS
  <1>2. /\ EachListed(t) /\ t.undoable = g.undoable
        /\ \A k \in DOMAIN t.records : k \in DOMAIN g.records /\ t.records[k] = g.records[k]
        /\ \A k \in DOMAIN g.records : IsUndoable(g, k) => k \in DOMAIN t.records
        /\ \/ Len(t.order) <= MaxDescriptors
           \/ \A i \in 1 .. Len(t.order) : IsUndoable(g, t.order[i])
    BY <1>1, TrimmedList
  <1>3. \A k : IsUndoable(t, k) <=> IsUndoable(g, k)
    BY <1>2 DEF IsUndoable
  <1>4. UndoKept(t)
    <2> SUFFICES ASSUME NEW d \in DOMAIN t.undoable
                 PROVE  /\ d \in HistoryDocuments /\ t.undoable[d].documentId = d
                        /\ t.undoable[d] \in DOMAIN t.records
                        /\ t.records[t.undoable[d]].previousMesh # NoMesh
      BY DEF UndoKept
    <2>1. PICK k \in DOMAIN g.records :
            /\ k = g.undoable[d] /\ d \in DOMAIN g.undoable /\ k.documentId = d
            /\ d \in HistoryDocuments /\ g.records[k].previousMesh # NoMesh
      BY <1>2 DEF UndoKept
    <2>2. k \in DOMAIN t.records
      BY <1>2, <2>1 DEF IsUndoable
    <2> QED BY <1>2, <2>1, <2>2
  <1> QED BY <1>1, <1>2, <1>3, <1>4

(* A commit adds the record of the next revision and trims.                 *)
LEMMA CommitTrims ==
    ASSUME EvictionInv, NEW d \in HistoryDocuments, Commit(d)
    PROVE  \E g : LET key == Handle(d, revision'[d]) IN
             /\ history' = Trim(g) /\ EachListed(g) /\ UndoKept(g)
             /\ g.order = Append(history.order, key)
             /\ DOMAIN g.records = DOMAIN history.records \cup {key}
             /\ key.documentId = d /\ key.revision = revision[d] + 1
             /\ revision' = [revision EXCEPT ![d] = @ + 1]
             /\ revision[d] < HistoryRevisions
  <1>1. /\ revision[d] < HistoryRevisions /\ revision[d] \in Nat
        /\ revision' = [revision EXCEPT ![d] = @ + 1] /\ revision'[d] = revision[d] + 1
    BY DEF Commit, EvictionInv
  <1>2. PICK key : key = Handle(d, revision'[d])
    OBVIOUS
  <1>3. key.documentId = d /\ key.revision = revision[d] + 1
    BY <1>1, <1>2 DEF Handle
  <1>4. PICK record : /\ history' = Trim(AddRecord(history, key, record))
                      /\ record.previousMesh # NoMesh
    <2>1. PICK p \in PartIds, mesh \in Meshes :
            history' = Record(history, key, p, revision[d], mesh, NoParts)
      BY <1>1, <1>2 DEF Commit
    <2>2. mesh # NoMesh
      BY NoMeshAssumption
    <2> QED BY <2>1, <2>2 DEF Record
  <1>5. key \notin DOMAIN history.records
    BY <1>1, <1>3 DEF EvictionInv, Reached
  <1>6. PICK g : g = AddRecord(history, key, record)
    OBVIOUS
  <1>7. /\ EachListed(g) /\ UndoKept(g) /\ g.order = Append(history.order, key)
        /\ DOMAIN g.records = DOMAIN history.records \cup {key}
    BY <1>3, <1>4, <1>5, <1>6, AddedRecord DEF EvictionInv
  <1> QED BY <1>1, <1>2, <1>3, <1>4, <1>6, <1>7

LEMMA EvictionInvariant ==
    EvictionSpec => []EvictionInv
  <1>1. EvictionInit => EvictionInv
    <2> SUFFICES ASSUME EvictionInit PROVE EvictionInv
      OBVIOUS
    <2>1. /\ DOMAIN history = {"records", "undoable", "order"} /\ history.order = <<>>
          /\ DOMAIN history.records = {} /\ DOMAIN history.undoable = {}
      BY DEF EvictionInit, NoHistory, NoEntries
    <2>2. EachListed(history)
      BY <2>1 DEF EachListed
    <2>3. revision \in [HistoryDocuments -> Nat]
      BY DEF EvictionInit
    <2> QED BY <2>1, <2>2, <2>3 DEF EvictionInv, UndoKept, Reached
  <1>2. EvictionInv /\ [EvictionNext]_evictionVars => EvictionInv'
    <2> SUFFICES ASSUME EvictionInv, [EvictionNext]_evictionVars PROVE EvictionInv'
      OBVIOUS
    <2>1. ASSUME NEW d \in HistoryDocuments, Commit(d) PROVE EvictionInv'
      <3>1. PICK g : LET key == Handle(d, revision'[d]) IN
              /\ history' = Trim(g) /\ EachListed(g) /\ UndoKept(g)
              /\ g.order = Append(history.order, key)
              /\ DOMAIN g.records = DOMAIN history.records \cup {key}
              /\ key.documentId = d /\ key.revision = revision[d] + 1
              /\ revision' = [revision EXCEPT ![d] = @ + 1]
              /\ revision[d] < HistoryRevisions
        BY <2>1, CommitTrims
      <3>2. /\ EachListed(history') /\ UndoKept(history')
            /\ DOMAIN history'.records \subseteq DOMAIN g.records
        BY <3>1, TrimKeeps
      <3>3. revision' \in [HistoryDocuments -> Nat] /\ revision'[d] = revision[d] + 1
            /\ revision[d] \in Nat /\ \A e \in HistoryDocuments : e # d => revision'[e] = revision[e]
        BY <3>1 DEF EvictionInv
      <3>4. Reached(history', revision')
        <4> SUFFICES ASSUME NEW key \in DOMAIN history'.records
                     PROVE  /\ key.documentId \in HistoryDocuments /\ key.revision \in Nat
                            /\ key.revision <= revision'[key.documentId]
                            /\ key.revision <= HistoryRevisions
          BY DEF Reached
        <4>1. CASE key \in DOMAIN history.records
          BY <3>3, <4>1 DEF EvictionInv, Reached
        <4>2. CASE key = Handle(d, revision'[d])
          BY <3>1, <3>3, <4>2, HistoryAssumption
        <4> QED BY <3>1, <3>2, <4>1, <4>2
      <3> QED BY <3>2, <3>3, <3>4 DEF EvictionInv
    <2>2. ASSUME NEW d \in HistoryDocuments, NEW cause, NEW next, next \in Nat,
                 d \in DOMAIN history.undoable,
                 revision[d] <= next \/ next = HistoryRevisions,
                 revision' = [revision EXCEPT ![d] = next],
                 history' = ReleaseRecord(history, history.undoable[d], cause)
          PROVE  EvictionInv'
      <3>1. /\ EachListed(history') /\ UndoKept(history')
            /\ DOMAIN history'.records = DOMAIN history.records
        BY <2>2, ReleaseKeeps DEF EvictionInv
      <3>2. revision' \in [HistoryDocuments -> Nat] /\ revision'[d] = next /\ revision[d] \in Nat
            /\ \A e \in HistoryDocuments : e # d => revision'[e] = revision[e]
        BY <2>2 DEF EvictionInv
      <3>3. Reached(history', revision')
        BY <2>2, <3>1, <3>2 DEF EvictionInv, Reached
      <3> QED BY <3>1, <3>2, <3>3 DEF EvictionInv
    <2>3. ASSUME NEW d \in HistoryDocuments, UndoLast(d) PROVE EvictionInv'
      <3>1. revision[d] \in Nat /\ revision[d] + 1 \in Nat /\ revision[d] <= revision[d] + 1
        BY DEF EvictionInv
      <3> QED BY <2>2, <2>3, <3>1 DEF UndoLast
    <2>4. ASSUME NEW d \in HistoryDocuments, ReleaseDocument(d) PROVE EvictionInv'
      BY <2>2, <2>4, HistoryAssumption DEF ReleaseDocument, ReleaseHistory
    <2>5. CASE UNCHANGED evictionVars
      BY <2>5 DEF evictionVars, EvictionInv
    <2> QED BY <2>1, <2>3, <2>4, <2>5 DEF EvictionNext
  <1> QED BY <1>1, <1>2, PTL DEF EvictionSpec

(* However many changes of however many documents are recorded, undone and  *)
(* evicted: the record that a document's Undo would reverse is held, with   *)
(* its inverse, and the list that eviction walks names every record that is *)
(* held, once.                                                              *)
THEOREM NoUndoIsEvicted ==
    EvictionSpec => []EvictionKeepsUndo
  <1>1. EvictionInv => EvictionKeepsUndo
    <2> SUFFICES ASSUME EvictionInv PROVE EvictionKeepsUndo
      OBVIOUS
    <2>1. PICK s, S : s = history.order /\ S = DOMAIN history.records
      OBVIOUS
    <2>2. s \in Seq(S) /\ (\A key \in S : \E i \in 1 .. Len(s) : s[i] = key)
          /\ \A i, j \in 1 .. Len(s) : s[i] = s[j] => i = j
      BY <2>1 DEF EvictionInv, EachListed
    <2>3. Len(s) \in Nat /\ DOMAIN s = 1 .. Len(s) /\ s \in [1 .. Len(s) -> S]
      BY <2>2, LenProperties
    <2>4. S = {s[i] : i \in DOMAIN s}
      BY <2>2, <2>3
    <2>5. s \in Bijection(1 .. Len(s), S)
      BY <2>2, <2>3 DEF Bijection, Injection, Surjection, IsInjective
    <2>6. Cardinality(S) = Len(s)
      BY <2>3, <2>5, FS_CountingElements DEF ExistsBijection
    <2> QED BY <2>1, <2>4, <2>6 DEF EvictionInv, UndoKept, EvictionKeepsUndo
  <1> QED BY <1>1, EvictionInvariant, PTL

(* A commit evicts what it needs to: afterwards the list is within its cap, *)
(* or all that it names can still be undone.                                *)
THEOREM CommitsEvictEnough ==
    EvictionSpec => CommitsRestoreTheCap
  <1>1. ASSUME EvictionInv, NEW d \in HistoryDocuments, Commit(d)
        PROVE  \/ Len(history'.order) <= MaxDescriptors
               \/ \A i \in DOMAIN history'.order : IsUndoable(history', history'.order[i])
    <2>1. PICK g : history' = Trim(g) /\ EachListed(g) /\ UndoKept(g)
      BY <1>1, CommitTrims
    <2>2. PICK t : t = history'
      OBVIOUS
    <2>3. /\ EachListed(t)
          /\ \/ Len(t.order) <= MaxDescriptors
             \/ \A i \in 1 .. Len(t.order) : IsUndoable(t, t.order[i])
      BY <2>1, <2>2, TrimKeeps
    <2>4. DOMAIN t.order = 1 .. Len(t.order)
      BY <2>3, LenProperties DEF EachListed
    <2> QED BY <2>2, <2>3, <2>4
  <1>2. EvictionInv /\ [EvictionNext]_evictionVars =>
          [(\E d \in HistoryDocuments : Commit(d)) =>
             \/ Len(history'.order) <= MaxDescriptors
             \/ \A i \in DOMAIN history'.order : IsUndoable(history', history'.order[i])]_evictionVars
    BY <1>1
  <1> QED BY <1>2, EvictionInvariant, PTL DEF EvictionSpec, CommitsRestoreTheCap
-----------------------------------------------------------------------------
(* The loop of the code. After m turns, when none has ended it, it has      *)
(* scanned the first m entries of the list of g.                            *)

LoopAt(g, m) ==
    [order   |-> SubSeq(g.order, m + 1, Len(g.order)) \o EntriesAt(g.order, KeptUpTo(g, m)),
     kept    |-> DOMAIN g.records \ {g.order[j] : j \in SpentUpTo(g, m)},
     scanned |-> Cardinality(KeptUpTo(g, m))]

LEMMA OneMoreScanned ==
    ASSUME NEW g, NEW m \in Nat
    PROVE  /\ IsUndoable(g, g.order[m + 1]) =>
                /\ SpentUpTo(g, m + 1) = SpentUpTo(g, m)
                /\ KeptUpTo(g, m + 1) = KeptUpTo(g, m) \cup {m + 1}
           /\ ~IsUndoable(g, g.order[m + 1]) =>
                /\ SpentUpTo(g, m + 1) = SpentUpTo(g, m) \cup {m + 1}
                /\ KeptUpTo(g, m + 1) = KeptUpTo(g, m)
           /\ Cardinality(SpentUpTo(g, m + 1)) <= Cardinality(SpentUpTo(g, m)) + 1
  <1>1. 1 .. m + 1 = (1 .. m) \cup {m + 1} /\ m + 1 \notin 1 .. m
    OBVIOUS
  <1>2. IsUndoable(g, g.order[m + 1]) => SpentUpTo(g, m + 1) = SpentUpTo(g, m)
    BY <1>1 DEF SpentUpTo
  <1>3. ~IsUndoable(g, g.order[m + 1]) => SpentUpTo(g, m + 1) = SpentUpTo(g, m) \cup {m + 1}
    BY <1>1 DEF SpentUpTo
  <1>4. SpentUpTo(g, m) \in SUBSET (1 .. m) /\ Cardinality(SpentUpTo(g, m)) \in Nat
    BY SpentAndKept
  <1>5. IsUndoable(g, g.order[m + 1]) =>
          KeptUpTo(g, m + 1) = KeptUpTo(g, m) \cup {m + 1}
    BY <1>1, <1>2, <1>4 DEF KeptUpTo
  <1>6. ~IsUndoable(g, g.order[m + 1]) => KeptUpTo(g, m + 1) = KeptUpTo(g, m)
    BY <1>1, <1>3, <1>4 DEF KeptUpTo
  <1>7. Cardinality(SpentUpTo(g, m + 1)) <= Cardinality(SpentUpTo(g, m)) + 1
    <2>1. Cardinality(SpentUpTo(g, m) \cup {m + 1}) = Cardinality(SpentUpTo(g, m)) + 1
      BY <1>4, OneMorePlace
    <2>2. Cardinality(SpentUpTo(g, m + 1))
            \in {Cardinality(SpentUpTo(g, m)), Cardinality(SpentUpTo(g, m) \cup {m + 1})}
      BY <1>2, <1>3
    <2> QED BY <1>4, <2>1, <2>2
  <1> QED BY <1>2, <1>3, <1>5, <1>6, <1>7

LEMMA NoneScanned ==
    ASSUME NEW g
    PROVE  SpentUpTo(g, 0) = {} /\ KeptUpTo(g, 0) = {}
           /\ Cardinality(SpentUpTo(g, 0)) = 0 /\ Cardinality(KeptUpTo(g, 0)) = 0
  <1>1. SpentUpTo(g, 0) = {} /\ KeptUpTo(g, 0) = {}
    BY DEF SpentUpTo, KeptUpTo
  <1> QED BY <1>1, FS_EmptySet

(* One more entry is kept: it is the last of those kept.                    *)
LEMMA OneMoreEntry ==
    ASSUME NEW S, NEW s \in Seq(S), NEW m \in Nat, m + 1 \in 1 .. Len(s),
           NEW K \in SUBSET (1 .. m)
    PROVE  EntriesAt(s, K \cup {m + 1}) = Append(EntriesAt(s, K), s[m + 1])
  <1>1. PICK C \in Nat : C = Cardinality(K)
    BY Subsets
  <1>2. PICK J : J = K \cup {m + 1}
    OBVIOUS
  <1>3. Len(s) \in Nat
    BY LenProperties
  <1>4. K \in SUBSET (1 .. Len(s)) /\ J \in SUBSET (1 .. m + 1) /\ J \in SUBSET (1 .. Len(s))
    BY <1>2, <1>3
  <1>5. /\ Cardinality(J) = C + 1 /\ Rank(J, m + 1) = C + 1
        /\ \A i \in K : Rank(J, i) = Rank(K, i)
    BY <1>1, <1>2, OneMorePlace
  <1>6. PICK e, f : e = EntriesAt(s, K) /\ f = EntriesAt(s, J)
    OBVIOUS
  <1>7. /\ e \in Seq(S) /\ Len(e) = C /\ \A r \in 1 .. C : e[r] = s[PlaceOf(K, r)]
    BY <1>1, <1>4, <1>6, EntriesInOrder
  <1>8. /\ f \in Seq(S) /\ Len(f) = C + 1 /\ \A r \in 1 .. C + 1 : f[r] = s[PlaceOf(J, r)]
    BY <1>4, <1>5, <1>6, EntriesInOrder
  <1>9. /\ \A i \in J : PlaceOf(J, Rank(J, i)) = i
        /\ \A r \in 1 .. C : PlaceOf(K, r) \in K /\ Rank(K, PlaceOf(K, r)) = r
    <2>1. m + 1 \in Nat
      OBVIOUS
    <2> QED BY <1>1, <1>4, <2>1, PlacesInOrder
  <1>10. f[C + 1] = s[m + 1]
    <2>1. PlaceOf(J, C + 1) = m + 1
      BY <1>2, <1>5, <1>9
    <2> QED BY <1>8, <2>1
  <1>11. ASSUME NEW r \in 1 .. C PROVE f[r] = e[r]
    <2>1. PICK i \in K : i = PlaceOf(K, r) /\ Rank(K, i) = r
      BY <1>9
    <2>2. PlaceOf(J, r) = i
      BY <1>2, <1>5, <1>9, <2>1
    <2>3. r \in 1 .. C + 1
      OBVIOUS
    <2> QED BY <1>7, <1>8, <2>1, <2>2, <2>3
  <1>12. s[m + 1] \in S
    BY ElementOfSeq
  <1>13. PICK a : a = Append(e, s[m + 1])
    OBVIOUS
  <1>14. /\ a \in Seq(S) /\ Len(a) = C + 1 /\ a[C + 1] = s[m + 1]
         /\ \A r \in 1 .. C : a[r] = e[r]
    BY <1>7, <1>12, <1>13, AppendProperties
  <1>15. \A r \in 1 .. C + 1 : r \in 1 .. C \/ r = C + 1
    OBVIOUS
  <1>16. f = a
    BY <1>8, <1>10, <1>11, <1>14, <1>15, SeqEqual
  <1> QED BY <1>2, <1>6, <1>13, <1>16

(* What the loop sees after m turns.                                        *)
LEMMA LoopAfterTurns ==
    ASSUME NEW g, EachListed(g), NEW m \in 0 .. Len(g.order)
    PROVE  LET loop == LoopAt(g, m)
               spent == Cardinality(SpentUpTo(g, m))
           IN  /\ Len(loop.order) = Len(g.order) - spent
               /\ loop.scanned + spent = m /\ spent \in 0 .. m
               /\ m < Len(g.order) => /\ loop.order # <<>>
                                      /\ Head(loop.order) = g.order[m + 1]
                                      /\ Tail(loop.order) =
                                           SubSeq(g.order, m + 2, Len(g.order))
                                             \o EntriesAt(g.order, KeptUpTo(g, m))
  <1>1. PICK s, S, L : s = g.order /\ S = DOMAIN g.records /\ L = Len(s)
    OBVIOUS
  <1>2. s \in Seq(S) /\ L \in Nat /\ m \in Nat /\ m <= L
    BY <1>1, LenProperties DEF EachListed
  <1>3. PICK K, X, C, x : K = KeptUpTo(g, m) /\ X = SpentUpTo(g, m)
                          /\ C = Cardinality(K) /\ x = Cardinality(X)
    OBVIOUS
  <1>4. C \in Nat /\ x \in Nat /\ x + C = m /\ K \in SUBSET (1 .. L)
    <2>1. C \in Nat /\ x \in Nat /\ x + C = m /\ K \in SUBSET (1 .. m)
      BY <1>2, <1>3, SpentAndKept
    <2> QED BY <1>2, <2>1
  <1>5. PICK e, a, o : e = EntriesAt(s, K) /\ a = SubSeq(s, m + 1, L) /\ o = a \o e
    OBVIOUS
  <1>6. e \in Seq(S) /\ Len(e) = C
    BY <1>1, <1>2, <1>3, <1>4, <1>5, EntriesInOrder
  <1>7. /\ a \in Seq(S) /\ Len(a) = L - m /\ \A i \in 1 .. L - m : a[i] = s[m + i]
    <2>1. \A i \in m + 1 .. L : s[i] \in S
      <3>1. \A i \in m + 1 .. L : i \in 1 .. Len(s)
        BY <1>1, <1>2
      <3> QED BY <1>2, <3>1, ElementOfSeq
    <2>2. m + 1 \in Int /\ L \in Int /\ Len(a) = IF m + 1 <= L THEN L - (m + 1) + 1 ELSE 0
      BY <1>2, <1>5, <2>1, SubSeqProperties
    <2>3. a \in Seq(S) /\ \A i \in 1 .. L - (m + 1) + 1 : a[i] = s[(m + 1) + i - 1]
      BY <1>2, <1>5, <2>1, SubSeqProperties
    <2> QED BY <1>2, <2>2, <2>3
  <1>8. o \in Seq(S) /\ Len(o) = (L - m) + C
        /\ \A i \in 1 .. (L - m) + C : o[i] = IF i <= L - m THEN a[i] ELSE e[i - (L - m)]
    <2>1. /\ a \o e \in Seq(S) /\ Len(a \o e) = Len(a) + Len(e)
          /\ \A i \in 1 .. Len(a) + Len(e) :
               (a \o e)[i] = IF i <= Len(a) THEN a[i] ELSE e[i - Len(a)]
      BY <1>6, <1>7, ConcatProperties, Zenon
    <2> QED BY <1>5, <1>6, <1>7, <2>1
  <1>9. o = LoopAt(g, m).order /\ C = LoopAt(g, m).scanned
    BY <1>1, <1>3, <1>5 DEF LoopAt
  <1>10. Len(o) = L - x /\ C + x = m /\ x \in 0 .. m
    BY <1>2, <1>4, <1>8
  <1>11. ASSUME m < L
         PROVE  o # <<>> /\ Head(o) = s[m + 1] /\ Tail(o) = SubSeq(s, m + 2, L) \o e
    <2>1. /\ 1 \in 1 .. L - m /\ 1 \in 1 .. (L - m) + C /\ 1 <= L - m
          /\ m + 1 \in 1 .. L /\ L \in m + 1 .. L /\ (m + 1) + 1 = m + 2
      BY <1>2, <1>4, <1>11
    <2>2. Len(o) # 0 /\ o[1] = s[m + 1]
      BY <1>7, <1>8, <2>1
    <2>3. o # <<>> /\ Head(o) = s[m + 1]
      BY <1>8, <2>2, EmptySeq, HeadTailProperties
    <2>4. a = <<s[m + 1]>> \o SubSeq(s, m + 2, L)
      BY <1>1, <1>2, <1>5, <2>1, SubSeqRecursiveFirst
    <2>5. PICK b : b = SubSeq(s, m + 2, L)
      OBVIOUS
    <2>6. a # <<>> /\ Tail(a) = b
      <3>1. Tail(SubSeq(s, m + 1, L)) = SubSeq(s, (m + 1) + 1, L)
        BY <1>1, <1>2, <2>1, HeadTailOfSubSeq
      <3>2. Len(a) # 0
        BY <1>7, <2>1
      <3> QED BY <1>5, <1>7, <2>1, <2>5, <3>1, <3>2, EmptySeq
    <2>7. /\ b \in Seq(S) /\ Len(b) = (L - m) - 1
          /\ \A i \in 1 .. (L - m) - 1 : b[i] = a[i + 1]
      BY <1>2, <1>7, <2>6, HeadTailProperties
    <2>8. PICK c, t : c = b \o e /\ t = Tail(o)
      OBVIOUS
    <2>9. /\ c \in Seq(S) /\ Len(c) = (L - m) - 1 + C
          /\ \A i \in 1 .. (L - m) - 1 + C :
               c[i] = IF i <= (L - m) - 1 THEN b[i] ELSE e[i - ((L - m) - 1)]
      <3>1. /\ b \o e \in Seq(S) /\ Len(b \o e) = Len(b) + Len(e)
            /\ \A i \in 1 .. Len(b) + Len(e) :
                 (b \o e)[i] = IF i <= Len(b) THEN b[i] ELSE e[i - Len(b)]
        BY <1>6, <2>7, ConcatProperties, Zenon
      <3> QED BY <1>6, <2>7, <2>8, <3>1
    <2>10. /\ t \in Seq(S) /\ Len(t) = (L - m) + C - 1
           /\ \A i \in 1 .. (L - m) + C - 1 : t[i] = o[i + 1]
      <3>1. /\ Tail(o) \in Seq(S) /\ Len(Tail(o)) = Len(o) - 1
            /\ \A i \in 1 .. Len(Tail(o)) : Tail(o)[i] = o[i + 1]
        BY <1>8, <2>3, HeadTailProperties, Zenon
      <3>2. PICK w : w = Tail(o)
        OBVIOUS
      <3>3. Len(w) = (L - m) + C - 1
        BY <1>2, <1>4, <1>8, <3>1, <3>2
      <3> QED BY <2>8, <3>1, <3>2, <3>3
    <2>11. ASSUME NEW i \in 1 .. (L - m) - 1 + C PROVE t[i] = c[i]
      <3>1. i \in 1 .. (L - m) + C - 1 /\ i + 1 \in 1 .. (L - m) + C
        BY <1>2, <1>4, <2>1
      <3>2. CASE i <= (L - m) - 1
        <4>1. i + 1 <= L - m /\ i \in 1 .. (L - m) - 1
          BY <1>2, <1>4, <3>2
        <4> QED BY <1>8, <2>7, <2>9, <2>10, <3>1, <3>2, <4>1
      <3>3. CASE ~(i <= (L - m) - 1)
        <4>1. ~(i + 1 <= L - m) /\ (i + 1) - (L - m) = i - ((L - m) - 1)
          BY <1>2, <1>4, <3>3
        <4> QED BY <1>8, <2>9, <2>10, <3>1, <3>3, <4>1
      <3> QED BY <3>2, <3>3
    <2>12. (L - m) - 1 + C = (L - m) + C - 1
      BY <1>2, <1>4
    <2>13. t = c
      BY <2>9, <2>10, <2>11, <2>12, SeqEqual
    <2> QED BY <2>3, <2>5, <2>8, <2>13
  <1> QED BY <1>1, <1>3, <1>5, <1>9, <1>10, <1>11

(* A turn of the code's loop, when what can be undone is what g says.       *)
LEMMA TurnScansOneMore ==
    ASSUME NEW g, EachListed(g), NEW m \in Nat, m < Len(g.order),
           \A k : IsUndoable(history', k) <=> IsUndoable(g, k)
    PROVE  TrimTurn(LoopAt(g, m)) = LoopAt(g, m + 1)
  <1>1. PICK s, S, L, D : s = g.order /\ S = DOMAIN g.records /\ L = Len(s) /\ D = S
    OBVIOUS
  <1>2. s \in Seq(S) /\ L \in Nat /\ m \in 0 .. L /\ m + 1 \in 1 .. L
    BY <1>1, LenProperties DEF EachListed
  <1>3. PICK K, X : K = KeptUpTo(g, m) /\ X = SpentUpTo(g, m)
    OBVIOUS
  <1>4. PICK K1, X1 : K1 = KeptUpTo(g, m + 1) /\ X1 = SpentUpTo(g, m + 1)
    OBVIOUS
  <1>5. PICK loop : loop = LoopAt(g, m)
    OBVIOUS
  <1>6. PICK oldest, b, e : /\ oldest = s[m + 1] /\ b = SubSeq(s, m + 2, L)
                            /\ e = EntriesAt(s, K)
    OBVIOUS
  <1>7. /\ Head(loop.order) = oldest /\ Tail(loop.order) = b \o e
        /\ DOMAIN loop = {"order", "kept", "scanned"}
        /\ loop.kept = S \ {s[j] : j \in X} /\ loop.scanned = Cardinality(K)
    <2>1. Head(loop.order) = oldest /\ Tail(loop.order) = b \o e
      BY <1>1, <1>2, <1>3, <1>5, <1>6, LoopAfterTurns
    <2> QED BY <1>1, <1>3, <1>5, <2>1 DEF LoopAt
  <1>8. K \in SUBSET (1 .. m) /\ Cardinality(K) \in Nat
    BY <1>3, SpentAndKept
  <1>9. LoopAt(g, m + 1) = [order |-> b \o EntriesAt(s, K1), kept |-> S \ {s[j] : j \in X1},
                            scanned |-> Cardinality(K1)]
    <2>1. (m + 1) + 1 = m + 2
      OBVIOUS
    <2> QED BY <1>1, <1>4, <1>6, <2>1 DEF LoopAt
  <1>10. CASE IsUndoable(g, oldest)
    <2>1. X1 = X /\ K1 = K \cup {m + 1}
      BY <1>1, <1>3, <1>4, <1>6, <1>10, OneMoreScanned
    <2>2. Cardinality(K1) = Cardinality(K) + 1
      BY <1>8, <2>1, OneMorePlace
    <2>3. EntriesAt(s, K1) = Append(e, oldest)
      BY <1>1, <1>2, <1>6, <1>8, <2>1, OneMoreEntry
    <2>4. e \in Seq(S) /\ b \in Seq(S) /\ oldest \in S
      <3>1. K \in SUBSET (1 .. Len(s))
        BY <1>1, <1>2, <1>8
      <3>2. \A i \in m + 2 .. L : i \in 1 .. Len(s)
        BY <1>1, <1>2
      <3>3. \A i \in m + 2 .. L : s[i] \in S
        BY <1>2, <3>2, ElementOfSeq
      <3>4. m + 2 \in Int /\ L \in Int
        BY <1>2
      <3> QED BY <1>1, <1>2, <1>6, <3>1, <3>3, <3>4, EntriesInOrder, SubSeqProperties, ElementOfSeq
    <2>5. Append(b \o e, oldest) = b \o Append(e, oldest)
      <3>1. Append(b \o e, oldest) = (b \o e) \o <<oldest>>
        BY <2>4, ConcatProperties, AppendIsConcat
      <3>2. b \o Append(e, oldest) = b \o (e \o <<oldest>>)
        BY <2>4, AppendIsConcat
      <3>3. <<oldest>> \in Seq(S)
        BY <2>4
      <3> QED BY <2>4, <3>1, <3>2, <3>3, ConcatAssociative
    <2>6. TrimTurn(loop) = [loop EXCEPT !.order = Append(b \o e, oldest),
                                        !.scanned = Cardinality(K) + 1]
      BY <1>7, <1>10 DEF TrimTurn
    <2> QED BY <1>5, <1>7, <1>9, <2>1, <2>2, <2>3, <2>5, <2>6
  <1>11. CASE ~IsUndoable(g, oldest)
    <2>1. X1 = X \cup {m + 1} /\ K1 = K
      BY <1>1, <1>3, <1>4, <1>6, <1>11, OneMoreScanned
    <2>2. S \ {s[j] : j \in X1} = (S \ {s[j] : j \in X}) \ {oldest}
      BY <1>6, <2>1
    <2>3. TrimTurn(loop) = [loop EXCEPT !.order = b \o e,
                                        !.kept = (S \ {s[j] : j \in X}) \ {oldest}]
      BY <1>7, <1>11 DEF TrimTurn
    <2> QED BY <1>5, <1>6, <1>7, <1>9, <2>1, <2>2, <2>3
  <1> QED BY <1>10, <1>11

LEMMA ScanGoesOn ==
    ASSUME NEW g, EachListed(g), NEW excess \in Nat \ {0}, NEW i \in 0 .. Len(g.order),
           i < ScanEnd(g, excess)
    PROVE  Cardinality(SpentUpTo(g, i)) < excess
  <1>1. PICK L \in Nat : L = Len(g.order)
    BY LenProperties DEF EachListed
  <1>2. PICK end \in 0 .. L :
          /\ end = ScanEnd(g, excess)
          /\ \A n \in 0 .. L : n < end => Cardinality(SpentUpTo(g, n)) # excess
    BY <1>1, ScanEnds DEF EachListed
  <1> DEFINE T == {n \in 0 .. L : n < end /\ ~(Cardinality(SpentUpTo(g, n)) < excess)}
  <1>3. \A n \in Nat : Cardinality(SpentUpTo(g, n)) \in Nat
    BY SpentAndKept
  <1>4. ASSUME T # {} PROVE FALSE
    <2>1. T \in SUBSET Nat
      BY <1>1
    <2>2. PICK n \in T : \A k \in T : n <= k
      <3> HIDE DEF T
      <3> QED BY <1>4, <2>1, LeastNatural
    <2>3. n \in 0 .. L /\ n < end /\ ~(Cardinality(SpentUpTo(g, n)) < excess)
      BY <2>2
    <2>4. n # 0
      BY <2>3, NoneScanned
    <2>5. n - 1 \in 0 .. L /\ n - 1 \in Nat /\ n - 1 < end /\ (n - 1) + 1 = n /\ ~(n <= n - 1)
      BY <1>1, <2>3, <2>4
    <2>6. n - 1 \notin T
      <3> HIDE DEF T
      <3> QED BY <2>2, <2>5
    <2>7. Cardinality(SpentUpTo(g, n - 1)) < excess
      BY <2>5, <2>6
    <2>8. Cardinality(SpentUpTo(g, n)) <= Cardinality(SpentUpTo(g, n - 1)) + 1
      BY <2>5, OneMoreScanned
    <2>9. Cardinality(SpentUpTo(g, n)) # excess
      BY <1>2, <2>3
    <2>10. PICK x, y : x = Cardinality(SpentUpTo(g, n)) /\ y = Cardinality(SpentUpTo(g, n - 1))
      OBVIOUS
    <2>11. x \in Nat /\ y \in Nat /\ ~(x < excess) /\ y < excess /\ x <= y + 1 /\ x # excess
      BY <1>3, <2>3, <2>5, <2>7, <2>8, <2>9, <2>10
    <2> QED BY <2>11
  <1>5. i \in 0 .. L /\ i < end
    BY <1>1, <1>2
  <1> QED BY <1>4, <1>5

(* The loop stops where the closed form says.                               *)
LEMMA LoopStops ==
    ASSUME NEW g, EachListed(g)
    PROVE  \E e \in 0 .. Len(g.order) :
             /\ \A i \in 0 .. Len(g.order) : i < e => Continues(LoopAt(g, i))
             /\ ~Continues(LoopAt(g, e))
             /\ Trim(g).order = LoopAt(g, e).order
             /\ DOMAIN Trim(g).records = LoopAt(g, e).kept
  <1>1. PICK L \in Nat : L = Len(g.order)
    BY LenProperties DEF EachListed
  <1>2. g.order \in Seq(DOMAIN g.records)
    BY DEF EachListed
  <1>3. \A i \in 0 .. L :
          LET x == Cardinality(SpentUpTo(g, i)) IN
          /\ Len(LoopAt(g, i).order) = L - x /\ LoopAt(g, i).scanned + x = i /\ x \in 0 .. i
          /\ LoopAt(g, i).scanned \in Int
    <2> SUFFICES ASSUME NEW i \in 0 .. L
                 PROVE  LET x == Cardinality(SpentUpTo(g, i)) IN
                        /\ Len(LoopAt(g, i).order) = L - x
                        /\ LoopAt(g, i).scanned + x = i /\ x \in 0 .. i
                        /\ LoopAt(g, i).scanned \in Int
      OBVIOUS
    <2>1. LoopAt(g, i).scanned \in Int
      <3>1. i \in Nat
        BY <1>1
      <3> QED BY <3>1, SpentAndKept DEF LoopAt
    <2> QED BY <1>1, <2>1, LoopAfterTurns
  <1>4. CASE L <= MaxDescriptors
    <2>1. Trim(g) = g
      BY <1>1, <1>4 DEF Trim
    <2>2. LoopAt(g, 0).order = g.order
      <3>1. EntriesAt(g.order, {}) = <<>>
        <4>1. {} \in SUBSET (1 .. Len(g.order)) /\ Cardinality({}) = 0
          BY FS_EmptySet
        <4>2. EntriesAt(g.order, {}) \in Seq(DOMAIN g.records)
              /\ Len(EntriesAt(g.order, {})) = 0
          BY <1>2, <4>1, EntriesInOrder
        <4> QED BY <4>2, EmptySeq
      <3>2. SubSeq(g.order, 1, Len(g.order)) = g.order
        BY <1>2, SubSeqFull
      <3>3. 0 + 1 = 1 /\ KeptUpTo(g, 0) = {}
        BY NoneScanned
      <3> QED BY <1>2, <3>1, <3>2, <3>3, ConcatEmptySeq DEF LoopAt
    <2>3. LoopAt(g, 0).kept = DOMAIN g.records
      BY NoneScanned DEF LoopAt
    <2>4. ~Continues(LoopAt(g, 0))
      BY <1>1, <1>4, <2>2, MaxDescriptorsAssumption DEF Continues
    <2>5. \A i \in 0 .. L : ~(i < 0)
      OBVIOUS
    <2> QED BY <1>1, <2>1, <2>2, <2>3, <2>4, <2>5
  <1>5. CASE ~(L <= MaxDescriptors)
    <2>1. PICK excess \in Nat \ {0} : excess = L - MaxDescriptors
      BY <1>5, MaxDescriptorsAssumption
    <2>2. PICK e \in 0 .. L :
            /\ e = ScanEnd(g, excess)
            /\ e = L \/ Cardinality(SpentUpTo(g, e)) = excess
      BY <1>1, <1>2, ScanEnds
    <2>3. Trim(g).order = LoopAt(g, e).order /\ DOMAIN Trim(g).records = LoopAt(g, e).kept
      BY <1>1, <1>5, <2>1, <2>2 DEF Trim, LoopAt, EachListed, KeptUpTo
    <2>4. ASSUME NEW i \in 0 .. L, i < e PROVE Continues(LoopAt(g, i))
      <3>1. PICK x : x = Cardinality(SpentUpTo(g, i))
        OBVIOUS
      <3>2. x < excess
        BY <1>1, <2>2, <2>4, <3>1, ScanGoesOn
      <3>3. PICK a, c : a = Len(LoopAt(g, i).order) /\ c = LoopAt(g, i).scanned
        OBVIOUS
      <3>4. a = L - x /\ c + x = i /\ x \in 0 .. i /\ c \in Int
        BY <1>3, <3>1, <3>3
      <3>5. a > MaxDescriptors /\ c < a
        BY <2>1, <2>2, <2>4, <3>2, <3>4, MaxDescriptorsAssumption
      <3> QED BY <3>3, <3>5 DEF Continues
    <2>5. ~Continues(LoopAt(g, e))
      <3>1. PICK x, a, c : /\ x = Cardinality(SpentUpTo(g, e))
                           /\ a = Len(LoopAt(g, e).order) /\ c = LoopAt(g, e).scanned
        OBVIOUS
      <3>2. a = L - x /\ c + x = e /\ x \in 0 .. e /\ c \in Int
        BY <1>3, <3>1
      <3>3. ~(a > MaxDescriptors) \/ ~(c < a)
        BY <2>1, <2>2, <3>1, <3>2, MaxDescriptorsAssumption
      <3> QED BY <3>1, <3>3 DEF Continues
    <2> QED BY <1>1, <2>3, <2>4, <2>5
  <1> QED BY <1>4, <1>5

LoopBody(turns, order, kept) ==
    [n \in 0 .. 2 * Len(order) |->
       IF n = 0 THEN [order |-> order, kept |-> kept, scanned |-> 0]
       ELSE LET loop == turns[n - 1] IN
            IF Continues(loop) THEN TrimTurn(loop) ELSE loop]

LEMMA LoopIsBody ==
    ASSUME NEW order, NEW kept
    PROVE  TrimLoop(order, kept)
             = (CHOOSE t : t = LoopBody(t, order, kept))[2 * Len(order)]
  BY Zenon DEF TrimLoop, LoopBody

LEMMA LoopRuns ==
    ASSUME NEW g, EachListed(g), \A k : IsUndoable(history', k) <=> IsUndoable(g, k),
           NEW e \in 0 .. Len(g.order), ~Continues(LoopAt(g, e)),
           \A i \in 0 .. Len(g.order) : i < e => Continues(LoopAt(g, i))
    PROVE  TrimLoop(g.order, DOMAIN g.records) = LoopAt(g, e)
  <1>1. PICK order, kept : order = g.order /\ kept = DOMAIN g.records
    OBVIOUS
  <1>2. PICK L \in Nat : L = Len(order)
    BY <1>1, LenProperties DEF EachListed
  <1> DEFINE f == [n \in 0 .. 2 * L |-> LoopAt(g, IF n <= e THEN n ELSE e)]
             chosen == CHOOSE t : t = LoopBody(t, order, kept)
             Start == [order |-> order, kept |-> kept, scanned |-> 0]
             Step(loop) == IF Continues(loop) THEN TrimTurn(loop) ELSE loop
  <1>3. LoopAt(g, 0) = Start
    <2>1. EntriesAt(g.order, {}) = <<>>
      <3>1. {} \in SUBSET (1 .. Len(g.order)) /\ Cardinality({}) = 0
        BY FS_EmptySet
      <3>2. EntriesAt(g.order, {}) \in Seq(DOMAIN g.records)
            /\ Len(EntriesAt(g.order, {})) = 0
        BY <3>1, EntriesInOrder DEF EachListed
      <3> QED BY <3>2, EmptySeq
    <2>2. SubSeq(g.order, 1, Len(g.order)) = g.order /\ g.order \o <<>> = g.order
      BY SubSeqFull, ConcatEmptySeq DEF EachListed
    <2>3. 0 + 1 = 1
      OBVIOUS
    <2> QED BY <1>1, <2>1, <2>2, <2>3, NoneScanned DEF LoopAt
  <1>4. ASSUME NEW i \in 0 .. 2 * L, i # 0
        PROVE  f[i] = Step(f[i - 1]) /\ i - 1 \in 0 .. 2 * L
    <2>1. i - 1 \in 0 .. 2 * L /\ i \in Nat /\ i - 1 \in Nat /\ (i - 1) + 1 = i
      BY <1>2, <1>4
    <2>2. e \in Nat /\ e <= L
      BY <1>1, <1>2
    <2>3. CASE i <= e
      <3>1. f[i] = LoopAt(g, i) /\ f[i - 1] = LoopAt(g, i - 1)
        BY <2>1, <2>2, <2>3
      <3>2. i - 1 < e /\ i - 1 \in 0 .. Len(g.order) /\ i - 1 < Len(g.order)
        BY <1>1, <1>2, <2>1, <2>2, <2>3
      <3>3. Continues(LoopAt(g, i - 1))
        BY <3>2
      <3>4. TrimTurn(LoopAt(g, i - 1)) = LoopAt(g, i)
        BY <2>1, <3>2, TurnScansOneMore
      <3> HIDE DEF f
      <3> QED BY <2>1, <3>1, <3>3, <3>4
    <2>4. CASE ~(i <= e)
      <3>1. i - 1 = e \/ ~(i - 1 <= e)
        BY <2>1, <2>2, <2>4
      <3>2. f[i] = LoopAt(g, e) /\ f[i - 1] = LoopAt(g, e)
        BY <2>1, <2>4, <3>1
      <3> HIDE DEF f
      <3> QED BY <2>1, <3>2
    <2> QED BY <2>3, <2>4
  <1>5. f[0] = Start
    BY <1>2, <1>3
  <1>6. \A t : LoopBody(t, order, kept)
                 = [n \in 0 .. 2 * L |-> IF n = 0 THEN Start ELSE Step(t[n - 1])]
    BY <1>2 DEF LoopBody
  <1>7. f = LoopBody(f, order, kept)
    <2>1. f = [n \in 0 .. 2 * L |-> f[n]]
      OBVIOUS
    <2>2. \A n \in 0 .. 2 * L : f[n] = IF n = 0 THEN Start ELSE Step(f[n - 1])
      <3> HIDE DEF f, Start, Step
      <3> QED BY <1>4, <1>5
    <2> HIDE DEF f, Start, Step
    <2> QED BY <1>6, <2>1, <2>2
  <1>8. chosen = LoopBody(chosen, order, kept)
    <2> HIDE DEF f
    <2> QED BY <1>7, Zenon
  <1>9. PICK t : t = chosen
    OBVIOUS
  <1>10. \A n \in 0 .. 2 * L : t[n] = IF n = 0 THEN Start ELSE Step(t[n - 1])
    <2> HIDE DEF chosen, Start, Step
    <2> QED BY <1>6, <1>8, <1>9
  <1> DEFINE T == {n \in 0 .. 2 * L : t[n] # f[n]}
  <1>11. ASSUME T # {} PROVE FALSE
    <2>1. T \in SUBSET Nat
      BY <1>2
    <2>2. PICK n \in T : \A k \in T : n <= k
      <3> HIDE DEF T
      <3> QED BY <1>11, <2>1, LeastNatural
    <2>3. n \in 0 .. 2 * L /\ t[n] # f[n]
      <3> HIDE DEF f
      <3> QED BY <2>2
    <2>4. n # 0
      <3> HIDE DEF f, Start, Step
      <3> QED BY <1>5, <1>10, <2>3
    <2>5. n - 1 \in 0 .. 2 * L /\ f[n] = Step(f[n - 1])
      <3> HIDE DEF f, Start, Step
      <3> QED BY <1>4, <2>3, <2>4
    <2>6. t[n] = Step(t[n - 1])
      <3> HIDE DEF f, Start, Step
      <3> QED BY <1>10, <2>3, <2>4
    <2>7. t[n - 1] = f[n - 1]
      <3>1. ~(n <= n - 1)
        BY <1>2, <2>3
      <3>2. n - 1 \notin T
        <4> HIDE DEF T
        <4> QED BY <2>2, <3>1
      <3> HIDE DEF f
      <3> QED BY <2>5, <3>2
    <2> HIDE DEF f, Step
    <2> QED BY <2>3, <2>5, <2>6, <2>7
  <1>12. 2 * L \in 0 .. 2 * L /\ t[2 * L] = f[2 * L]
    <2>1. 2 * L \in 0 .. 2 * L
      BY <1>2
    <2> HIDE DEF f
    <2> QED BY <1>11, <2>1
  <1>13. f[2 * L] = LoopAt(g, e)
    <2>1. 2 * L = e \/ ~(2 * L <= e)
      BY <1>1, <1>2
    <2> QED BY <1>12, <2>1
  <1>14. TrimLoop(order, kept) = t[2 * L]
    <2> HIDE DEF f, Start, Step
    <2> QED BY <1>2, <1>9, LoopIsBody
  <1> HIDE DEF f
  <1> QED BY <1>1, <1>12, <1>13, <1>14

(* The closed form of the eviction, on which the other results rest, is not *)
(* a simplification: after every commit the list and the records are those  *)
(* that the while loop of trim leaves, turn by turn, when it ends.          *)
THEOREM TheLoopIsTheClosedForm ==
    EvictionSpec => TrimIsTheLoop
  <1>1. ASSUME EvictionInv, NEW d \in HistoryDocuments, Commit(d)
        PROVE  LET key  == Handle(d, revision'[d])
                   loop == TrimLoop(Append(history.order, key),
                                    DOMAIN history.records \cup {key})
               IN  /\ ~Continues(loop)
                   /\ history'.order = loop.order
                   /\ DOMAIN history'.records = loop.kept
    <2>1. PICK g : LET key == Handle(d, revision'[d]) IN
            /\ history' = Trim(g) /\ EachListed(g) /\ UndoKept(g)
            /\ g.order = Append(history.order, key)
            /\ DOMAIN g.records = DOMAIN history.records \cup {key}
      BY <1>1, CommitTrims
    <2>2. \A k : IsUndoable(history', k) <=> IsUndoable(g, k)
      BY <2>1, TrimKeeps
    <2>3. PICK e \in 0 .. Len(g.order) :
            /\ \A i \in 0 .. Len(g.order) : i < e => Continues(LoopAt(g, i))
            /\ ~Continues(LoopAt(g, e))
            /\ Trim(g).order = LoopAt(g, e).order
            /\ DOMAIN Trim(g).records = LoopAt(g, e).kept
      BY <2>1, LoopStops
    <2>4. TrimLoop(g.order, DOMAIN g.records) = LoopAt(g, e)
      BY <2>1, <2>2, <2>3, LoopRuns
    <2> QED BY <2>1, <2>3, <2>4
  <1>2. EvictionInv /\ [EvictionNext]_evictionVars =>
          [\A d \in HistoryDocuments : Commit(d) =>
             LET key  == Handle(d, revision'[d])
                 loop == TrimLoop(Append(history.order, key),
                                  DOMAIN history.records \cup {key})
             IN  /\ ~Continues(loop)
                 /\ history'.order = loop.order
                 /\ DOMAIN history'.records = loop.kept]_evictionVars
    BY <1>1
  <1> QED BY <1>2, EvictionInvariant, PTL DEF EvictionSpec, TrimIsTheLoop
=============================================================================
