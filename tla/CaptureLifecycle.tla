------------------------- MODULE CaptureLifecycle -------------------------
(***************************************************************************)
(* The life of captured exchanges across one process and its restarts: the *)
(* proxy's live capture (server/proxy/mitm-proxy.ts), the metadata journal *)
(* (capture-journal.ts), the files of the two original bodies              *)
(* (body-store.ts), the rows, tombstones and deletion jobs in SQLite       *)
(* (retention.ts, original-deletions.ts) and startup recovery (server.ts). *)
(*                                                                         *)
(* A process may die between any two steps; what is durable survives it:   *)
(* journal files, body files and the database.                             *)
(***************************************************************************)
EXTENDS Integers

CONSTANTS
    Captures,         \* the exchanges observed; each has one request id and two body ids
    NoCapture         \* a value that is not a capture

ASSUME CapturesAssumption == NoCapture \notin Captures

VARIABLES
    \* durable: the journal directory and the originals
    journals,     \* captures that have a journal file
    stored,       \* what that file says
    file,         \* per body: "absent", "part" or "body"
    \* durable: SQLite
    rows,         \* captures that have a proxy_requests row
    saved,        \* what that row says
    tombstones,   \* captures that have a deletion marker
    job,          \* original-deletion jobs
    expired,      \* captures older than the cutoff read last
    \* the process
    up,           \* the server process runs
    monitor,      \* ProxyRuntime: "idle", "starting", "running", "stopping"
    shutdown,     \* what proxy.shutdown waits for: "none", "grace" (the requests),
                  \* "sockets" (the WebSockets), "writes" (the finalizations)
    awaited,      \* the finalizations it has taken from `writes`
    store,        \* getFileStore: "closed", "resuming", "ready"
    startup,      \* how the first recovery of this process ended
    recStatus, recTodo, recCur, recStep, recRefs,   \* CaptureJournal.recover
    delCur, delStep, delTodo,                       \* OriginalDeletionQueue.execute
    \* one live capture each
    phase,        \* where onRequest .. finalizeCapture stands
    entry,        \* CaptureJournalTicket.entry, the snapshot in memory
    dirty,        \* the ticket has a job running or queued
    admission,    \* the promise that gates the writers
    writer,       \* CaptureBodyWriter of each direction
    \* history, read by properties only
    saves,        \* how often a row was inserted for the capture
    notified      \* captures announced as saved

diskVars == <<journals, stored, file>>
dbVars   == <<rows, saved, tombstones, job, expired>>
procVars == <<up, monitor, shutdown, awaited, store, startup>>
recVars  == <<recStatus, recTodo, recCur, recStep, recRefs>>
delVars  == <<delCur, delStep, delTodo>>
liveVars == <<phase, entry, dirty, admission, writer>>
history  == <<saves, notified>>
vars     == <<diskVars, dbVars, procVars, recVars, delVars, liveVars, history>>

---------------------------------------------------------------------------
(* Values *)

Directions == {"request", "response"}

\* CaptureBodyRef.status.  The three truncations (body_limit, quota_exceeded,
\* queue_full) are told apart in BodyStore; here they count as write_error.
RefStatus == {"complete", "interrupted", "write_error"}

\* CaptureTransportResult.state: "completed" stands for completed/http_error,
\* "cut" for cancelled/interrupted/timeout/network_error.
Outcome == {"completed", "cut"}

Entry == [ended   : SUBSET Directions,
          outcome : Outcome \cup {"none"},
          refs    : [Directions -> RefStatus \cup {"none"}]]

Row == [ended   : SUBSET Directions,
        outcome : Outcome \cup {"lost", "none"},
        refs    : [Directions -> RefStatus \cup {"none"}]]

NoRefs == [d \in Directions |-> "none"]
Blank  == [ended |-> {}, outcome |-> "none", refs |-> NoRefs]

Writer == {"none", "gated", "open", "damaged", "failed"} \cup RefStatus

\* The capture is owned by the running proxy.
LivePhase == {"open", "sealing", "finishing", "indexing", "timing",
              "committing", "removing", "notifying"}
Phase == LivePhase \cup {"new", "saved", "failed", "gone"}
Live(c) == phase[c] \in LivePhase

\* store.activeBodies > 0
WritersActive ==
    \E c \in Captures, d \in Directions : writer[c][d] \in {"gated", "open", "damaged", "failed"}

PendingJobs == {c \in Captures : job[c] = "pending"}

Begun == {c \in Captures : phase[c] # "new"}

\* proxyRetentionCutoff.  A start may enable, shorten, lengthen or disable the
\* policy (no capture is expired then); within a process time only moves on.
ReadCutoff(atLeast) ==
    \E S \in SUBSET Begun : atLeast \subseteq S /\ expired' = S

\* The transaction both commit paths share: committedCaptureId, then insert.
Insert(c, row) ==
    IF c \in rows
    THEN UNCHANGED <<rows, saved, saves>>
    ELSE /\ rows' = rows \cup {c}
         /\ saved' = [saved EXCEPT ![c] = row]
         /\ saves' = [saves EXCEPT ![c] = @ + 1]

---------------------------------------------------------------------------
Init ==
    /\ journals = {} /\ stored = [c \in Captures |-> Blank]
    /\ file = [c \in Captures |-> [d \in Directions |-> "absent"]]
    /\ rows = {} /\ saved = [c \in Captures |-> Blank]
    /\ tombstones = {} /\ job = [c \in Captures |-> "none"] /\ expired = {}
    /\ up = FALSE /\ monitor = "idle" /\ store = "closed" /\ startup = "pending"
    /\ shutdown = "none" /\ awaited = {}
    /\ recStatus = "idle" /\ recTodo = {} /\ recCur = NoCapture /\ recStep = "pick"
    /\ recRefs = NoRefs
    /\ delCur = NoCapture /\ delStep = "none" /\ delTodo = {}
    /\ phase = [c \in Captures |-> "new"] /\ entry = [c \in Captures |-> Blank]
    /\ dirty = [c \in Captures |-> FALSE]
    /\ admission = [c \in Captures |-> "waiting"]
    /\ writer = [c \in Captures |-> [d \in Directions |-> "none"]]
    /\ saves = [c \in Captures |-> 0] /\ notified = {}

---------------------------------------------------------------------------
(* Faulty variants: each is one of the actions below with a single plausible *)
(* mistake.  None is part of Next; they show which mistake a property finds. *)

OpenBeforeAdmission(c, d) ==
    /\ writer[c][d] = "gated"
    /\ file' = [file EXCEPT ![c][d] = "part"]
    /\ writer' = [writer EXCEPT ![c][d] = "open"]
    /\ UNCHANGED <<journals, stored, dbVars, procVars, recVars, delVars,
                   phase, entry, dirty, admission, history>>

PersistFailsSilently(c) ==
    /\ up /\ dirty[c]
    /\ dirty' = [dirty EXCEPT ![c] = FALSE]
    /\ UNCHANGED <<phase, entry, admission, writer, diskVars, dbVars, procVars, recVars, delVars, history>>

FinishIgnoresError(c, d) ==
    /\ phase[c] = "finishing" /\ writer[c][d] \in {"open", "damaged"}
    /\ writer' = [writer EXCEPT ![c][d] = IF d \in entry[c].ended THEN "complete" ELSE "interrupted"]
    /\ UNCHANGED <<diskVars, dbVars, procVars, recVars, delVars,
                   phase, entry, dirty, admission, history>>

IndexFirstRef(c) ==
    /\ phase[c] = "finishing" /\ \E d \in Directions : writer[c][d] \in RefStatus
    /\ entry' = [entry EXCEPT ![c].refs = writer[c]]
    /\ phase' = [phase EXCEPT ![c] = "indexing"]
    /\ dirty' = [dirty EXCEPT ![c] = TRUE]
    /\ UNCHANGED <<admission, writer, diskVars, dbVars, procVars, recVars, delVars, history>>

RetentionWithoutMarkers ==
    /\ ~up
    /\ ReadCutoff({})
    /\ rows' = rows \ expired'
    /\ saved' = [c \in Captures |-> IF c \in expired' THEN Blank ELSE saved[c]]
    /\ up' = TRUE /\ store' = "resuming" /\ startup' = "pending" /\ recStatus' = "waiting"
    /\ UNCHANGED <<tombstones, diskVars, job, monitor, shutdown, awaited, recTodo, recCur, recStep, recRefs, delVars,
                   liveVars, history>>

PickIgnoresMarker(c) ==
    /\ recStatus = "running" /\ recCur = NoCapture /\ c \in recTodo
    /\ recCur' = c
    /\ recStep' = IF c \in rows THEN "drop" ELSE "expire"
    /\ recRefs' = NoRefs
    /\ UNCHANGED <<recStatus, recTodo, diskVars, dbVars, procVars, delVars, liveVars, history>>

AlwaysLost ==
    [ended |-> stored[recCur].ended, outcome |-> "lost", refs |-> recRefs]

DoneTooEarly ==
    /\ recStatus = "running" /\ recCur = NoCapture
    /\ recStatus' = "done"
    /\ startup' = IF startup = "pending" THEN "ok" ELSE startup
    /\ UNCHANGED <<up, monitor, shutdown, awaited, store, recTodo, recCur, recStep, recRefs, diskVars, dbVars,
                   delVars, liveVars, history>>

SnapshotTooEarly ==
    /\ shutdown = "sockets"
    /\ shutdown' = "writes" /\ awaited' = {c \in Captures : Live(c) /\ phase[c] # "open"}
    /\ UNCHANGED <<diskVars, dbVars, up, monitor, store, startup, recVars, delVars, liveVars, history>>

DeletionWithoutIntent(c) ==
    /\ up /\ startup \in {"ok", "capacity"} /\ monitor = "idle" /\ delCur = NoCapture
    /\ c \in rows /\ job[c] # "complete"
    /\ delCur' = c /\ delStep' = "verify"
    /\ UNCHANGED <<delTodo, dbVars, diskVars, procVars, recVars, liveVars, history>>

---------------------------------------------------------------------------
(* The live capture *)

\* onRequest -> beginCapture: two gated writers and a ticket whose first
\* persist is queued at once.
BeginCapture(c) ==
    /\ monitor = "running" /\ phase[c] = "new"
    /\ phase' = [phase EXCEPT ![c] = "open"]
    /\ dirty' = [dirty EXCEPT ![c] = TRUE]
    /\ writer' = [writer EXCEPT ![c] = [d \in Directions |-> "gated"]]
    /\ UNCHANGED <<entry, admission, diskVars, dbVars, procVars, recVars, delVars, history>>

\* The ticket's coalesced job: the latest snapshot replaces the journal file
\* (scratch, fsync, rename); the first success admits the writers.
PersistJournal(c) ==
    /\ up /\ dirty[c]
    /\ journals' = journals \cup {c}
    /\ stored' = [stored EXCEPT ![c] = entry[c]]
    /\ dirty' = [dirty EXCEPT ![c] = FALSE]
    /\ admission' = [admission EXCEPT ![c] = IF @ = "waiting" THEN "granted" ELSE @]
    /\ UNCHANGED <<file, dbVars, procVars, recVars, delVars, phase, entry, writer, history>>

\* A full queue, a limit, refused capacity or an IO error: the job is dropped
\* and a first failure rejects the admission for good.
PersistFails(c) ==
    /\ up /\ dirty[c]
    /\ dirty' = [dirty EXCEPT ![c] = FALSE]
    /\ admission' = [admission EXCEPT ![c] = IF @ = "waiting" THEN "rejected" ELSE @]
    /\ UNCHANGED <<phase, entry, writer, diskVars, dbVars, procVars, recVars, delVars, history>>

\* begin(): admission.then(open .part).
OpenOriginal(c, d) ==
    /\ writer[c][d] = "gated" /\ admission[c] = "granted"
    /\ file' = [file EXCEPT ![c][d] = "part"]
    /\ writer' = [writer EXCEPT ![c][d] = "open"]
    /\ UNCHANGED <<journals, stored, dbVars, procVars, recVars, delVars,
                   phase, entry, dirty, admission, history>>

\* The admission was rejected: no handle, no file.
OpenRefused(c, d) ==
    /\ writer[c][d] = "gated" /\ admission[c] = "rejected"
    /\ writer' = [writer EXCEPT ![c][d] = "failed"]
    /\ UNCHANGED <<diskVars, dbVars, procVars, recVars, delVars,
                   phase, entry, dirty, admission, history>>

\* open itself fails.
OpenFails(c, d) ==
    /\ writer[c][d] = "gated" /\ admission[c] = "granted"
    /\ writer' = [writer EXCEPT ![c][d] = "failed"]
    /\ UNCHANGED <<diskVars, dbVars, procVars, recVars, delVars,
                   phase, entry, dirty, admission, history>>

\* A write fails or a limit stops collection; forwarding goes on.
WriteFails(c, d) ==
    /\ writer[c][d] = "open"
    /\ writer' = [writer EXCEPT ![c][d] = "damaged"]
    /\ UNCHANGED <<diskVars, dbVars, procVars, recVars, delVars,
                   phase, entry, dirty, admission, history>>

\* onResponse: status and headers go to the journal.
ObserveResponse(c) ==
    /\ phase[c] = "open" /\ ~dirty[c]
    /\ dirty' = [dirty EXCEPT ![c] = TRUE]
    /\ UNCHANGED <<phase, entry, admission, writer, diskVars, dbVars, procVars,
                   recVars, delVars, history>>

\* onRequestEnd / onResponseEnd; the second of the two settles the exchange,
\* and finalizeCapture queues the terminal journal update before it yields.
EndDirection(c, d) ==
    /\ phase[c] = "open" /\ d \notin entry[c].ended
    /\ LET ended == entry[c].ended \cup {d}
           over  == ended = Directions
       IN  /\ entry' = [entry EXCEPT ![c] = [ended   |-> ended,
                                             outcome |-> IF over THEN "completed" ELSE @.outcome,
                                             refs    |-> @.refs]]
           /\ phase' = [phase EXCEPT ![c] = IF over THEN "sealing" ELSE @]
    /\ dirty' = [dirty EXCEPT ![c] = TRUE]
    /\ UNCHANGED <<admission, writer, diskVars, dbVars, procVars, recVars, delVars, history>>

\* cancel -> settle: client gone, upstream error, or PROXY_STOPPED.
Cancel(c) ==
    /\ phase[c] = "open"
    /\ entry' = [entry EXCEPT ![c].outcome = "cut"]
    /\ phase' = [phase EXCEPT ![c] = "sealing"]
    /\ dirty' = [dirty EXCEPT ![c] = TRUE]
    /\ UNCHANGED <<admission, writer, diskVars, dbVars, procVars, recVars, delVars, history>>

\* finalizeCapture after each awaited journal update, whether it persisted or
\* failed.  A projection that carries timing costs one more update.
JournalSettled(c) ==
    /\ phase[c] \in {"sealing", "indexing", "timing"} /\ ~dirty[c]
    /\ \/ /\ phase[c] = "sealing"
          /\ phase' = [phase EXCEPT ![c] = "finishing"] /\ UNCHANGED dirty
       \/ /\ phase[c] = "indexing"
          /\ phase' = [phase EXCEPT ![c] = "timing"]
          /\ dirty' = [dirty EXCEPT ![c] = TRUE]
       \/ /\ phase[c] \in {"indexing", "timing"}
          /\ phase' = [phase EXCEPT ![c] = "committing"] /\ UNCHANGED dirty
    /\ UNCHANGED <<entry, admission, writer, diskVars, dbVars, procVars, recVars, delVars, history>>

\* finish(!ended): waits for the writer's chain, syncs, closes, renames.
FinishWriter(c, d) ==
    /\ phase[c] = "finishing" /\ writer[c][d] \in {"open", "damaged", "failed"}
    /\ writer' = [writer EXCEPT ![c][d] =
                     IF @ # "open" THEN "write_error"
                     ELSE IF d \in entry[c].ended THEN "complete" ELSE "interrupted"]
    /\ file' = [file EXCEPT ![c][d] = IF @ = "part" THEN "body" ELSE @]
    /\ UNCHANGED <<journals, stored, dbVars, procVars, recVars, delVars,
                   phase, entry, dirty, admission, history>>

\* sync, close or rename fails.
FinishFails(c, d) ==
    /\ phase[c] = "finishing" /\ writer[c][d] \in {"open", "damaged"}
    /\ writer' = [writer EXCEPT ![c][d] = "write_error"]
    /\ UNCHANGED <<diskVars, dbVars, procVars, recVars, delVars,
                   phase, entry, dirty, admission, history>>

\* Both originals are closed: their refs go to the journal.
IndexRefs(c) ==
    /\ phase[c] = "finishing" /\ \A d \in Directions : writer[c][d] \in RefStatus
    /\ entry' = [entry EXCEPT ![c].refs = writer[c]]
    /\ phase' = [phase EXCEPT ![c] = "indexing"]
    /\ dirty' = [dirty EXCEPT ![c] = TRUE]
    /\ UNCHANGED <<admission, writer, diskVars, dbVars, procVars, recVars, delVars, history>>

\* The transaction of finalizeCapture, once retryCaptureCommit gets through.
Commit(c) ==
    /\ phase[c] = "committing"
    /\ Insert(c, entry[c])
    /\ phase' = [phase EXCEPT ![c] = "removing"]
    /\ UNCHANGED <<tombstones, job, expired, notified, entry, dirty, admission, writer,
                   diskVars, procVars, recVars, delVars>>

\* Three busy attempts, another SQLite error, or refused capacity.
CommitFails(c) ==
    /\ phase[c] = "committing"
    /\ phase' = [phase EXCEPT ![c] = "failed"]
    /\ UNCHANGED <<entry, dirty, admission, writer, diskVars, dbVars, procVars,
                   recVars, delVars, history>>

\* journal.remove after the commit; its failure is only reported.
RemoveJournal(c) ==
    /\ phase[c] = "removing"
    /\ journals' = journals \ {c}
    /\ stored' = [stored EXCEPT ![c] = Blank]
    /\ phase' = [phase EXCEPT ![c] = "notifying"]
    /\ UNCHANGED <<file, entry, dirty, admission, writer, dbVars, procVars,
                   recVars, delVars, history>>

RemoveFails(c) ==
    /\ phase[c] = "removing"
    /\ phase' = [phase EXCEPT ![c] = "notifying"]
    /\ UNCHANGED <<entry, dirty, admission, writer, diskVars, dbVars, procVars,
                   recVars, delVars, history>>

Notify(c) ==
    /\ phase[c] = "notifying"
    /\ notified' = notified \cup {c}
    /\ phase' = [phase EXCEPT ![c] = "saved"]
    /\ UNCHANGED <<saves, entry, dirty, admission, writer, diskVars, dbVars, procVars,
                   recVars, delVars>>

---------------------------------------------------------------------------
(* The process: start, monitor, crash *)

\* The CLI's self-check applies retention in one transaction, then the server
\* listens and opens the body store, which resumes deletions and recovers.
ServerStart ==
    /\ ~up
    /\ ReadCutoff({})
    /\ tombstones' = tombstones \cup (rows \cap expired')
    /\ rows' = rows \ expired'
    /\ saved' = [c \in Captures |-> IF c \in expired' THEN Blank ELSE saved[c]]
    /\ up' = TRUE /\ store' = "resuming" /\ startup' = "pending" /\ recStatus' = "waiting"
    /\ UNCHANGED <<diskVars, job, monitor, shutdown, awaited, recTodo, recCur, recStep, recRefs, delVars,
                   liveVars, history>>

\* resumePending found no more job: the store is open.
StoreReady ==
    /\ store = "resuming" /\ delCur = NoCapture /\ PendingJobs = {}
    /\ store' = "ready"
    /\ UNCHANGED <<diskVars, dbVars, up, monitor, shutdown, awaited, startup, recVars, delVars, liveVars, history>>

\* ProxyRuntime.start; boot awaits getBodyStore, which retries a failed recovery.
StartMonitor ==
    /\ up /\ monitor = "idle"
    /\ delCur # NoCapture => store = "resuming"          \* no maintenance
    /\ monitor' = "starting"
    /\ recStatus' = IF recStatus = "failed" THEN "waiting" ELSE recStatus
    /\ store' = IF store = "closed" THEN "resuming" ELSE store
    /\ UNCHANGED <<diskVars, dbVars, up, shutdown, awaited, startup, recTodo, recCur, recStep, recRefs,
                   delVars, liveVars, history>>

BootMonitor ==
    /\ monitor = "starting" /\ recStatus \in {"done", "failed"}
    /\ monitor' = IF recStatus = "done" THEN "running" ELSE "idle"
    /\ UNCHANGED <<diskVars, dbVars, up, shutdown, awaited, store, startup, recVars, delVars, liveVars, history>>

\* stop refuses new exchanges and lets proxy.shutdown drain those there are.
StopMonitor ==
    /\ monitor = "running"
    /\ monitor' = "stopping" /\ shutdown' = "grace"
    /\ UNCHANGED <<diskVars, dbVars, up, awaited, store, startup, recVars, delVars, liveVars, history>>

\* The grace is over: every request still open is cut in one turn.  A WebSocket
\* was terminated when the stop began, and is settled by its close events.
EndGrace ==
    /\ shutdown = "grace"
    /\ shutdown' = "sockets"
    /\ \E cut \in SUBSET {c \in Captures : phase[c] = "open"} :
          /\ entry' = [c \in Captures |-> IF c \in cut THEN [entry[c] EXCEPT !.outcome = "cut"] ELSE entry[c]]
          /\ phase' = [c \in Captures |-> IF c \in cut THEN "sealing" ELSE phase[c]]
          /\ dirty' = [c \in Captures |-> c \in cut \/ dirty[c]]
    /\ UNCHANGED <<admission, writer, diskVars, dbVars, up, monitor, awaited, store, startup,
                   recVars, delVars, history>>

\* The last WebSocket is gone: the finalizations under way are the ones awaited.
SocketsClosed ==
    /\ shutdown = "sockets" /\ \A c \in Captures : phase[c] # "open"
    /\ shutdown' = "writes" /\ awaited' = {c \in Captures : Live(c)}
    /\ UNCHANGED <<diskVars, dbVars, up, monitor, store, startup, recVars, delVars, liveVars, history>>

\* They have ended, the transport is closed, and so is the processor.
MonitorStopped ==
    /\ shutdown = "writes" /\ \A c \in awaited : ~Live(c)
    /\ monitor' = "idle" /\ shutdown' = "none" /\ awaited' = {}
    /\ UNCHANGED <<diskVars, dbVars, up, store, startup, recVars, delVars, liveVars, history>>

\* The process dies between any two steps; a clean exit is the same step.
Crash ==
    /\ up
    /\ up' = FALSE /\ monitor' = "idle" /\ store' = "closed" /\ startup' = "pending"
    /\ shutdown' = "none" /\ awaited' = {}
    /\ recStatus' = "idle" /\ recTodo' = {} /\ recCur' = NoCapture /\ recStep' = "pick"
    /\ recRefs' = NoRefs
    /\ delCur' = NoCapture /\ delStep' = "none" /\ delTodo' = {}
    /\ phase' = [c \in Captures |-> IF phase[c] = "new" THEN "new" ELSE "gone"]
    /\ entry' = [c \in Captures |-> Blank]
    /\ dirty' = [c \in Captures |-> FALSE]
    /\ admission' = [c \in Captures |-> "waiting"]
    /\ writer' = [c \in Captures |-> [d \in Directions |-> "none"]]
    /\ UNCHANGED <<diskVars, dbVars, history>>

---------------------------------------------------------------------------
(* Startup recovery: CaptureJournal.recover *)

RecoverBegin ==
    /\ recStatus = "waiting" /\ store = "ready"
    /\ recStatus' = "running" /\ recTodo' = journals
    /\ ReadCutoff(expired)
    /\ UNCHANGED <<diskVars, rows, saved, tombstones, job, procVars, recCur, recStep,
                   recRefs, delVars, liveVars, history>>

\* captureWasDeleted, committedCaptureId and the cutoff decide what happens.
RecoverPick(c) ==
    /\ recStatus = "running" /\ recCur = NoCapture /\ c \in recTodo
    /\ recCur' = c
    /\ recStep' = IF c \in tombstones \cup rows THEN "drop" ELSE "expire"
    /\ recRefs' = NoRefs
    /\ UNCHANGED <<recStatus, recTodo, diskVars, dbVars, procVars, delVars, liveVars, history>>

\* expireUncommittedCapture: the marker is written only for an old capture
\* without a row, and only a new marker (changes > 0) ends its recovery.
RecoverExpire ==
    /\ recStep = "expire"
    /\ LET expires == recCur \in expired \ (rows \cup tombstones)
       IN  /\ tombstones' = IF expires THEN tombstones \cup {recCur} ELSE tombstones
           /\ recStep' = IF expires THEN "drop" ELSE "request"
    /\ UNCHANGED <<rows, saved, job, expired, recStatus, recTodo, recCur, recRefs,
                   diskVars, procVars, delVars, liveVars, history>>

\* CaptureBodyStore.recover of one original; a .part becomes a .body.
BodyRef(c, d) ==
    IF file[c][d] = "absent" THEN "write_error"
    ELSE IF stored[c].refs[d] # "none" THEN stored[c].refs[d] ELSE "interrupted"

RecoverBody(d) ==
    /\ recStep = d
    /\ recRefs' = [recRefs EXCEPT ![d] = BodyRef(recCur, d)]
    /\ file' = [file EXCEPT ![recCur][d] = IF @ = "part" THEN "body" ELSE @]
    /\ recStep' = IF d = "request" THEN "response" ELSE "commit"
    /\ UNCHANGED <<journals, stored, dbVars, procVars, recStatus, recTodo, recCur,
                   delVars, liveVars, history>>

RecoveredRow ==
    [ended   |-> stored[recCur].ended,
     outcome |-> IF stored[recCur].outcome = "none" THEN "lost" ELSE stored[recCur].outcome,
     refs    |-> recRefs]

RecoverCommit ==
    /\ recStep = "commit"
    /\ Insert(recCur, RecoveredRow)
    /\ recStep' = "drop"
    /\ UNCHANGED <<tombstones, job, expired, notified, recStatus, recTodo, recCur, recRefs,
                   diskVars, procVars, delVars, liveVars>>

RecoverDrop ==
    /\ recStep = "drop"
    /\ journals' = journals \ {recCur}
    /\ stored' = [stored EXCEPT ![recCur] = Blank]
    /\ recTodo' = recTodo \ {recCur} /\ recCur' = NoCapture /\ recStep' = "pick"
    /\ recRefs' = NoRefs
    /\ UNCHANGED <<file, dbVars, procVars, recStatus, delVars, liveVars, history>>

RecoverDone ==
    /\ recStatus = "running" /\ recTodo = {}
    /\ recStatus' = "done"
    /\ startup' = IF startup = "pending" THEN "ok" ELSE startup
    /\ UNCHANGED <<up, monitor, shutdown, awaited, store, recTodo, recCur, recStep, recRefs, diskVars, dbVars,
                   delVars, liveVars, history>>

\* Any error abandons the pass with the evidence kept; refused capacity (from
\* the commit) is told apart because it still allows deleting committed rows.
RecoverFails(kind) ==
    /\ recStatus = "running"
    /\ kind = "capacity" => recStep = "commit"
    /\ recStatus' = "failed" /\ recTodo' = {} /\ recCur' = NoCapture /\ recStep' = "pick"
    /\ recRefs' = NoRefs
    /\ startup' = IF startup = "pending" THEN kind ELSE startup
    /\ UNCHANGED <<up, monitor, shutdown, awaited, store, diskVars, dbVars, delVars, liveVars, history>>

---------------------------------------------------------------------------
(* Deleting originals: OriginalDeletionQueue *)

\* POST /original-deletion under withStoppedMonitor: intent and marker commit
\* together; an existing unfinished job is run again.
RequestDeletion(c) ==
    /\ up /\ startup \in {"ok", "capacity"} /\ monitor = "idle" /\ delCur = NoCapture
    /\ c \in rows /\ job[c] # "complete"
    /\ job' = [job EXCEPT ![c] = IF @ = "none" THEN "pending" ELSE @]
    /\ tombstones' = tombstones \cup {c}
    /\ delCur' = c /\ delStep' = "verify"
    /\ UNCHANGED <<delTodo, rows, saved, expired, diskVars, procVars, recVars, liveVars, history>>

\* resumePending picks a job left by an earlier process.
ResumeDeletion(c) ==
    /\ store = "resuming" /\ delCur = NoCapture /\ c \in PendingJobs
    /\ delCur' = c /\ delStep' = "verify"
    /\ UNCHANGED <<delTodo, diskVars, dbVars, procVars, recVars, liveVars, history>>

\* execute re-marks the identity in the transaction that verifies the refs.
VerifyDeletion ==
    /\ delStep = "verify"
    /\ tombstones' = tombstones \cup {delCur}
    /\ delStep' = "inspect" /\ delTodo' = Directions
    /\ UNCHANGED <<delCur, rows, saved, job, expired, diskVars, procVars, recVars, liveVars, history>>

\* Both originals are read and checked before the first is unlinked.
InspectOriginal(d) ==
    /\ delStep = "inspect" /\ d \in delTodo /\ (d = "response" => "request" \notin delTodo)
    /\ file' = [file EXCEPT ![delCur][d] = IF @ = "part" THEN "body" ELSE @]
    /\ delTodo' = delTodo \ {d}
    /\ UNCHANGED <<delCur, delStep, journals, stored, dbVars, procVars, recVars, liveVars, history>>

\* removeOriginals refuses while a writer is active.
BeginRemoval ==
    /\ delStep = "inspect" /\ delTodo = {} /\ ~WritersActive
    /\ delStep' = "remove" /\ delTodo' = Directions
    /\ UNCHANGED <<delCur, diskVars, dbVars, procVars, recVars, liveVars, history>>

RemoveOriginal(d) ==
    /\ delStep = "remove" /\ d \in delTodo /\ (d = "response" => "request" \notin delTodo)
    /\ file' = [file EXCEPT ![delCur][d] = "absent"]
    /\ delTodo' = delTodo \ {d}
    /\ UNCHANGED <<delCur, delStep, journals, stored, dbVars, procVars, recVars, liveVars, history>>

\* The job row is written last.
CompleteDeletion ==
    /\ delStep = "remove" /\ delTodo = {}
    /\ job' = [job EXCEPT ![delCur] = "complete"]
    /\ delCur' = NoCapture /\ delStep' = "none"
    /\ UNCHANGED <<delTodo, rows, saved, tombstones, expired, diskVars, procVars, recVars,
                   liveVars, history>>

\* Any error of a step: a reader or writer holds the store, IO, a conflict.
DeletionFails ==
    /\ delStep \in {"verify", "inspect", "remove"}
    /\ delStep' = "fail" /\ delTodo' = {}
    /\ UNCHANGED <<delCur, diskVars, dbVars, procVars, recVars, liveVars, history>>

RecordFailure ==
    /\ delStep = "fail"
    /\ job' = [job EXCEPT ![delCur] = "failed"]
    /\ delCur' = NoCapture /\ delStep' = "none"
    /\ UNCHANGED <<delTodo, rows, saved, tombstones, expired, diskVars, procVars, recVars,
                   liveVars, history>>

\* CAPTURE_DELETE_STATE_WRITE_FAILED: the job keeps its state; if the store was
\* being opened, getFileStore and the recovery that waits for it fail too.
RecordFailureFails ==
    /\ delStep = "fail"
    /\ delCur' = NoCapture /\ delStep' = "none"
    /\ IF store = "resuming"
       THEN /\ store' = "closed" /\ recStatus' = "failed"
            /\ startup' = IF startup = "pending" THEN "failed" ELSE startup
       ELSE UNCHANGED <<store, recStatus, startup>>
    /\ UNCHANGED <<delTodo, diskVars, dbVars, up, monitor, shutdown, awaited, recTodo, recCur, recStep, recRefs,
                   liveVars, history>>

---------------------------------------------------------------------------
(* Specification *)

CaptureStep(c) ==
    \/ PersistJournal(c) \/ ObserveResponse(c) \/ Cancel(c)
    \/ JournalSettled(c) \/ IndexRefs(c) \/ Commit(c) \/ RemoveJournal(c) \/ Notify(c)
    \/ \E d \in Directions : 
          OpenOriginal(c, d) \/ OpenRefused(c, d) \/ EndDirection(c, d) \/ FinishWriter(c, d)

CaptureFault(c) ==
    \/ PersistFails(c) \/ CommitFails(c) \/ RemoveFails(c)
    \/ \E d \in Directions : OpenFails(c, d) \/ WriteFails(c, d) \/ FinishFails(c, d)

RecoveryStep ==
    \/ StoreReady \/ RecoverBegin \/ RecoverExpire \/ RecoverCommit \/ RecoverDrop \/ RecoverDone
    \/ \E c \in Captures : RecoverPick(c)
    \/ \E d \in Directions : RecoverBody(d)

DeletionStep ==
    \/ VerifyDeletion \/ BeginRemoval \/ CompleteDeletion \/ RecordFailure
    \/ \E c \in Captures : ResumeDeletion(c)
    \/ \E d \in Directions : InspectOriginal(d) \/ RemoveOriginal(d)

MonitorStep ==
    \/ StartMonitor \/ BootMonitor \/ StopMonitor
    \/ EndGrace \/ SocketsClosed \/ MonitorStopped

Step ==
    \/ ServerStart \/ MonitorStep \/ RecoveryStep \/ DeletionStep
    \/ \E c \in Captures : BeginCapture(c) \/ CaptureStep(c) \/ RequestDeletion(c)

Fault ==
    \/ Crash \/ DeletionFails \/ RecordFailureFails
    \/ \E kind \in {"capacity", "failed"} : RecoverFails(kind)
    \/ \E c \in Captures : CaptureFault(c)

Next == Step \/ Fault

Spec == Init /\ [][Next]_vars

\* The event loop runs what it has queued: every started step ends, well or
\* badly, and so does the grace of a stop.  Clients, the operator, the clock and
\* crashes owe nothing.  Nor do the last two waits of a stop: a socket may never
\* close, and the worker of the processor may never end.
Fairness ==
    /\ \A c \in Captures :
        /\ WF_vars(PersistJournal(c) \/ PersistFails(c))
        /\ WF_vars(JournalSettled(c) \/ IndexRefs(c) \/ Commit(c) \/ CommitFails(c)
                   \/ RemoveJournal(c) \/ RemoveFails(c) \/ Notify(c))
        /\ \A d \in Directions :
            /\ WF_vars(OpenOriginal(c, d) \/ OpenRefused(c, d) \/ OpenFails(c, d))
            /\ WF_vars(FinishWriter(c, d) \/ FinishFails(c, d))
    /\ WF_vars(BootMonitor) /\ WF_vars(EndGrace)
    /\ WF_vars(RecoveryStep \/ \E kind \in {"capacity", "failed"} : RecoverFails(kind))
    /\ WF_vars(DeletionStep \/ DeletionFails \/ RecordFailureFails)

FairSpec == Spec /\ Fairness

---------------------------------------------------------------------------
(* Properties *)

TypeOK ==
    /\ journals \subseteq Captures /\ rows \subseteq Captures /\ tombstones \subseteq Captures
    /\ stored \in [Captures -> Entry] /\ saved \in [Captures -> Row]
    /\ file \in [Captures -> [Directions -> {"absent", "part", "body"}]]
    /\ job \in [Captures -> {"none", "pending", "failed", "complete"}]
    /\ expired \subseteq Captures
    /\ up \in BOOLEAN /\ monitor \in {"idle", "starting", "running", "stopping"}
    /\ shutdown \in {"none", "grace", "sockets", "writes"} /\ awaited \subseteq Captures
    /\ store \in {"closed", "resuming", "ready"}
    /\ startup \in {"pending", "ok", "capacity", "failed"}
    /\ recStatus \in {"idle", "waiting", "running", "done", "failed"}
    /\ recTodo \subseteq Captures /\ recCur \in Captures \cup {NoCapture}
    /\ recStep \in {"pick", "expire", "request", "response", "commit", "drop"}
    /\ recRefs \in [Directions -> RefStatus \cup {"none"}]
    /\ delCur \in Captures \cup {NoCapture} /\ delTodo \subseteq Directions
    /\ delStep \in {"none", "verify", "inspect", "remove", "fail"}
    /\ phase \in [Captures -> Phase] /\ entry \in [Captures -> Entry]
    /\ dirty \in [Captures -> BOOLEAN]
    /\ admission \in [Captures -> {"waiting", "granted", "rejected"}]
    /\ writer \in [Captures -> [Directions -> Writer]]
    /\ saves \in [Captures -> Nat] /\ notified \subseteq Captures

\* Every original on disk can be traced: a journal, a row or a deletion marker
\* names it, whatever failed and wherever the process died
\* (capture-journal.ts: durable before the originals, removed after the commit).
EvidenceTraceable ==
    \A c \in Captures, d \in Directions :
        file[c][d] # "absent" => c \in journals \cup rows \cup tombstones

\* Whatever is retried, recovered or restarted, a capture is inserted at most
\* once in its whole life, also after retention or a deletion took it away.
SavedAtMostOnce == \A c \in Captures : saves[c] <= 1

\* No saved notification without a committed row (finalizeCapture): the row is
\* there, or was deleted on purpose.
NotifiedIsCommitted == notified \subseteq rows \cup tombstones

\* A body reported complete was seen to its end and is a finished file, until
\* its deletion is confirmed.
CompleteIsWhole ==
    \A c \in rows \ tombstones, d \in Directions :
        saved[c].refs[d] = "complete" => d \in saved[c].ended /\ file[c][d] = "body"

\* A deletion reported complete has left no original, and none comes back.
CompleteDeletionIsEmpty ==
    \A c \in Captures, d \in Directions : job[c] = "complete" => file[c][d] = "absent"

\* The three owners of a capture's files exclude each other: while recovery
\* works or a deletion removes files, no live writer is active, and recovery
\* and deletion never overlap (boot, withStoppedMonitor, getFileStore).
OwnersExclude ==
    /\ recCur # NoCapture => ~WritersActive /\ delCur = NoCapture
    /\ delCur # NoCapture => ~WritersActive /\ monitor \in {"idle", "starting"}

\* What the journal durably recorded when the row is inserted is what the row
\* says: the observed outcome and the finished refs survive a crash unchanged.
RecordedEvidenceKept ==
    [][\A c \in journals : c \in rows' \ rows =>
          /\ stored[c].outcome # "none" => saved'[c].outcome = stored[c].outcome
          /\ \A d \in Directions :
                stored[c].refs[d] # "none" => saved'[c].refs[d] = stored[c].refs[d]]_vars

\* An original is unlinked only after its deletion intent and its marker are durable.
RemovalIsAuthorized ==
    [][\A c \in Captures, d \in Directions :
          file[c][d] # "absent" /\ file'[c][d] = "absent"
              => c \in tombstones /\ job[c] # "none"]_vars

\* finalizeCapture always ends: journal, writers and admission never wait for
\* each other in a circle, whichever of them fails.
FinalizationEnds ==
    \A c \in Captures : phase[c] = "sealing" ~> phase[c] \in {"saved", "failed", "gone"}

\* The sockets and the worker that a stop waits for do close.
ConnectionsClose ==
    /\ \A c \in Captures : WF_vars(shutdown = "sockets" /\ Cancel(c))
    /\ WF_vars(SocketsClosed) /\ WF_vars(MonitorStopped)

\* A stop is held up by nothing else: if they close, it ends, and then every
\* exchange is finalized (proxy.shutdown): none is missing from the finalizations
\* it took from `writes`, and none waits for the stop that waits for it.
StopEnds ==
    ConnectionsClose => (monitor = "stopping" ~> monitor = "idle" /\ \A c \in Captures : ~Live(c))

\* A journal left behind by an earlier process is settled once the server is
\* back, unless recovery reports a failure or the process dies again.
LeftoversSettle ==
    \A c \in Captures :
        c \in journals /\ recStatus = "waiting" ~> c \notin journals \/ recStatus = "failed" \/ ~up

\* A confirmed deletion left pending reaches a final state when the store is
\* opened again, unless that state cannot be written or the process dies.
DeletionSettles ==
    \A c \in Captures :
        store = "resuming" /\ job[c] = "pending"
            ~> job[c] \in {"failed", "complete"} \/ recStatus = "failed" \/ ~up

\* What a crash left behind is settled by a later process: journals by its
\* recovery, deletions when it opens the store.
RestartSettles == LeftoversSettle /\ DeletionSettles

\* What all of this implements: the fate of one capture, see CaptureLedger.
Fate(c) == IF c \in tombstones THEN "withdrawn"
           ELSE IF c \in rows THEN "saved"
           ELSE IF c \in journals THEN "held" ELSE "unknown"

Ledger == INSTANCE CaptureLedger WITH fate <- [c \in Captures |-> Fate(c)]
LedgerSpec == Ledger!Spec
===========================================================================
