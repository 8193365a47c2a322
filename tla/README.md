# Verification of the awesomeTelemetry server

awesomeTelemetry is a local workbench that observes coding agents. A proxy
records the exchanges between an agent and its model as *evidence*; session files,
hooks, OpenTelemetry and other captures add to it; a web page follows what
happens through an event feed. This directory models the parts of the server
whose correctness depends on order, failure or time, checks them with TLC, and
proves the central ones with TLAPS.

What is at stake: **captured evidence is never lost silently, never saved twice,
never called complete when it is not, and never removed without a recorded
decision**, whatever fails and wherever the process dies. Everything else here
serves that sentence or the path from it to the user.

Paths below are relative to the repository's root; `proxy/` stands for
`server/proxy/`.

## 1. Inventory

### The parts and their state

| Part | State it keeps | Operations | Talks to |
|---|---|---|---|
| Live capture, `proxy/mitm-proxy.ts` | per exchange: ends seen, finalization promise, two writers, a journal ticket | begin, request/response end, cancel, finalize, shutdown | body store, journal, processor, SQLite, event bus |
| Journal, `proxy/capture-journal.ts` | one file per uncommitted exchange; a serial queue; per ticket the latest snapshot | begin, update (coalescing), persist, remove, recover | body store, SQLite |
| Body store, `proxy/body-store.ts` | `.part` and `.body` files; bytes used, bytes and operations queued, active bodies and readers, a removal flag | begin, append, finish, read, recover, removeOriginals, create | file system |
| Deletions and retention, `proxy/original-deletions.ts`, `server/storage/retention.ts` | job rows, tombstone rows | request, run, resumePending; expire at start and in recovery | body store, SQLite |
| Storage ownership, `server/server.ts` | two cached promises (file store, body store), the first recovery | start, getFileStore, getBodyStore, close | all of the above |
| Monitor runtime, `proxy/controller.ts` | phase, generation, boot, stop request, cleanup, maintenance reservation | start, stop, boot, withStoppedMonitor | live capture |
| Processing pool, `proxy/capture-processor.ts`, `proxy/capture-resources.ts` | a job queue and worker per processor; process-wide leases of jobs, bytes and workers | project, pump, answer, fail, time out, close | worker threads |
| Event feed, `server/realtime/*.ts` | epoch, sequence, bounded replay log, open responses; the browser's last id | emit, resume, connect, disconnect; receive in `src/App.tsx` | the web page |
| Metadata lane, `proxy/capture-capacity.ts` | a queue of writes, the stamp of the last measurement | admit, measure, checkpoint, refuse | SQLite and its files |
| Claude hooks, `server/hooks/*.ts` | deliveries under way, on or off, configuration under way | receive, store, configure, close | lane, body files, configuration file |
| OpenTelemetry, `server/telemetry/receiver.ts` | the one intake, a chain of configurations | ingest, configure, close | lane, a worker, configuration file |
| Session scans, `server/watch/*.ts`, `local-sessions/scanner-utils.ts`, handlers of `server.ts` | timers, queued providers, the scan flag and the providers that wait for it, tasks that timed out, a gate (fingerprint) per file | change, scan, details, POST scan, delete, monitoring on and off | other programs' files, SQLite |
| Hydrator, `server/watch/task-home-hydrator.ts` | a lease per open page, a job per wanted member | subscribe, load, release, cancel, close | session scans, the page |
| Frida monitor, `proxy/controller.ts` | generation, child, stop task, three flags | start, spawn, output, fail, close, stop | a child process, SQLite |
| Readers of evidence: `proxy/capture-reparse.ts`, `server/codex/service.ts` | one reparse, one inspection, leases, the analysis rows | reparse, inspect, close | file store, body store, worker, deletions |
| Other inlets: DevTools, trace import | sockets, a worker | see section 6 | SQLite, event bus |
| Queries, analyses, parsers, adapters, page | none, or caches | functions of stored data | |

### How an exchange travels

`onRequest` creates two body writers and a journal ticket. The writers wait for
the ticket's first persist, so no original exists before a durable file names
it. Chunks are appended to bounded queues while the exchange is forwarded. At
its end `finalizeCapture` stores the outcome in the journal, seals both bodies,
stores their references in the journal, waits for the projection of a worker,
commits one transaction, removes the journal file and notifies the page. Any of
these steps may fail, be overtaken by Stop, or be the last thing the process
does. The next start applies retention, resumes deletions, and turns every
journal left behind into a row, a tombstone, or, when its row is there already,
nothing.

### What is hard here

`PROJECT.json` lists the hazards at their lines. In short:

- **Crashes** between the steps of finalization, of recovery itself, and of a
  deletion that unlinks two files and then writes its result.
- **Partial failure**: one body of two, one update of a coalesced series, the
  removal after a commit, a recount after an unlink.
- **Interleaving** of Stop with a boot, of maintenance with a start, of
  recovery, deletion and live capture on one directory, of a dying worker with
  new jobs.
- **Shared limits**: quota, queue bytes, pool bytes, frames in a log; each has
  several paths that take and several that must give back.
- **Staleness**: cached recovery, a resume id of another epoch, a fingerprint or
  a measurement taken before an await, a source that is deleted while it is read.
- **A flag tested before an await and set after it**, and work that goes on
  after its caller has been told it timed out.
- **Switching off and shutting down**: what was admitted before has to be waited
  for, by a wait that ends.

What each part must guarantee is the list of properties in section 4.

## 2. Modules

| Module | What it is | Composed of |
|---|---|---|
| `CaptureLifecycle` | the life of exchanges over one process and its restarts | abstracts BodyStore (a file is absent, part or body), CaptureProcessor (projection is one step) and ProxyRuntime (four phases) |
| `CaptureLedger` | abstract: each capture is unknown, held, saved or withdrawn | `CaptureLifecycle` implements it |
| `CaptureInvariant` | the inductive invariant of `CaptureLifecycle` | extends it |
| `CaptureLifecycleProofs` | one lemma per action; the theorems | extends the invariant |
| `ProxyRuntime` | start, stop and maintenance of the monitor | |
| `MonitorLease` | abstract: the capture files have one holder | `ProxyRuntime` implements it |
| `ProxyProofs` | the theorems of `ProxyRuntime` and `CaptureProcessor` | extends both |
| `FridaRuntime`, `FridaRuntimeProofs` | the Frida monitor and its process; its theorems | implements `MonitorLease` as well |
| `BodyStore`, `BodyStoreProofs` | the files and gauges of the originals in detail; its theorems | |
| `CaptureProcessor` | processors and the leases they share | |
| `EventStream`, `EventStreamProofs` | replay log, SSE response and browser; its theorems | |
| `MetadataLane` | the serialised writes of one database | |
| `HookIntake`, `TelemetryIntake` | the two receivers that write through it | each extends the lane |
| `Intake`, `IntakeProofs` | both at one lane, with the server's shutdown; its theorems | composes the three |
| `SessionScan` | watcher, scans, gate, details, monitoring | |
| `TaskHydrator` | pages that share the loading of details | abstracts SessionScan (a load succeeds or fails) |
| `SessionProofs` | the theorems of `SessionScan` and `TaskHydrator` | extends both |
| `EvidenceReaders`, `EvidenceReadersProofs` | reparse and inspection next to commits, deletions, retention and shutdown; their theorems | abstracts BodyStore and CaptureLifecycle (files, rows and jobs) |
| `MC...` | symmetry, functions and sizes for TLC, where a `.cfg` cannot state them | |

Every module names in its header the files it models, and `PROJECT.json` maps
each definition to lines. Actions carry the names of the functions they model.
Each module has a section of *faulty variants*: copies of one action or helper
with a single plausible mistake (a dropped guard, a swapped order, a leaked
lease). None is part of `Next`; replacing the correct definition by its variant
makes TLC report the property named in `PROJECT.json`, which shows that the
property depends on that piece of code.

### CaptureLifecycle

State is split as it is on the machine: durable files (`journals`, `stored`,
`file`), durable rows (`rows`, `saved`, `tombstones`, `job`, `expired`), and what a
crash forgets (the process, recovery, the deletion queue, live captures).

| Actions | Code |
|---|---|
| `ServerStart` | start of `server.ts`: retention, then recovery if a journal or a pending job exists |
| `StartMonitor`, `BootMonitor`, `StopMonitor` | ProxyRuntime around getBodyStore and shutdown |
| `EndGrace`, `SocketsClosed`, `MonitorStopped` | `proxy.shutdown`: the grace and the cut; the last WebSocket gone and the finalizations taken from `writes` (`awaited`); those, the transport and the processor ended |
| `BeginCapture`, `ObserveResponse`, `EndDirection`, `Cancel` | `onRequest` .. `onResponseEnd`, abort, errors and shutdown's cancel |
| `PersistJournal`, `PersistFails` | the ticket's coalescing job and its first admission |
| `OpenOriginal`, `OpenRefused`, `OpenFails`, `WriteFails`, `FinishWriter`, `FinishFails` | the two writers |
| `JournalSettled`, `IndexRefs`, `Commit`, `CommitFails`, `RemoveJournal`, `RemoveFails`, `Notify` | `finalizeCapture`, await by await |
| `StoreReady`, `RecoverBegin`, `RecoverPick`, `RecoverExpire`, `RecoverBody`, `RecoverCommit`, `RecoverDrop`, `RecoverDone`, `RecoverFails` | getFileStore, getBodyStore and `CaptureJournal.recover` |
| `RequestDeletion`, `ResumeDeletion`, `VerifyDeletion`, `InspectOriginal`, `BeginRemoval`, `RemoveOriginal`, `CompleteDeletion`, `DeletionFails`, `RecordFailure`, `RecordFailureFails` | `OriginalDeletionQueue` |
| `Crash` | death of the process between any two steps |

Abstractions, each a choice of data and not of control:

- A persist takes effect at its rename; the scratch file before it is invisible
  to recovery. A crash is the death of the process: loss of power is outside
  the guarantee, as the repository's README says.
- The three truncations count as `write_error` here; `BodyStore` tells them apart.
- `retryCaptureCommit` is one step that commits or fails. An update that arrives
  while a persist fails is lost until the next update, as in the code.
- A Stop that overtakes a boot is the subject of `ProxyRuntime`; this module
  stops a running monitor. A drain that fails counts as one that has not ended:
  `ProxyRuntime` has its retry.
- Retention is a set of expired captures, chosen anew at each start (the policy
  may change between starts) and only growing within a process. The empty set
  is the disabled policy.
- `saves` and `notified` are history: properties read them, actions never do.

### ProxyRuntime

One variable per field that decides something: `phase`, the generation
(`current`), `bootTask`, `proxy`, `cleanupTask`, `stopRequest` and the
maintenance reservation; `boot` and `transport` say what each asynchronous boot
and listener is doing. Each `start` is a fresh run, as each has a fresh
generation. Counters, ports and published status are left out.

### BodyStore

Bytes are the numbers 1, 2, ... in the order they were offered, so a file's
content shows holes and repetitions. A chain of file operations per body
(`Opened`, `WriteChunk`, `SkipChunk`, `WriteFails` after k bytes, `Seal`, ...) works
behind a queue of chunks; `AppendChunk` holds the limits in the code's order.
What the gauges must equal is written as the cardinality of a set of bytes, each
named by its body and its place, and not as a sum over bodies.
`offered` and `exact` are history.

### CaptureProcessor

Two processors stand for the proxy that drains and its successor, sharing the
leases of `capture-resources.ts`. `Pump` and `FailAll` are operators on a state
record because handlers call them, and one calls the other, inside one step.
`BytesOf` counts the bytes of a set of jobs, each named by its job and its place.

### EventStream

An event is its number. The wire of a client is a sequence that may be lost as a
whole; the browser keeps the last id, and what `App.tsx` has handled since its
base (its first id, or the last reset).

### FridaRuntime

The fields of the class, with a fresh run per start as in `ProxyRuntime`. `boot` is
how far `startOwned` came (two awaits, after each of which it compares its
generation), `process` what the child does, and `stopTask` which await the
stop is in. Callers of `stop` that wait for the same task are one. A kill may throw
(`KillFails`): then only another Stop goes on. The decoder of the child's
output, the published pid, and an error reported before `spawn` returns (the
real monitor reports none) are left out.

### MetadataLane, HookIntake, TelemetryIntake, Intake

The head of `lane` measures the files across an await; `turn` keeps its measurement
and whether anybody has written since, which is all that `writeStamp` is used for.
Other writers (`WriteElsewhere`) write at any time, and readers may keep the log
from being truncated. A write and the step that admits it are one action, as
they are one turn of the event loop. A delivery or an intake is the stage it has
reached; a configuration first writes its file. `Intake` interleaves the two
receivers and adds the order of `server.close`. Sizes are in units of the limits;
tokens, secrets and the contents are left out. Left out too: another connection
that checkpoints without having committed.

### SessionScan

A file is written by another process at any point, also between the fingerprint
and the read of a scan. Its version is the count of its writes, and so is its
fingerprint; `rows` holds the version each session was stored from. A scan is a
record with what it was started by (`via`: the watcher, the loop that drains the
waiting providers, POST, details), how far it is, whether somebody still waits
for it (`Timeout` answers the caller, and the task goes on), and whether a scan
that overlapped it has cleared the flag (`lost`). `Write`, `Fire`, `Post`,
`Detail`, `Delete`, the monitoring switch and `Restart` begin things; `Read` and
the `Store...` actions are the turns of a scan.

After the sessions, `scanProviders` awaits the team sources (`server.ts:445-458`),
which no list of tasks knows: the stage `team`, which ends in `TeamScanned`.
The continuation of a scan awaits nothing, so `End` runs in the turn in which the
scan returns: it clears the flag or drains one waiting provider, and the loop of
the watcher goes on. `unseen` is history.

Several requests to scan (`MaxPosts`) and several loads of details may be in
flight, up to the number of slots (`MaxScans`). A store of a database may fail
after any of its records, and after any of the deletions of orphans. Left out: POST
of all providers at once, the rows of teams, and the signals of polled providers
(a poll comes again, whatever becomes of the last one).

### TaskHydrator

A job is the key of its member and a slot, because the job that everybody has left
may still be loading when the next one for the same member is made. A lease
counts, per task, what is pending, and what it was last told. A new job takes a
free slot; that there is one is proved. Which of the waiting jobs are admitted is
left open: the code takes them in the order of its map.

### EvidenceReaders

A capture has a row (absent, stored, expired), a deletion job, originals on
disk, an analysis, and, for a WebSocket, a live registration. Ids are never
reused and a stored row keeps its references, so the fingerprint that the readers
compare changes only with the row or the deletion mark. Deletions run one at a
time, file by file. A reparse and an inspection are records with their stage;
the leases count what they hold. The store opens lazily, resumes pending
deletions first, and may fail to open.

## 3. Runs

| Run | Instance | Question |
|---|---|---|
| `lifecycle` | one exchange, no bound on faults or crashes | safety of the lifecycle, its inductive invariant, the refinement of `CaptureLedger`; do finalization, Stop, recovery and deletions end |
| `monitor` | three starts | `RuntimeInv` (phase, reachability, one run), the lease, the answers |
| `bodies` | two bodies of up to 4 bytes in chunks of 2, quota 6, a queue of 4 bytes and 2 operations | accounting, faithful files, exclusion, `finish` answers |
| `processor` | two processors, four jobs of sizes 1, 1, 2, 3, a pool of 3 jobs, 5 bytes and 1 worker | is the pool exact, is every job started and answered |
| `stream` | one browser, 7 events, 3 frames, 3 epochs | is a gap ever silent |
| `sessions` | a watched file with team sources and two writes after the first scan, a polled database, two scans in flight of which one is a POST, a session that may be deleted, any number of crashes | is a change lost, is a gate committed ahead of its row, is monitoring that is off quiet |
| `sessions_gate` | a database of two sessions and one write | the gate speaks for every session of its file: **violated** |
| `sessions_flag` | the files of `sessions` without team sources, two POST requests | one scan at a time: **violated** |
| `hydrator` | three pages, two at once, two tasks, two members, two loads | is each page owed what is pending, does it end |
| `intake` | two deliveries, one intake, a lane of 2 and files of up to 1 and 2 units, one configuration, one row | limits, the hooks' switch, settings, shutdown |
| `frida` | three starts | status, feed and process agree; one process; a cleanup ends |
| `evidence` | an exchange and a socket, one restart, one answer per capture | fresh answers, leases, does shutdown end |

**Why the bounds are enough to meet the cases.** The steps of one exchange touch
only its own files, rows and job; exchanges meet through the monitor, the store,
recovery and the deletion queue, each of which has one current subject. One
exchange therefore meets every order of its own steps; that the owners of two
exchanges never overlap is not left to an instance but proved
(`OwnersTakeTurns`, for any set of captures). In `bodies`, two bodies of 4 bytes exceed
a quota of 6 and a queue of 4 bytes or 2 chunks, a body has two chunks queued
when the first one fails, and a write may stop inside a chunk; the limit of one
body refuses as the quota does and is not reached. In `processor`, four jobs
exceed each pool limit and the limit of each processor, and one worker makes the
second processor wait. In `stream`, 7 events are more than twice the log, so a
client can fall behind, be reset and fall behind again; three epochs allow an id
to be two processes old. In `monitor` and `frida`, three starts let a third one
meet the residue of two. In `sessions`, two scans are what it takes for one that timed
out, or that a POST started, to overlap another; a third only adds to the queue.
Of the two writes of the watched file, the first starts a scan of its provider and
the second comes while that scan is under way, so that its signal is in `queued`, or
waits in `pendingAutomaticScans` when the poll of the database holds the flag.
Users may ask for details, scans, deletions and the switch any number of times.
In `hydrator`, members are shared between pages and between tasks, a page can
leave while its member loads and another can ask for it again, and two loads at once make a
third job wait. In `intake`, the lane is full with two tasks, the files reach each
limit, and there is one row fewer than deliveries. In `evidence`, a socket is
read live and stored, and the second capture keeps the deletion queue and the
reparse busy.

`CHECK_DEADLOCK FALSE` is set where the system may come to rest: all runs used
(`monitor`), all jobs answered and processors closed (`processor`), the hydrator
closed (`hydrator`), the readers drained (`evidence`).

**Fairness, and why the code gives it.**

- `CaptureLifecycle`: a step the event loop has queued ends, well or badly
  (weak fairness of each promise chain, its failures included), and the grace of
  a stop ends, for it is a deadline. Nothing is assumed of clients, the operator,
  retention or crashes, nor of what `shutdown` waits for beyond its own exchanges:
  WebSockets, the transport (`transport-lifecycle.ts:83`) and the processor may
  hang. That they close is a premise of `StopEnds` (`ConnectionsClose`) and nothing
  else; what remains is that the exchanges and the stop do not hold up each other.
- `ProxyRuntime`: a boot ends and the timer of Stop fires. A drain may hang
  for ever: `transport-lifecycle.ts` waits for third-party sockets.
- `BodyStore`: a started file operation ends.
- `CaptureProcessor`: only timers fire; a worker and its termination may hang.
- `EventStream`: none. That a client reconnects is the browser's affair.
- `SessionScan`: a step of a scan that is due runs (strong fairness: a due
  callback waits while another turn runs and keeps its place; reading a file and the
  team sources ends), and so does the timer of a change. Nothing is assumed of
  timeouts, users or the agents.
- `TaskHydrator`: a load ends and `setImmediate` runs. No deadline is relied upon.
- `FridaRuntime`: a boot ends (its probes have timeouts), a killed process closes,
  and a cleanup takes its steps. A process nobody kills may live for ever, and a
  kill that throws leaves the cleanup to the next Stop.
- `EvidenceReaders`: file operations end, a worker answers or meets its deadline of
  30 s, the store opens or fails, and shutdown proceeds. Nobody has to ask for anything.
- `Intake`: none; it has safety properties only.

## 4. Properties

Each is stated in a comment where it is defined.

- **Lifecycle.** `IInv`, the inductive invariant; its part `Owners` implies that live
  capture, recovery and deletion take turns. `EvidenceTraceable`, every file on disk
  is named by a journal, a row or a tombstone. `SavedAtMostOnce`, one insert per
  capture in its whole life. `CompleteIsWhole`, a reference marked complete has an
  observed end and a final file. `RecordedEvidenceKept`, recovery and commit repeat
  what the journal recorded. `RemovalIsAuthorized`, no unlink without a durable job
  and marker. `LedgerSpec`, all of it implements `CaptureLedger`: held evidence is
  saved or withdrawn, never dropped, and what is withdrawn stays so.
  `FinalizationEnds`, `RestartSettles` (what a process leaves behind, and a deletion in
  progress, come to an end). `StopEnds`, a stop whose connections close ends, and then
  every exchange is finalized.
- **Monitor.** `RuntimeInv` (with `PhaseIsTrue` and `NoOrphan`, see section 5),
  `LeaseSpec`, `RequestsSettle`.
- **Frida.** `FridaInv`, status, feed, boot, process and stop agree. `FridaLease`, one
  process at a time. `Released`, a stop ends and starts are possible again.
- **Bodies.** `AccountingIsExact` (used and queued bytes are exactly what is stored,
  reserved and queued, holders are counted, and the limits hold), `StoredIsFaithful` (a
  prefix, and complete means all), `RemovalIsExclusive`, `FinishAnswers`.
- **Processor.** `PoolInv`, `NothingStranded`, `SubmittedSettles`.
- **Feed.** `FeedInv` (no silent gap), `FeedMovesOn`.
- **Intake.** `IntakeInv`, the inductive invariant: limits, rows, every write at the
  lane queued once. `AdmittedBelowLimit`, a write runs while the files really are
  below its limit. `SettingsHold`, an intake ends under the settings it was checked
  against. `DisabledIsQuiet`, `HandedBackIsQuiet`: switched off, and shut down,
  mean nothing is under way.
- **Sessions.** `NoSignalLost`, a change of a watched file that the watcher noticed is
  compared by a scan that begins after it. `GateNotAhead`, the step that commits the
  gate of a JSONL file leaves a row at least as new. `ScanInv`: a JSONL session that is
  only indexed has an open gate, a gate that is set has its row, and a change not yet
  compared is in a timer or a list that the end of a scan drains (`SignalsAreKept`).
  `OffIsQuiet`, when monitoring is off no automatic scan of sessions is in flight.
- **Hydrator.** `HydratorInv` (what is pending is exactly what an unfinished, live job
  owes), `DoneIsComplete`, `PageEnds`.
- **Evidence.** `EvidenceInv` (an analysis has its row and no deletion, files and jobs
  agree, the leases held are those of the readers), `AnswersAreFresh` (a result is
  given out only for a source that is still the one it was read from), `DrainEnds`.

Two statements of the repository's documents are not what the code does:

- `sessions_gate`: `scanSqliteSessionDetail` (`local-sessions/scanner-utils.ts:394`)
  stores one session and commits the fingerprint of the whole database as scanned.
  Another session of it, loaded earlier and changed since, is skipped by every
  later scan until the file is written again. `openspec/specs/session-scanning/spec.md`
  promises sessions in the database in real time, and `DECISIONS-PENDING.md`
  keeps the file's gate for full scans.
- `sessions_flag`: POST `/api/scan` (`server.ts:1873`) tests the flag, awaits the body
  and then sets it. A watcher's scan that starts in between runs at the same time,
  although `openspec/contracts/api.md` answers 429 while a scan is in progress. The
  properties of run `sessions` hold nevertheless.

Some behaviours a maintainer should know are part of the models and compatible
with the properties:

- A journal left by a failed commit of a *running* process is recovered by the
  next process only, because a successful recovery is cached (`server.ts:341`).
- A startup recovery that fails for another reason than capacity keeps the
  dependent requests unavailable until the next process (`server.ts:2400`).
- A recount that fails after a removal leaves `usedBytes` too high until the next
  removal or start; it is never too low, so the quota is never exceeded.
- A hook whose insert fails leaves its body file without a row; the contract
  (`openspec/contracts/claude-hooks.md`, CH-003) allows it.
- A deletion whose state cannot be written stays pending, and makes an opening of the
  store that resumes it fail until it can.
- Switching monitoring off waits for the flag and for the tracked tasks
  (`server.ts:571-576`), and the scan of team sources is not one of them. When a POST that
  overlapped an automatic scan has cleared the flag, the answer may say *idle* while
  that scan still writes the rows of teams, although `openspec/contracts/api.md:1497`
  says that a stop waits for automatic scans. `OffIsQuiet` states how much is true.
- `scanJsonlFile` writes the row and then the gate (`scanner-utils.ts:327`). An abandoned
  scan that is older than one that has ended, and whose second write fails, leaves
  an older row under the newer gate, until the file is written again. Hence
  `GateNotAhead` is about the step that commits a gate, and is no invariant.

## 5. Proofs

`tlapm` checks every obligation of the eight modules named `...Proofs`. The theorems
hold for any set of captures, runs and deliveries, finite or not, and any limits; the
assumptions are those the modules declare: the values that stand for "none" are
not captures, jobs or runs, the batch is not a delivery, limits are natural numbers and,
where the code divides work by them, positive. Files, bodies and session keys are finite sets, since
queues and gauges count them.

**Lifecycle.** None of the properties is inductive. Whether `Commit` may insert
a row depends on the capture not having been settled before, hence on what
recovery and retention may do to a capture that is live; whether an opened file
is traceable depends on who admitted the writer; whether a completed deletion
stays empty depends on no writer and no recovery touching a settled capture
again. `CaptureInvariant!IInv` states where each actor stands:

- `Shape`: recovery and deletion have a subject exactly between their steps.
- `Owners`: which phase of monitor, store, recovery and deletion excludes which.
- `LiveShape`: an admitted writer has a journal; a journal never says more than
  the memory; before the end, nothing is said about bodies.
- `Evidence`: files are traceable, an unfinished live capture is not settled, a
  settled one has been inserted at most once, a deletion has its marker.
- `Whole`: wherever references are kept (writer, memory, journal, row) they are
  backed by a file.
- `Recovering`, `Deleting`: what the current step of either may rely on.

`CaptureLifecycleProofs` has one lemma per action (`CommitKeeps`, ...), whose steps are the
conjuncts the action can disturb, combines them (`Invariance`) and derives the
properties. The action properties
(`RecordedEvidenceKept`, `RemovalIsAuthorized`) follow step by step from the
invariant before the step. `ImplementsLedger` shows that the initial fate is
unknown and that each action is a `Hold`, a `Save`, a `Withdraw` or a stutter. TLC checks `IInv` in
run `lifecycle`, which is how its parts were found.

**Monitor.** `RuntimeInv` adds to the types what each phase says of boot, proxy
and cleanup (`PhaseShape`) and that at most one run is in flight or alive
(`RunShape`). From it follow `PhaseTrue`, `ListenerReachable` and `ImplementsLease`.

Three theorems state properties that follow from `IInv` and `RuntimeInv` and that no run
repeats: `AnnouncedAfterCommit`, `CompleteDeletionsAreEmpty` and `OwnersTakeTurns`;
likewise `PhaseTrue` and `ListenerReachable`.

**Frida.** `FridaInv` relates the flags to who is where: the status says idle only when
no boot holds the current generation and no process is attached, and a pending
stop has a boot or a process to wait for. From it follow that late output is not
stored (`LateOutputDropped`) and that the runtime implements `MonitorLease`.

**Intake.** `AdmittedBelowLimit` is not inductive: that the measurement is true when
the head acts needs that every write elsewhere spoils the stamp and that the head
only acts on a stamp it has compared. `IntakeInv` says so, and ties each stage
of a delivery and of the intake to its place in the lane, without repetition, so
that an answer removes exactly one. `DisabledIsQuiet` needs the set of deliveries
the switch waits for to contain all that are under way; `HandedBackIsQuiet` needs the
order of closing. `SettingsHold` follows from counting, in `ahead`, the configurations
before the intake.

**Evidence.** `EvidenceInv` is inductive: an analysis is founded because a request for a
deletion removes it in the transaction that records the job, and because the
transaction that writes it looks at the job again; a file goes only for a job.
That an answer is fresh (`FreshAnswers`) then needs no second look at the files: the
last check of the row, or of the source the worker was started for, implies them.

**Bodies.** The gauges are sums over bodies, and sums need induction. They are
stated as cardinalities instead, and the lemma `CellsGrow` says all that is needed: when one
body gains the places m + 1 to n, the cardinality grows by n - m. `HeldByBody` shows
that disk and reservations together are, body by body, 1 to what a live writer
accepted, or to what a finished one wrote; so a write moves bytes without changing the sum,
`append` and `finish` change it by exactly what they add to `usedBytes`, and an unlink
only lowers it. That bytes are where they are counted needs the writer's own invariant
(`WriterIsSound`): the queue is a contiguous chain that goes on where the file ends, as
long as nothing failed. `StoredIsFaithful` is inductive with it. `RemovalIsExclusive`
needs that the gauges `removeOriginals` tests count the holders (`HoldersAreCounted`), and gives
in turn that a recount meets no reservation, which makes `usedBytes` exact again.

**Feed.** `NoSilentGap` is not inductive. `LogIsWhole` says that the frames are the
numbers after the floor up to the sequence, without a hole; `WireFollows`, that what
is on its way to a browser goes on from its last id or resets it; `LogIsAhead`, that no
browser and no wire knows an id the log has not given out. A replay is then
exactly what is missing, or the floor forbids it and the browser is reset.

**Sessions.** `GateNotAhead` is a claim about the step that commits
(`CommittedGateHasItsRow`). It holds because what a scan has read is at least as new
as the fingerprint it took first (`ReadsAreSound`), at most as new as the file
(`SourceIsCurrent`), and a gate in use has its row (`GateHasRow`). `IndexedIsOpen` is
inductive with these. `OffIsQuiet` rests on `TasksAreAwaited`: past the wait for the flag,
each automatic scan still in its sessions is one the switch awaits, including those
whose caller was told that they timed out; and the callers that go on are those that lost
the flag (`FlagIsHeld`). `ScanCore` is these together. `SignalsAreKept`, proved on top of it,
is the safety half of `NoSignalLost`: a change that is not compared yet has a place to
wait in, and a provider with `queued` changes has a scan whose end looks there.
The bound of the waiting providers is a counting argument (a sequence without
repetition over a finite set), which is why `Files` is finite.

**Pool.** A step concerns one processor and the shared pool, while `PoolInv` speaks of
all processors. The proof looks at the system as one processor sees it: its own record, the
pool, and, as parameters, what the others hold (`Others`), which of their jobs are
unanswered (`Waiting`) and how many threads they have (`Crew`). `Sound` says of such a
view that the pool is exact. `LocalView` derives it from the invariant, a chain of
lemmas carries it through the operators a handler is built from (`FailAllSound`,
`PumpSound`, `AnswerSound`, `EndSound`, ...), and `Back` returns to the invariant. Sums
of bytes are cardinalities, and `BytesAdd` is all they need. `PoolInv` and
`NothingStranded` are inductive only together: that a failure answers every job it
drops needs that exactly the queued jobs are unanswered.

**Hydrator.** `PendingIsOwed` needs two facts beside it (`JobsAreWanted`): a job
nobody wants is kept only while it loads, so the limit on the loads leaves a free slot
for the next job of its member (`FreeSlot`); and a closed hydrator has no pages. What a
subscription adds to a task is then, member by member, the jobs it is put at (a bijection,
`SubscribeKeeps`), and the end of a load takes one job from each set it was in
(`CountedFacts`). Pages that leave, are cancelled or are closed are one lemma
(`LeavesKeeps`). `DoneIsComplete` follows because the end of a task is always told or
due (`EndsAreReported`), and the last frame tells what is due.

**Only model-checked.** Liveness and everything that rests on `ENABLED`: the prover
has no rule for fairness. These are `FinalizationEnds`, `StopEnds`, `RestartSettles`,
`RequestsSettle`, `Released`, `FinishAnswers`, `SubmittedSettles`, `NoSignalLost`,
`PageEnds` and `DrainEnds`; and the two disagreements with the documents. Every other
property that a run checks is a theorem.

## 6. Plan

Done: the lifecycle, the monitor, the Frida monitor, the intake, the readers of
evidence, the body store, the processing pool, the event feed, the session scans and
the hydrator, each with the proofs of its safety.

Models next: `Coalescer` (a flushed chunk before the end of its request; caps),
`ConnectionProfiles` (lock file and revisions), `CdpSession` (attachment that races
with stop), the drain of `transport-lifecycle.ts`.

Proofs next: the action properties and invariants of these.

## 7. Not modelled

Parsers, protocol analysis, context diffs, bundles and exports (functions of
bytes); SQL queries (synchronous, one transaction each);
session adapters (other programs' formats); the views of the page; the
certificate authority; benchmarks, experiments and analyses; the command line,
scripts and documents. `PROJECT.json` lists each with its reason.

Within the modelled parts: the bytes of WebSocket exchanges, the preview budget, the limits of
64 journal jobs, 1024 deletion jobs and 64 feed clients, and a page's first list
request, which precedes its first feed id and is covered by neither.

## 8. Running

    tlc -workers 2 -config MCCaptureLifecycle.cfg CaptureInvariant
    tlc -workers 2 -config MCProxyRuntime.cfg ProxyRuntime
    tlc -workers 2 -config MCBodyStore.cfg BodyStore
    tlc -workers 2 -config MCCaptureProcessor.cfg MCCaptureProcessor
    tlc -workers 2 -config MCEventStream.cfg EventStream
    tlc -workers 2 -config MCSessionScan.cfg MCSessionScan          (also _gate, _flag)
    tlc -workers 2 -config MCTaskHydrator.cfg MCTaskHydrator
    tlc -workers 2 -config MCIntake.cfg MCIntake
    tlc -workers 2 -config MCFridaRuntime.cfg FridaRuntime
    tlc -workers 2 -config MCEvidenceReaders.cfg EvidenceReaders
    tlapm CaptureLifecycleProofs.tla                                (and the other Proofs modules)

The longest run takes about two and a half minutes; all proofs together, from
nothing, about eleven.
