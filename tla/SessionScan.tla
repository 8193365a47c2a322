---------------------------- MODULE SessionScan ----------------------------
(***************************************************************************)
(* The sessions of local agents in the database, and the scans that keep   *)
(* them: the watcher (server/watch/file-watcher.ts), the scans and their   *)
(* gate (scan-scheduler.ts, scan-gate.ts, local-sessions/scanner-utils.ts) *)
(* and the handlers of server/server.ts that start them.                   *)
(*                                                                         *)
(* A provider has one source file; of a provider with teams (codex) it is  *)
(* read again for them after its sessions (scanTeamSources).  An agent     *)
(* is another process: it may write in the middle of a turn of the event   *)
(* loop, between a fingerprint and a read.  The version of a session is    *)
(* the count of writes of its file at its last change, and the fingerprint *)
(* of a file is that count.  Trae, legacy rows, files that are removed,    *)
(* the rows of teams, scans of all providers at once and the merged groups *)
(* are left out.                                                           *)
(***************************************************************************)
EXTENDS Integers, Sequences, FiniteSets

CONSTANTS
    Jsonl,                  \* files of one session, read asynchronously, watched
    Sqlite,                 \* files of many sessions, read in one turn, polled
    Team,                   \* files that are scanned for teams too
    Sessions, FileOf,       \* the sessions, and the file each is in
    NoFile, NoSession,
    MaxScans,               \* scans that may be in flight, abandoned ones too
    MaxPosts,               \* requests to scan that may be in flight
    Writes, Deletable       \* bounds of the exploration: writes per file, and
                            \* sessions a user may delete

Files   == Jsonl \cup Sqlite
Workers == 1..MaxScans
In(f) == {x \in Sessions : FileOf[x] = f}

ASSUME ScanAssumption ==
    /\ IsFiniteSet(Files) /\ Jsonl \cap Sqlite = {} /\ Team \subseteq Files
    /\ NoFile \notin Files /\ NoSession \notin Sessions
    /\ FileOf \in [Sessions -> Files]
    /\ \A f \in Jsonl : \E x \in Sessions : In(f) = {x}
    /\ MaxScans \in Nat /\ MaxPosts \in Nat /\ Writes \in [Files -> Nat]
    /\ Deletable \subseteq Sessions

VARIABLES
    clock,     \* per file: how often it was written
    source,    \* per session: its version in the file, 0 if it is not in it
    rows,      \* per session: NoRow, Indexed (detail_loaded = 0) or the version stored
    gate,      \* per file: scan_state, the fingerprint and the session_id
    due,       \* files with a change the watcher has not fired for yet
    active, queued,   \* of the watcher, as in the code
    flag,      \* scanInProgress
    waiting,   \* pendingAutomaticScans, in insertion order
    mon,       \* monitoringState; "settling": stopping, past the wait for the flag
    work,      \* per worker, see Scan
    unseen     \* files with a noticed change no scan has compared yet (history)

sources == <<clock, source>>
stored  == <<rows, gate>>
watcher == <<due, active, queued>>
server  == <<flag, waiting, mon>>
vars    == <<sources, stored, watcher, server, work, unseen>>

NoRow   == -1
Indexed == 0
NoGate  == [fp |-> 0, key |-> NoSession]

\* pc: a POST waits for its "body"; "gated", "read": in the middle of a turn;
\* "reading": the rows of a JSONL file; "team": its team sources, no longer tracked;
\* "done": before the continuation.  waited: a caller awaits it, who has set the
\* flag; lost: a scan that overlapped it has cleared the flag; owed: the stop of
\* monitoring awaits it.
Scan == [pc     : {"idle", "body", "gated", "read", "reading", "team", "done"},
         via    : {"none", "watch", "drain", "post", "detail"},
         file   : Files \cup {NoFile},
         key    : Sessions \cup {NoSession},
         fp     : Nat,
         seen   : [Sessions -> Nat],
         waited : BOOLEAN,
         lost   : BOOLEAN,
         owed   : BOOLEAN]

Nothing == [x \in Sessions |-> 0]
Idle == [pc |-> "idle", via |-> "none", file |-> NoFile, key |-> NoSession, fp |-> 0,
         seen |-> Nothing, waited |-> FALSE, lost |-> FALSE, owed |-> FALSE]

Init ==
    /\ clock = [f \in Files |-> 1] /\ source = [x \in Sessions |-> 1]
    /\ rows = [x \in Sessions |-> Indexed] /\ gate = [f \in Files |-> NoGate]
    /\ due = {} /\ active = {} /\ queued = {}
    /\ flag = FALSE /\ waiting = <<>> /\ mon = "running"
    /\ work = [w \in Workers |-> Idle]
    /\ unseen = {}

\* No turn of the event loop is under way; the continuation of a task that has
\* settled awaits nothing, and so ends in the turn.
Free == \A w \in Workers : work[w].pc \notin {"gated", "read", "done"}

\* Which of the idle workers takes the next scan makes no difference.
Slot(w) == work[w] = Idle /\ \A v \in Workers : work[v] = Idle => w <= v

---------------------------------------------------------------------------
(* Agents *)

\* A session is changed, added or (in a database) removed.
Write(f) ==
    /\ clock[f] <= Writes[f]
    /\ clock' = [clock EXCEPT ![f] = @ + 1]
    /\ \E x \in In(f), v \in IF f \in Jsonl THEN {clock[f] + 1} ELSE {0, clock[f] + 1} :
          source' = [source EXCEPT ![x] = v]
    /\ LET noticed == IF mon = "running" /\ f \in Jsonl THEN {f} ELSE {}
       IN  due' = due \cup noticed /\ unseen' = unseen \cup noticed
    /\ UNCHANGED <<stored, active, queued, server, work>>

---------------------------------------------------------------------------
(* Starting a scan *)

\* What scanProviders does after scanLocalSessions.
After(f) == IF f \in Team THEN "team" ELSE "done"

\* Where the caller of the scan s goes on.
Returned(s) ==
    [Idle EXCEPT !.pc = After(s.file), !.via = s.via, !.file = s.file,
                 !.waited = TRUE, !.lost = s.lost]

\* runAutomaticScan and scanProviders up to the gate of the file (shouldRescan).
Gated(f, via, force) ==
    LET s == [Idle EXCEPT !.via = via, !.file = f, !.fp = clock[f], !.waited = TRUE]
    IN  IF gate[f].fp = clock[f] /\ ~force THEN Returned(s) ELSE [s EXCEPT !.pc = "gated"]

\* A scan of f begins at worker w, when the workers are in the states ws.
Begin(ws, w, f, via, force) ==
    /\ work' = [ws EXCEPT ![w] = Gated(f, via, force)]
    /\ flag' = TRUE
    /\ unseen' = unseen \ {f}

Add(seq, f) == IF \E i \in DOMAIN seq : seq[i] = f THEN seq ELSE Append(seq, f)

\* A task that has settled; nobody awaits an abandoned one.
Settled(s) == IF s.waited THEN Returned(s) ELSE Idle

---------------------------------------------------------------------------
(* Faulty variants of the definitions below, one plausible mistake each;   *)
(* none is part of Next.                                                   *)

\* The loop of run deletes the provider from queued after its scan.
ContinueForgetsQueued(w) ==
    LET s  == work[w]
        ws == [work EXCEPT ![w] = Idle]
    IN  /\ queued' = IF s.via = "watch" THEN queued \ {s.file} ELSE queued
        /\ active' = IF s.via = "watch" THEN active \ {s.file} ELSE active
        /\ IF waiting # <<>>
           THEN Begin(ws, w, Head(waiting), "drain", FALSE) /\ waiting' = Tail(waiting)
           ELSE /\ work' = [u \in Workers |-> [ws[u] EXCEPT !.lost = ws[u].waited]]
                /\ flag' = FALSE /\ UNCHANGED <<waiting, unseen>>

SettlingForgetsTasks ==
    /\ Free /\ mon = "stopping" /\ ~flag
    /\ mon' = "settling"
    /\ UNCHANGED <<sources, stored, watcher, flag, waiting, work, unseen>>

StoreJsonlThenFingerprint(w) ==
    LET s == work[w]
    IN  /\ Free /\ s.pc = "reading"
        /\ work' = [work EXCEPT ![w] = Settled(s)]
        /\ \E x \in In(s.file) :
              /\ rows' = [rows EXCEPT ![x] = s.seen[x]]
              /\ gate' = [gate EXCEPT ![s.file] = [fp |-> clock[s.file], key |-> x]]
        /\ UNCHANGED <<sources, watcher, server, unseen>>

DeleteKeepsGate(x) ==
    /\ Free /\ rows[x] # NoRow
    /\ rows' = [rows EXCEPT ![x] = NoRow]
    /\ UNCHANGED <<sources, gate, watcher, server, work, unseen>>

---------------------------------------------------------------------------
\* The timer of the watcher, debounced or of the poll (run).
Fire(f) ==
    /\ Free /\ mon = "running" /\ (f \in due \/ f \in Sqlite)
    /\ due' = due \ {f}
    /\ \/ /\ f \in active
          /\ queued' = queued \cup {f}
          /\ UNCHANGED <<active, flag, waiting, work, unseen>>
       \/ /\ f \notin active /\ flag
          /\ waiting' = Add(waiting, f)
          /\ UNCHANGED <<active, queued, flag, work, unseen>>
       \/ /\ f \notin active /\ ~flag
          /\ \E w \in Workers : Slot(w) /\ Begin(work, w, f, "watch", FALSE)
          /\ active' = active \cup {f}
          /\ UNCHANGED <<queued, waiting>>
    /\ UNCHANGED <<sources, stored, mon>>

\* POST /api/scan: the check, the body, and then the scan.
Post(w) ==
    /\ Free /\ ~flag /\ Slot(w)
    /\ Cardinality({v \in Workers : work[v].via = "post"}) < MaxPosts
    /\ work' = [work EXCEPT ![w] = [Idle EXCEPT !.pc = "body", !.via = "post"]]
    /\ UNCHANGED <<sources, stored, watcher, server, unseen>>

PostBody(w, f, force) ==
    /\ Free /\ work[w].pc = "body"
    /\ Begin(work, w, f, "post", force)
    /\ UNCHANGED <<sources, stored, watcher, waiting, mon>>

PostRejected(w) ==
    /\ Free /\ work[w].pc = "body"
    /\ work' = [work EXCEPT ![w] = Idle]
    /\ UNCHANGED <<sources, stored, watcher, server, unseen>>

\* ensureDetail of a session that is only indexed.  Of a JSONL file the gate
\* decides; the session of a database is read whatever the gate says.
Detail(w, x) ==
    /\ Free /\ rows[x] = Indexed /\ Slot(w)
    /\ LET f == FileOf[x]
           scan == Gated(f, "detail", f \in Sqlite)
       IN  /\ scan.pc = "gated"
           /\ work' = [work EXCEPT ![w] = [scan EXCEPT !.key = x, !.waited = FALSE]]
    /\ UNCHANGED <<sources, stored, watcher, server, unseen>>

---------------------------------------------------------------------------
(* Reading and storing *)

\* The sessions are read; of a JSONL file, up to its size now.
Read(w) ==
    /\ work[w].pc = "gated"
    /\ LET f == work[w].file
       IN  work' = [work EXCEPT ![w].pc = IF f \in Jsonl THEN "reading" ELSE "read",
                                ![w].seen = [x \in Sessions |-> IF x \in In(f) THEN source[x] ELSE 0]]
    /\ UNCHANGED <<sources, stored, watcher, server, unseen>>

\* scanJsonlFile after its await: the record, then the gate.  Reading may fail,
\* and so may the second write.
StoreJsonl(w) ==
    LET s == work[w]
    IN  /\ Free /\ s.pc = "reading"
        /\ work' = [work EXCEPT ![w] = Settled(s)]
        /\ \E x \in In(s.file) :
              \/ UNCHANGED <<rows, gate>>
              \/ /\ rows' = [rows EXCEPT ![x] = s.seen[x]]
                 /\ \/ gate' = gate
                    \/ gate' = [gate EXCEPT ![s.file] = [fp |-> s.fp, key |-> x]]
        /\ UNCHANGED <<sources, watcher, server, unseen>>

\* scanSqliteFile: every record, then the deletion of the sessions that are gone,
\* then the gate.  It may fail on the way: kept, removed are the sessions stored and
\* deleted by then.
StoreSqlite(w) ==
    LET s == work[w]
        there == {x \in In(s.file) : s.seen[x] # 0}
        gone == {x \in In(s.file) : s.seen[x] = 0 /\ rows[x] # NoRow}
    IN  /\ s.pc = "read" /\ s.via # "detail"
        /\ work' = [work EXCEPT ![w] = Settled(s)]
        /\ \E kept \in SUBSET there, removed \in SUBSET gone :
              /\ removed # {} => kept = there
              /\ rows' = [x \in Sessions |-> IF x \in kept THEN s.seen[x]
                                             ELSE IF x \in removed THEN NoRow ELSE rows[x]]
              /\ \/ gate' = [f \in Files |-> IF gate[f].key \in removed THEN NoGate ELSE gate[f]]
                 \/ /\ kept = there /\ removed = gone
                    /\ \E x \in IF there = {} THEN {NoSession} ELSE there :
                          gate' = [gate EXCEPT ![s.file] = [fp |-> s.fp, key |-> x]]
        /\ UNCHANGED <<sources, watcher, server, unseen>>

\* scanSqliteSessionDetail: the record of one session, and then the gate with the
\* fingerprint the whole file has now.
StoreSqliteDetail(w) ==
    LET s == work[w]
    IN  /\ s.pc = "read" /\ s.via = "detail"
        /\ work' = [work EXCEPT ![w] = Settled(s)]
        /\ IF s.seen[s.key] = 0
           THEN UNCHANGED <<rows, gate>>
           ELSE /\ rows' = [rows EXCEPT ![s.key] = s.seen[s.key]]
                /\ \/ gate' = gate
                   \/ gate' = [gate EXCEPT ![s.file] = [fp |-> clock[s.file], key |-> s.key]]
        /\ UNCHANGED <<sources, watcher, server, unseen>>

---------------------------------------------------------------------------
(* Ending a scan *)

\* The team sources are read and their rows stored, or that fails.
TeamScanned(w) ==
    /\ Free /\ work[w].pc = "team"
    /\ work' = [work EXCEPT ![w].pc = "done"]
    /\ UNCHANGED <<sources, stored, watcher, server, unseen>>

\* The finally of runAutomaticScan and of the POST, which clears the flag, whoever
\* has set it, and drains one waiting provider; and then the loop of run.  A scan
\* that begins takes the place of the one that has ended.
Continue(w) ==
    LET s  == work[w]
        ws == [work EXCEPT ![w] = Idle]
        again == s.via = "watch" /\ s.file \in queued
    IN  /\ queued' = IF s.via = "watch" THEN queued \ {s.file} ELSE queued
        /\ active' = IF s.via = "watch" /\ (waiting # <<>> \/ ~again) THEN active \ {s.file} ELSE active
        /\ \/ /\ waiting # <<>>
              /\ Begin(ws, w, Head(waiting), "drain", FALSE)
              /\ waiting' = IF again THEN Add(Tail(waiting), s.file) ELSE Tail(waiting)
           \/ /\ waiting = <<>> /\ again
              /\ Begin(ws, w, s.file, "watch", FALSE)
              /\ waiting' = waiting
           \/ /\ waiting = <<>> /\ ~again
              /\ work' = [u \in Workers |-> [ws[u] EXCEPT !.lost = ws[u].waited]]
              /\ flag' = FALSE
              /\ UNCHANGED <<waiting, unseen>>

End(w) ==
    /\ work[w].pc = "done"
    /\ Continue(w)
    /\ UNCHANGED <<sources, stored, due, mon>>

\* withTimeout: the caller goes on at v, and so does the task, abandoned.
Timeout(w, v) ==
    /\ Free /\ work[w].pc = "reading" /\ work[w].waited /\ Slot(v)
    /\ work' = [work EXCEPT ![w].waited = FALSE, ![v] = Returned(work[w])]
    /\ UNCHANGED <<sources, stored, watcher, server, unseen>>

---------------------------------------------------------------------------
(* Deletion, the monitoring switch, and the process *)

\* deleteSession
Delete(x) ==
    /\ Free /\ rows[x] # NoRow
    /\ rows' = [rows EXCEPT ![x] = NoRow]
    /\ gate' = [f \in Files |-> IF gate[f].key = x THEN NoGate ELSE gate[f]]
    /\ UNCHANGED <<sources, watcher, server, work, unseen>>

\* PUT /api/monitoring, disabled: the watcher is closed, and the loop of run does
\* not go on after the scan it awaits ...
Disable ==
    /\ Free /\ mon = "running"
    /\ mon' = "stopping" /\ waiting' = <<>> /\ unseen' = {}
    /\ due' = {} /\ active' = {} /\ queued' = {}
    /\ work' = [w \in Workers |-> IF work[w].via = "watch" THEN [work[w] EXCEPT !.via = "drain"]
                                  ELSE work[w]]
    /\ UNCHANGED <<sources, stored, flag>>

\* ... the flag is awaited, then every task tracked at that moment ...
Settling ==
    /\ Free /\ mon = "stopping" /\ ~flag
    /\ mon' = "settling"
    /\ work' = [w \in Workers |-> [work[w] EXCEPT !.owed = @ \/ (work[w].pc = "reading"
                                                               /\ work[w].via # "detail")]]
    /\ UNCHANGED <<sources, stored, watcher, flag, waiting, unseen>>

\* ... and then monitoring is off.
Disabled ==
    /\ Free /\ mon = "settling" /\ \A w \in Workers : ~work[w].owed
    /\ mon' = "idle"
    /\ UNCHANGED <<sources, stored, watcher, flag, waiting, work, unseen>>

\* enabled: a new watcher, which ignores what is there
Enable ==
    /\ Free /\ mon = "idle"
    /\ mon' = "running"
    /\ UNCHANGED <<sources, stored, watcher, flag, waiting, work, unseen>>

\* The process dies, in the middle of a turn or not; the next one indexes what
\* it finds (initialScanAndStore), and a row that is loaded keeps its details.
Restart ==
    /\ rows' = [x \in Sessions |-> IF rows[x] = NoRow /\ source[x] # 0 THEN Indexed ELSE rows[x]]
    /\ work' = [w \in Workers |-> Idle]
    /\ flag' = FALSE /\ waiting' = <<>> /\ mon' = "running"
    /\ due' = {} /\ active' = {} /\ queued' = {}
    /\ unseen' = {}
    /\ UNCHANGED <<sources, gate>>

StoreSession(w) == StoreJsonl(w) \/ StoreSqlite(w) \/ StoreSqliteDetail(w)
Body(w) == PostRejected(w) \/ \E f \in Files, force \in BOOLEAN : PostBody(w, f, force)

Next ==
    \/ \E f \in Files : Write(f) \/ Fire(f)
    \/ \E w \in Workers :
          \/ Post(w) \/ Body(w) \/ Read(w) \/ StoreSession(w) \/ TeamScanned(w) \/ End(w)
          \/ \E v \in Workers : Timeout(w, v)
          \/ \E x \in Sessions : Detail(w, x)
    \/ \E x \in Deletable : Delete(x)
    \/ Disable \/ Settling \/ Disabled \/ Enable \/ Restart

Spec == Init /\ [][Next]_vars

\* A turn runs to its end; timers, reads, requests and continuations that are due
\* wait in the event loop while another turn runs, and each has its own in time.
FairSpec ==
    /\ Spec
    /\ \A f \in Files : SF_vars(Fire(f))
    /\ \A w \in Workers : SF_vars(Body(w) \/ Read(w) \/ StoreSession(w) \/ TeamScanned(w) \/ End(w))

---------------------------------------------------------------------------
(* Properties *)

TypeOK ==
    /\ clock \in [Files -> Nat] /\ \A f \in Files : clock[f] <= Writes[f] + 1
    /\ source \in [Sessions -> Nat] /\ rows \in [Sessions -> Nat \cup {NoRow}]
    /\ \A x \in Sessions : source[x] <= clock[FileOf[x]] /\ rows[x] <= clock[FileOf[x]]
    /\ gate \in [Files -> [fp : Nat, key : Sessions \cup {NoSession}]]
    /\ due \subseteq Files /\ queued \subseteq Files /\ active \subseteq Files
    /\ flag \in BOOLEAN /\ waiting \in Seq(Files) /\ Len(waiting) <= Cardinality(Files)
    /\ mon \in {"running", "stopping", "settling", "idle"}
    /\ work \in [Workers -> Scan]
    /\ unseen \subseteq Files

\* The gate of a JSONL file never closes over a session that is not loaded:
\* otherwise its details, which the same gate guards, could never be loaded (a
\* deletion takes the gate with the row; the next process indexes it again).
IndexedIsOpen ==
    \A f \in Jsonl : \A x \in In(f) : rows[x] = Indexed => gate[f].fp # clock[f]

\* A write of a JSONL file is a change of its one session.
SourceIsCurrent ==
    /\ \A f \in Files : clock[f] > 0
    /\ \A f \in Jsonl : \A x \in In(f) : source[x] = clock[f]

\* A scan holds a fingerprint the file has had, and what it has read of a JSONL
\* file is no older than that; what is automatic is under way or done.
ReadIsSound(s) ==
    /\ s.pc \in {"idle", "body"} => s.via \in {"none", "post"}
    /\ \A x \in Sessions : s.seen[x] <= clock[FileOf[x]]
    /\ s.pc \in {"gated", "read", "reading"} => s.file \in Files /\ s.fp \in 1..clock[s.file]
    /\ s.pc = "read" => s.file \in Sqlite
    /\ s.pc = "reading" => s.file \in Jsonl /\ \A x \in In(s.file) : s.fp <= s.seen[x]
    /\ s.via = "detail" /\ s.pc \in {"gated", "read"} => s.key \in Sessions

ReadsAreSound == \A w \in Workers : ReadIsSound(work[w])

\* The gate of a JSONL file names its session, whose details are loaded.
GateHasRow ==
    \A f \in Jsonl : \A x \in In(f) : gate[f] = NoGate \/ (gate[f].key = x /\ rows[x] > 0)

\* A provider waits once, and none waits or is queued unless monitoring runs.
WaitingIsOpen ==
    /\ \A i, j \in DOMAIN waiting : waiting[i] = waiting[j] => i = j
    /\ mon # "running" => waiting = <<>> /\ queued = {}

\* Past the wait for the flag, the task of an automatic scan is awaited or has
\* settled; its caller goes on only if the flag was lost.
Quiet(s) ==
    /\ s.pc \in {"team", "done"} => s.waited
    /\ mon \in {"settling", "idle"} /\ s.via \in {"watch", "drain"} =>
          /\ s.waited => s.lost
          /\ s.pc \in {"team", "done"} \/ (mon = "settling" /\ s.pc = "reading" /\ s.owed)

TasksAreAwaited == \A w \in Workers : Quiet(work[w])

\* A scan that is awaited holds the flag, unless an overlapping one has cleared it.
FlagIsHeld == \A w \in Workers : work[w].waited => flag \/ work[w].lost

\* A change no scan has compared yet has a place to wait in: a timer, or a list that
\* is drained when a scan ends, and a list of one provider has such a scan.
SignalsAreKept ==
    /\ unseen \subseteq due \cup queued \cup {waiting[i] : i \in DOMAIN waiting}
    /\ queued \subseteq active
    /\ \A f \in active : \E w \in Workers :
          work[w].via = "watch" /\ work[w].file = f /\ work[w].waited

\* IndexedIsOpen and OffIsQuiet with what makes them inductive.
ScanCore ==
    /\ TypeOK /\ IndexedIsOpen
    /\ SourceIsCurrent /\ ReadsAreSound /\ GateHasRow /\ WaitingIsOpen
    /\ TasksAreAwaited /\ FlagIsHeld

ScanInv == ScanCore /\ SignalsAreKept

\* The step that commits the gate of a JSONL file leaves a row at least as new as the
\* fingerprint it commits, which is taken before the read, whatever is appended
\* meanwhile and whichever of two overlapping scans ends last.  (A step that commits
\* no gate is not constrained: see the README on an abandoned scan that fails.)
GateNotAhead ==
    [][\A f \in Jsonl : gate'[f] \notin {gate[f], NoGate} =>
          \A x \in In(f) : rows'[x] >= gate'[f].fp]_vars

\* When monitoring is off, no automatic scan of sessions is in flight: neither one
\* whose caller has timed out, nor one that lost the flag to a POST that overlapped
\* it.  After its sessions, and only if it lost the flag, a scan may still be at the
\* team sources, which the stop does not await.
OffIsQuiet ==
    mon = "idle" => \A w \in Workers : work[w].via \in {"watch", "drain"} =>
                        work[w].pc \in {"team", "done"} /\ work[w].lost

\* No change signal is lost: a change of a watched file is compared by a scan that
\* begins after it, unless monitoring stops or the process dies first (the signal
\* waits in a timer, in queued while a scan of the provider is under way, in the
\* loop of run, or in pendingAutomaticScans; a poll comes again anyway).
NoSignalLost == \A f \in Jsonl : f \in unseen ~> f \notin unseen

\* The gate of a file speaks for the whole file: when it holds the fingerprint
\* the file has, no scan looks again, so every loaded session of the file, and not
\* only the one the last scan was for, is as the file has it.
GateIsTruthful ==
    \A x \in Sessions :
        LET g == gate[FileOf[x]]
        IN  g.fp = clock[FileOf[x]] /\ g.key # x /\ rows[x] # NoRow /\ rows[x] # Indexed
               => rows[x] = source[x]

\* No two scans of whole providers are awaited at once (POST /api/scan answers 429
\* while a scan is in progress, and automatic scans wait for the flag).
OneScanAtATime ==
    \A v, w \in Workers :
        v # w => ~(/\ {work[v].via, work[w].via} \subseteq {"watch", "drain", "post"}
                   /\ work[v].waited /\ work[w].waited)
=============================================================================
