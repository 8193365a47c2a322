--------------------------- MODULE EvidenceReaders ---------------------------
(***************************************************************************)
(* The readers of stored originals, next to what takes originals away:     *)
(* the reparse of a capture (server/proxy/capture-reparse.ts), the Codex   *)
(* inspection in a worker (server/codex/service.ts), the confirmed         *)
(* deletion of originals (original-deletions.ts), the lazily opened store  *)
(* that first resumes pending deletions, and the shutdown that drains the  *)
(* readers (server.ts).  What the parsers find is left out.  Ids are never *)
(* reused and a stored row keeps its references, so a fingerprint changes  *)
(* only with the row or the deletion mark.                                 *)
(***************************************************************************)
EXTENDS Naturals

CONSTANTS
    Captures,
    Sockets,      \* the captures of WebSockets: those Codex reads, and no others
    None,         \* a value that is not a capture
    MaxRestarts,  \* bound
    MaxAnswers    \* bound: answers per capture

ASSUME EvidenceAssumption ==
    /\ Sockets \subseteq Captures /\ None \notin Captures
    /\ MaxRestarts \in Nat /\ MaxAnswers \in Nat

VARIABLES
    live,       \* sockets registered by registerCodexSource
    row,        \* per capture: its row in proxy_requests
    deletion,   \* per capture: the state of its deletion job
    files,      \* per capture: the originals on disk
    analysis,   \* captures with a row in proxy_capture_analysis
    store,      \* fileStorePromise
    executing,  \* the capture whose originals are being removed
    reparse,    \* the one reparse that runs: stage and capture
    codex,      \* the one inspection that runs: stage, capture, selector, source
    leases,     \* jobs and workers held in captureResources by inspections
    drain,      \* how far shutdown came
    answers,    \* per capture: answers given about its bodies
    restarts

vars == <<live, row, deletion, files, analysis, store, executing, reparse, codex, leases,
          drain, answers, restarts>>

Directions == {"request", "response"}
Idle     == [stage |-> "idle", capture |-> None]
IdleRead == [stage |-> "idle", capture |-> None, by |-> "id", source |-> "none"]

Init ==
    /\ live = {} /\ analysis = {} /\ executing = None /\ store = "none"
    /\ row = [c \in Captures |-> "absent"] /\ deletion = [c \in Captures |-> "none"]
    /\ files = [c \in Captures |-> {}] /\ answers = [c \in Captures |-> 0]
    /\ reparse = Idle /\ codex = IdleRead /\ leases = [job |-> 0, worker |-> 0]
    /\ drain = "open" /\ restarts = 0

\* inspect: a row whose originals nobody has asked to delete.
Readable(c) == row[c] = "stored" /\ deletion[c] = "none"

\* What the selector of an inspection names now; a request id prefers the live source.
Source(c, by) ==
    IF by = "request" /\ c \in live THEN "live"
    ELSE IF Readable(c) THEN "stored" ELSE "none"

Answered(c) == answers' = [answers EXCEPT ![c] = @ + 1]
Release == leases' = [job |-> leases.job - 1, worker |-> leases.worker - 1]

capture == <<live, row, deletion, files, executing, restarts>>

---------------------------------------------------------------------------
(* Faulty variants of the actions below, one plausible mistake each; none  *)
(* is part of Next.                                                        *)

CommitUnchecked ==
    /\ reparse.stage = "committing"
    /\ \/ /\ analysis' = analysis \cup {reparse.capture}
          /\ reparse' = [reparse EXCEPT !.stage = "answering"]
       \/ reparse' = Idle /\ UNCHANGED analysis
    /\ UNCHANGED <<capture, store, codex, leases, drain, answers>>

InspectionUnchecked ==
    /\ codex.stage \in {"ending", "failing"}
    /\ IF codex.stage = "ending" /\ answers[codex.capture] < MaxAnswers
       THEN Answered(codex.capture)
       ELSE UNCHANGED answers
    /\ codex' = IdleRead /\ Release
    /\ UNCHANGED <<capture, analysis, store, reparse, drain>>

OpeningFailsAlone ==
    /\ store' = "none"
    /\ codex' = IF codex.stage = "opening" THEN IdleRead ELSE codex
    /\ UNCHANGED reparse

---------------------------------------------------------------------------
(* Captures come and go.                                                   *)

\* A WebSocket opens: its growing archive can be inspected before it ends.
Register(c) ==
    /\ c \in Sockets \ live /\ row[c] = "absent" /\ files[c] = {}
    /\ live' = live \cup {c}
    /\ files' = [files EXCEPT ![c] = Directions]
    /\ UNCHANGED <<row, deletion, analysis, store, executing, reparse, codex, leases,
                   drain, answers, restarts>>

\* A capture is committed with both originals, also by the recovery of a restart.
Commit(c) ==
    /\ row[c] = "absent" /\ (c \in Sockets => files[c] # {})
    /\ row' = [row EXCEPT ![c] = "stored"]
    /\ files' = [files EXCEPT ![c] = Directions]
    /\ UNCHANGED <<live, deletion, analysis, store, executing, reparse, codex, leases,
                   drain, answers, restarts>>

\* The source of a socket is unregistered after its commit was tried.
Unregister(c) ==
    /\ c \in live
    /\ live' = live \ {c}
    /\ UNCHANGED <<row, deletion, files, analysis, store, executing, reparse, codex, leases,
                   drain, answers, restarts>>

---------------------------------------------------------------------------
(* The store and the deletion of originals.                                *)

Wanted == reparse.stage = "opening" \/ codex.stage = "opening"

\* getFileStore: shared by its callers, and resumed deletions come first.
OpenStore ==
    /\ store = "none"
    /\ store' = "opening"
    /\ UNCHANGED <<capture, analysis, reparse, codex, leases, drain, answers>>

StoreOpened ==
    /\ store = "opening" /\ executing = None
    /\ \A c \in Captures : deletion[c] # "pending"
    /\ store' = "open"
    /\ UNCHANGED <<capture, analysis, reparse, codex, leases, drain, answers>>

\* It cannot be opened: whoever awaits it fails, and the next caller tries again.
OpeningFails ==
    /\ store' = "none"
    /\ reparse' = IF reparse.stage = "opening" THEN Idle ELSE reparse
    /\ codex' = IF codex.stage = "opening" THEN IdleRead ELSE codex

StoreFails ==
    /\ store = "opening" /\ executing = None
    /\ OpeningFails
    /\ UNCHANGED <<capture, analysis, leases, drain, answers>>

\* request, under the lease of a stopped monitor: intent, tombstone and the
\* removal of what was derived from the bodies are one transaction.
RequestDeletion(c) ==
    /\ store = "open" /\ executing = None /\ live = {}
    /\ row[c] = "stored" /\ deletion[c] # "complete"
    /\ deletion' = [deletion EXCEPT ![c] = IF @ = "none" THEN "pending" ELSE @]
    /\ analysis' = analysis \ {c}
    /\ executing' = c
    /\ UNCHANGED <<live, row, files, store, reparse, codex, leases, drain, answers, restarts>>

\* resumePending: a deletion a crash cut short.
Resume(c) ==
    /\ store = "opening" /\ executing = None /\ deletion[c] = "pending"
    /\ executing' = c /\ analysis' = analysis \ {c}
    /\ UNCHANGED <<live, row, deletion, files, store, reparse, codex, leases, drain, answers, restarts>>

\* removeOriginals, one file at a time.
RemoveFile(d) ==
    /\ executing # None /\ d \in files[executing]
    /\ files' = [files EXCEPT ![executing] = @ \ {d}]
    /\ UNCHANGED <<live, row, deletion, analysis, store, executing, reparse, codex, leases,
                   drain, answers, restarts>>

DeletionEnds ==
    /\ executing # None
    /\ \/ files[executing] = {} /\ deletion' = [deletion EXCEPT ![executing] = "complete"]
       \/ deletion' = [deletion EXCEPT ![executing] = "failed"]
    /\ executing' = None
    /\ UNCHANGED <<live, row, files, analysis, store, reparse, codex, leases, drain, answers, restarts>>

\* Not even the failure can be recorded: the job stays as it was, and an
\* opening store fails with it.
StateWriteFails ==
    /\ executing # None
    /\ executing' = None
    /\ IF store = "opening" THEN OpeningFails ELSE UNCHANGED <<store, reparse, codex>>
    /\ UNCHANGED <<live, row, deletion, files, analysis, leases, drain, answers, restarts>>

---------------------------------------------------------------------------
(* Reparse: every await is followed by fresh().                            *)

\* One per database; close refuses new ones.
Reparse(c) ==
    /\ drain = "open" /\ reparse.stage = "idle"
    /\ c \notin Sockets /\ Readable(c)
    /\ reparse' = [stage |-> "opening", capture |-> c]
    /\ UNCHANGED <<capture, analysis, store, codex, leases, drain, answers>>

Following == [opening |-> "request", request |-> "response", response |-> "analyzing",
              analyzing |-> "committing"]

\* A body was read, or the protocol was analysed; an unreadable body ends it.
ReparseGoesOn ==
    /\ reparse.stage \in DOMAIN Following
    /\ reparse.stage = "opening" => store = "open"
    /\ \/ /\ Readable(reparse.capture)
          /\ reparse.stage \in Directions => reparse.stage \in files[reparse.capture]
          /\ reparse' = [reparse EXCEPT !.stage = Following[@]]
       \/ reparse' = Idle
    /\ UNCHANGED <<capture, analysis, store, codex, leases, drain, answers>>

\* The transaction checks again and writes the snapshot; it may stay refused.
ReparseCommits ==
    /\ reparse.stage = "committing"
    /\ \/ /\ Readable(reparse.capture)
          /\ analysis' = analysis \cup {reparse.capture}
          /\ reparse' = [reparse EXCEPT !.stage = "answering"]
       \/ reparse' = Idle /\ UNCHANGED analysis
    /\ UNCHANGED <<capture, store, codex, leases, drain, answers>>

\* The route compares the result with the status once more.
ReparseAnswers ==
    /\ reparse.stage = "answering"
    /\ IF Readable(reparse.capture) /\ reparse.capture \in analysis /\ answers[reparse.capture] < MaxAnswers
       THEN Answered(reparse.capture)
       ELSE UNCHANGED answers
    /\ reparse' = Idle
    /\ UNCHANGED <<capture, analysis, store, codex, leases, drain>>

---------------------------------------------------------------------------
(* Codex inspection.                                                       *)

Inspect(c, by) ==
    /\ drain \in {"open", "reparser"} /\ codex.stage = "idle"
    /\ c \in Sockets /\ Source(c, by) # "none"
    /\ codex' = [stage |-> "opening", capture |-> c, by |-> by, source |-> "none"]
    /\ UNCHANGED <<capture, analysis, store, reparse, leases, drain, answers>>

\* The source is read again; a job and a worker are taken together or not at all.
StartWorker ==
    /\ codex.stage = "opening" /\ store = "open"
    /\ LET source == Source(codex.capture, codex.by) IN
       \/ /\ source # "none" /\ drain # "codex"
          /\ codex' = [codex EXCEPT !.stage = "reading", !.source = source]
          /\ leases' = [job |-> leases.job + 1, worker |-> leases.worker + 1]
       \/ codex' = IdleRead /\ UNCHANGED leases
    /\ UNCHANGED <<capture, analysis, store, reparse, drain, answers>>

\* A result, or an error, the deadline, an abort or the exit of the worker;
\* either way the worker is terminated first.
WorkerEnds ==
    /\ codex.stage = "reading"
    /\ \E s \in {"ending", "failing"} : codex' = [codex EXCEPT !.stage = s]
    /\ UNCHANGED <<capture, analysis, store, reparse, leases, drain, answers>>

\* The last check, after the worker is gone: the same source still.  The route
\* looks for a deletion of the row too.
InspectionEnds ==
    /\ codex.stage \in {"ending", "failing"}
    /\ IF /\ codex.stage = "ending" /\ Source(codex.capture, codex.by) = codex.source
          /\ deletion[codex.capture] = "none" /\ answers[codex.capture] < MaxAnswers
       THEN Answered(codex.capture)
       ELSE UNCHANGED answers
    /\ codex' = IdleRead /\ Release
    /\ UNCHANGED <<capture, analysis, store, reparse, drain>>

---------------------------------------------------------------------------
(* Shutdown and restart.                                                   *)

\* captureReparser.close: refuse, then await the one that runs.
CloseReparser ==
    /\ drain = "open"
    /\ drain' = "reparser"
    /\ UNCHANGED <<capture, analysis, store, reparse, codex, leases, answers>>

\* codexInspector.close: refuse, abort what reads, then await it.
CloseCodex ==
    /\ drain = "reparser" /\ reparse.stage = "idle"
    /\ drain' = "codex"
    /\ codex' = IF codex.stage = "reading" THEN [codex EXCEPT !.stage = "failing"] ELSE codex
    /\ UNCHANGED <<capture, analysis, store, reparse, leases, answers>>

Drained ==
    /\ drain = "codex" /\ codex.stage = "idle"
    /\ drain' = "done"
    /\ UNCHANGED <<capture, analysis, store, reparse, codex, leases, answers>>

\* The process dies, or ends and starts again; retention runs at startup and
\* takes the analysis of an expired row with it, never its originals.
Restart ==
    /\ restarts < MaxRestarts
    /\ restarts' = restarts + 1
    /\ \E old \in SUBSET {c \in Captures : row[c] = "stored"} :
          /\ row' = [c \in Captures |-> IF c \in old THEN "expired" ELSE row[c]]
          /\ analysis' = analysis \ old
    /\ live' = {} /\ executing' = None /\ store' = "none" /\ drain' = "open"
    /\ reparse' = Idle /\ codex' = IdleRead /\ leases' = [job |-> 0, worker |-> 0]
    /\ UNCHANGED <<deletion, files, answers>>

Evidence(c) == Register(c) \/ Commit(c) \/ Unregister(c) \/ RequestDeletion(c)
Deleting   == (\E c \in Captures : Resume(c)) \/ (\E d \in Directions : RemoveFile(d)) \/ DeletionEnds \/ StateWriteFails
Opening    == (Wanted /\ OpenStore) \/ StoreOpened \/ StoreFails
Reparsing  == ReparseGoesOn \/ ReparseCommits \/ ReparseAnswers
Inspecting == StartWorker \/ WorkerEnds \/ InspectionEnds
Draining   == CloseCodex \/ Drained

Next ==
    \/ \E c \in Captures : Evidence(c) \/ Reparse(c) \/ \E by \in {"id", "request"} : Inspect(c, by)
    \/ Deleting \/ OpenStore \/ StoreOpened \/ StoreFails
    \/ Reparsing \/ Inspecting \/ CloseReparser \/ Draining \/ Restart

Spec == Init /\ [][Next]_vars

\* What has begun goes on: file operations end, a worker answers or meets its
\* deadline, and shutdown proceeds.  Nobody has to start anything.
Fairness ==
    /\ WF_vars(Deleting) /\ WF_vars(Opening)
    /\ WF_vars(Reparsing) /\ WF_vars(Inspecting) /\ WF_vars(Draining)

FairSpec == Spec /\ Fairness

---------------------------------------------------------------------------
TypeOK ==
    /\ live \subseteq Sockets /\ analysis \subseteq Captures
    /\ row \in [Captures -> {"absent", "stored", "expired"}]
    /\ deletion \in [Captures -> {"none", "pending", "failed", "complete"}]
    /\ files \in [Captures -> SUBSET Directions]
    /\ store \in {"none", "opening", "open"} /\ executing \in Captures \cup {None}
    /\ reparse \in [stage : {"idle", "opening", "request", "response", "analyzing",
                             "committing", "answering"}, capture : Captures \cup {None}]
    /\ codex \in [stage : {"idle", "opening", "reading", "ending", "failing"},
                  capture : Captures \cup {None}, by : {"id", "request"},
                  source : {"none", "live", "stored"}]
    /\ leases \in [job : Nat, worker : Nat]
    /\ drain \in {"open", "reparser", "codex", "done"}
    /\ answers \in [Captures -> 0..MaxAnswers] /\ restarts \in 0..MaxRestarts

\* What was derived from bodies exists only for a stored capture whose two
\* originals are there and unasked for: a reparse overtaken by a deletion, a
\* crash or a retention leaves nothing behind (writeCaptureAnalysis).
AnalysisIsFounded ==
    \A c \in analysis : Readable(c) /\ c \notin Sockets /\ files[c] = Directions

\* Originals go only where a deletion was recorded, and completely if it says so.
FilesFollowJobs ==
    \A c \in Captures :
        /\ row[c] # "absent" /\ deletion[c] = "none" => files[c] = Directions
        /\ deletion[c] = "complete" => files[c] = {}
        /\ c \in live /\ row[c] = "absent" => files[c] = Directions
        /\ deletion[c] # "none" => row[c] # "absent"
        /\ executing = c => deletion[c] \in {"pending", "failed"}

\* A job and a worker are held exactly while an inspection has a worker.
LeasesAreReturned ==
    LET held == IF codex.stage \in {"reading", "ending", "failing"} THEN 1 ELSE 0 IN
    leases = [job |-> held, worker |-> held]

\* A drained reader stays idle, so that the database can be handed back.
DrainedIsIdle ==
    /\ drain \in {"codex", "done"} => reparse.stage = "idle"
    /\ drain = "done" => codex.stage = "idle"
    /\ reparse.stage = "idle" <=> reparse.capture = None
    /\ reparse.capture \notin Sockets
    /\ codex.stage = "idle" <=> codex.capture = None

\* An inspection that has a worker knows the source its last check compares.
WorkHasSource == codex.stage \in {"reading", "ending", "failing"} => codex.source # "none"

\* The inductive invariant of readers, deletions, store and shutdown.
EvidenceInv ==
    /\ TypeOK /\ AnalysisIsFounded /\ FilesFollowJobs
    /\ LeasesAreReturned /\ DrainedIsIdle /\ WorkHasSource

\* Nothing is answered about a capture whose originals were asked to be deleted
\* while it was being read: at the answer both files are there and the row or
\* the live source still stands for them (fresh, inspect, the routes).
AnswersAreFresh ==
    [][\A c \in Captures : answers'[c] # answers[c] =>
          /\ deletion[c] = "none" /\ files[c] = Directions
          /\ row[c] = "stored" \/ c \in live]_vars

\* Shutdown is not kept waiting by a reader, whatever it waits for itself.
DrainEnds == drain \in {"reparser", "codex"} ~> drain \notin {"reparser", "codex"}
==============================================================================
