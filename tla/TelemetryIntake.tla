-------------------------- MODULE TelemetryIntake --------------------------
(***************************************************************************)
(* TelemetryReceiver (server/telemetry/receiver.ts): one intake at a time  *)
(* uploads, is parsed by a worker and stored through the metadata lane;    *)
(* configurations form a chain, and an intake waits for those before it.   *)
(*                                                                         *)
(* Its stored configuration has been read.  The token and whether it is    *)
(* required are set with "enabled" and left out, and so are the spans.     *)
(***************************************************************************)
EXTENDS MetadataLane

CONSTANTS
    Batch,       \* the intake, as a task of the lane
    MaxConfigs   \* bound of the exploration: configurations at once

ASSUME TelemetryAssumption == MaxConfigs \in Nat

VARIABLES
    intake,    \* "idle", or the stage of the intake under way: it is the busy flag
    ahead,     \* configurations the intake waits for
    collects,  \* settings: collection is enabled
    configs,   \* the chain: requested collects, the first one has its turn
    writing,   \* the first one is writing its file
    closed,    \* "open", "closing" (the flag is set), "chain", "done"
    chain      \* configurations close still waits for

telemetryVars == <<intake, ahead, collects, configs, writing, closed, chain>>

TelemetryTypeOK ==
    /\ intake \in {"idle", "request", "file", "upload", "parse", "lane"}
    /\ collects \in BOOLEAN /\ configs \in Seq(BOOLEAN) /\ writing \in BOOLEAN
    /\ ahead \in 0..Len(configs) /\ chain \in 0..Len(configs)
    /\ closed \in {"open", "closing", "chain", "done"}

TelemetryInit ==
    /\ intake = "idle" /\ ahead = 0 /\ collects = FALSE
    /\ configs = <<>> /\ writing = FALSE /\ closed = "open" /\ chain = 0

---------------------------------------------------------------------------
(* Faulty variants of the definitions below; none is part of a step.       *)

\* An intake does not wait for a configuration that is writing.
AheadOfNobody == 0

---------------------------------------------------------------------------
\* Configurations chained so far: what `await this.configTask` waits for.
Chained == Len(configs)

\* configure: it joins the chain.
Request(on) ==
    /\ Len(configs) < MaxConfigs
    /\ configs' = Append(configs, on)
    /\ UNCHANGED <<intake, ahead, collects, writing, closed, chain, laneVars>>

ConfigLeaves ==
    /\ configs' = Tail(configs) /\ writing' = FALSE
    /\ ahead' = IF ahead > 0 THEN ahead - 1 ELSE 0
    /\ chain' = IF chain > 0 THEN chain - 1 ELSE 0

\* Its turn: TELEMETRY_BUSY during an intake, else the file is written.
ConfigTurn ==
    /\ configs # <<>> /\ ~writing
    /\ IF intake # "idle"
       THEN ConfigLeaves
       ELSE writing' = TRUE /\ UNCHANGED <<configs, ahead, chain>>
    /\ UNCHANGED <<intake, collects, closed, laneVars>>

\* The file is written and the settings are set together, or neither.
ConfigWritten ==
    /\ writing /\ ConfigLeaves
    /\ collects' \in {collects, Head(configs)}
    /\ UNCHANGED <<intake, closed, laneVars>>

\* ingest, and the first wait of run.
Ingest(kind) ==
    /\ closed = "open" /\ intake = "idle"
    /\ intake' = kind /\ ahead' = Chained
    /\ UNCHANGED <<collects, configs, writing, closed, chain, laneVars>>

\* A request is not accepted unless collection is enabled; its token or its media
\* type may be wrong.
CheckSettings ==
    /\ intake \in {"request", "file"} /\ ahead = 0
    /\ intake' \in IF intake = "file" \/ collects THEN {"upload", "idle"} ELSE {"idle"}
    /\ UNCHANGED <<ahead, collects, configs, writing, closed, chain, laneVars>>

\* The upload is complete and a worker starts; or it is cut off, too large or
\* over its deadline.
UploadEnds ==
    /\ intake = "upload" /\ intake' \in {"parse", "idle"}
    /\ UNCHANGED <<ahead, collects, configs, writing, closed, chain, laneVars>>

\* The worker answers, fails, is over its deadline or terminated by close.
ParseEnds ==
    /\ intake = "parse"
    /\ \/ closed = "open" /\ intake' = "lane" /\ Enqueue(Batch)
       \/ intake' = "idle" /\ UNCHANGED laneVars
    /\ UNCHANGED <<ahead, collects, configs, writing, closed, chain>>

\* The turn of the batch: storeTelemetry runs, or it is refused.
StoreEnds ==
    /\ intake' = "idle"
    /\ UNCHANGED <<ahead, collects, configs, writing, closed, chain>>

Store        == Admitted(Batch, TRUE) /\ StoreEnds
StoreRefused == Refused(Batch, TRUE) /\ StoreEnds
StoreFails   == Unreadable(Batch) /\ StoreEnds

\* close: the flag, the intake under way, then the configurations chained by then.
CloseTelemetry ==
    /\ closed = "open" /\ closed' = "closing"
    /\ UNCHANGED <<intake, ahead, collects, configs, writing, chain, laneVars>>

IntakeSettled ==
    /\ closed = "closing" /\ intake = "idle"
    /\ closed' = "chain" /\ chain' = Chained
    /\ UNCHANGED <<intake, ahead, collects, configs, writing, laneVars>>

TelemetryClosed ==
    /\ closed = "chain" /\ chain = 0 /\ closed' = "done"
    /\ UNCHANGED <<intake, ahead, collects, configs, writing, chain, laneVars>>

StoreTurn     == Store \/ StoreRefused
Configured    == ConfigTurn \/ ConfigWritten
IntakeGoes    == CheckSettings \/ UploadEnds \/ ParseEnds
ClosingGoesOn == IntakeSettled \/ TelemetryClosed

TelemetryRuns ==
    \/ \E on \in BOOLEAN : Request(on)
    \/ Configured \/ IntakeGoes \/ StoreTurn \/ StoreFails \/ ClosingGoesOn

---------------------------------------------------------------------------
\* What an intake was checked against is in force until it is stored: the
\* settings do not change from its check to its end (TelemetryReceiver, run).
SettingsHold ==
    [][collects' # collects => intake \in {"idle", "request", "file"}]_<<collects, intake>>
=============================================================================
