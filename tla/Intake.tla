------------------------------- MODULE Intake -------------------------------
(***************************************************************************)
(* Claude hooks and telemetry together at the metadata lane of the         *)
(* database, with the other writers and the shutdown of the server         *)
(* (server/server.ts), which closes telemetry, then the hooks, and hands   *)
(* the database back.                                                      *)
(***************************************************************************)
EXTENDS HookIntake, TelemetryIntake

ASSUME BatchAssumption == Batch \notin Deliveries

VARIABLE shutdown   \* the server refuses new requests

vars == <<laneVars, hookVars, telemetryVars, shutdown>>

Init == LaneInit /\ HookInit /\ TelemetryInit /\ shutdown = FALSE

---------------------------------------------------------------------------
HandedBack == closed = "done" /\ closing = "done"

HookTurn(A)      == A /\ UNCHANGED <<telemetryVars, shutdown>>
TelemetryTurn(A) == A /\ UNCHANGED <<hookVars, shutdown>>

Hooks ==
    \/ HookTurn(HookRuns)
    \/ ~shutdown /\ \E d \in Deliveries : HookTurn(Receive(d))
    \/ closed = "done" /\ HookTurn(CloseHooks)

Telemetry ==
    \/ TelemetryTurn(TelemetryRuns)
    \/ ~shutdown /\ \E kind \in {"request", "file"} : TelemetryTurn(Ingest(kind))
    \/ shutdown /\ TelemetryTurn(CloseTelemetry)

\* The lane measures; others write while the server has the database.
Lane ==
    /\ LaneStep \/ (~HandedBack /\ WriteElsewhere)
    /\ UNCHANGED <<hookVars, telemetryVars, shutdown>>

Shutdown ==
    /\ ~shutdown /\ shutdown' = TRUE
    /\ UNCHANGED <<laneVars, hookVars, telemetryVars>>

Next == Hooks \/ Telemetry \/ Lane \/ Shutdown

Spec == Init /\ [][Next]_vars

---------------------------------------------------------------------------
TypeOK ==
    /\ files \in Files /\ turn \in Turn
    /\ lane \in Seq(Deliveries \cup {Batch}) /\ Len(lane) <= MaxLane
    /\ HookTypeOK /\ TelemetryTypeOK /\ shutdown \in BOOLEAN

\* The lane holds exactly the writes somebody waits for, each of them once: none is
\* answered twice or left behind (withCapacity).
Holds(s, e) == \E i \in DOMAIN s : s[i] = e
NoRepeat(s) == \A i, k \in DOMAIN s : s[i] = s[k] => i = k

LaneIsOwed ==
    /\ \A d \in Deliveries : delivery[d] = "lane" <=> Holds(lane, d)
    /\ intake = "lane" <=> Holds(lane, Batch)
    /\ NoRepeat(lane)

\* A measurement the head may still act on is what the files are.
MeasuredIsTrue == StillValid => turn.measured = files

\* A configuration is not in the middle of its file while an intake it did not
\* wait for, or that does not wait for it, is past its check.
WritersAreAwaited ==
    /\ writing => configs # <<>>
    /\ writing => intake = "idle" \/ (intake \in {"request", "file"} /\ ahead > 0)

\* A configuration that switches off waits for whatever is still under way.
DrainIsWhole == configuring = "draining" => ~enabled /\ UnderWay \subseteq awaited

\* The shutdown goes on in its order.
ClosedInOrder ==
    /\ closing # "no" => closed = "done"
    /\ closed # "open" => shutdown
    /\ closed \in {"chain", "done"} => intake = "idle"
    /\ closing = "done" => UnderWay = {}

\* The inductive invariant of intake and lane.
IntakeInv ==
    TypeOK /\ LaneIsOwed /\ MeasuredIsTrue /\ WritersAreAwaited /\ DrainIsWhole
    /\ DisabledIsQuiet /\ ClosedInOrder

\* Nothing is written beyond the limits: when a write runs the files are as they
\* were measured, below the limits of its kind, whatever others wrote meanwhile
\* (withCapacity, the two stamps).
AdmittedBelowLimit ==
    [][ /\ rows' # rows => files.wal < WalAdmission /\ files.main + files.wal < CombinedAdmission
        /\ Store => files.wal < WalAdmission ]_vars

\* When the server hands the database back nothing is under way that would write
\* to it (server.close).
HandedBackIsQuiet == HandedBack => lane = <<>> /\ UnderWay = {} /\ intake = "idle"
=============================================================================
