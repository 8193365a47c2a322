----------------------------- MODULE HookIntake -----------------------------
(***************************************************************************)
(* ClaudeHookReceiver and its control (server/hooks/claude-receiver.ts,    *)
(* claude-control.ts, server/storage/claude-hooks.ts): a delivery is       *)
(* authorized, read, stored as a body and inserted as a row through the    *)
(* metadata lane; switching off and closing wait for the deliveries under  *)
(* way.                                                                    *)
(*                                                                         *)
(* The state of the control is loaded: authorizing takes no turn of its    *)
(* own.  A place of "writes" is used again when its delivery is answered.  *)
(* Reading stored hooks and the hints to the pages are left out.           *)
(***************************************************************************)
EXTENDS MetadataLane

CONSTANTS
    Deliveries,  \* the places of "writes" (4)
    MaxRows      \* rows kept (10000)

ASSUME HookAssumption == MaxRows \in Nat \ {0}

VARIABLES
    delivery,      \* per place: "idle", or the stage of its delivery
    aborted,       \* deliveries whose controller is aborted
    rows,          \* rows inserted
    enabled,       \* of the control
    configuring,   \* "none", "on" or "off" while the file is written, "draining"
    awaited,       \* the deliveries a configuration that drains waits for
    closing        \* "no", "begun", "done"

hookVars == <<delivery, aborted, rows, enabled, configuring, awaited, closing>>

Stages == {"reading", "storing", "lane"}
UnderWay == {d \in Deliveries : delivery[d] # "idle"}

HookTypeOK ==
    /\ delivery \in [Deliveries -> Stages \cup {"idle"}]
    /\ aborted \subseteq UnderWay
    /\ rows \in 0..MaxRows /\ enabled \in BOOLEAN
    /\ configuring \in {"none", "on", "off", "draining"} /\ awaited \in SUBSET Deliveries
    /\ closing \in {"no", "begun", "done"}

HookInit ==
    /\ delivery = [d \in Deliveries |-> "idle"] /\ aborted = {} /\ rows = 0
    /\ enabled \in BOOLEAN
    /\ configuring = "none" /\ awaited = {} /\ closing = "no"

---------------------------------------------------------------------------
(* Faulty variants of the definitions below; none is part of a step.       *)

\* Switching off answers when the file is written.
DrainedNobody(on) == "none"

\* The insert relies on the check made before the body was stored.
InsertAllowedUnchecked(d) == d \notin aborted

\* close does not wait for what it has aborted.
SettledByAbort == aborted = UnderWay /\ configuring = "none"

---------------------------------------------------------------------------
GoesOn(d, from, to) ==
    delivery[d] = from /\ delivery' = [delivery EXCEPT ![d] = to] /\ UNCHANGED aborted

Ends(d) == delivery' = [delivery EXCEPT ![d] = "idle"] /\ aborted' = aborted \ {d}
Refuses(d, from) == delivery[d] = from /\ Ends(d)

\* receive, own and authorize, when none of them refuses.
Receive(d) ==
    /\ closing = "no" /\ enabled
    /\ GoesOn(d, "idle", "reading")
    /\ UNCHANGED <<rows, enabled, configuring, awaited, closing, laneVars>>

\* The client goes away.
Disconnect(d) ==
    /\ d \in UnderWay \ aborted /\ aborted' = aborted \cup {d}
    /\ UNCHANGED <<delivery, rows, enabled, configuring, awaited, closing, laneVars>>

\* readHookJson: the body is there, or it is too large, late or cut off; then the
\* check of the rows, before anything is stored.
BodyRead(d) ==
    /\ \/ rows < MaxRows /\ d \notin aborted /\ GoesOn(d, "reading", "storing")
       \/ Refuses(d, "reading")
    /\ UNCHANGED <<rows, enabled, configuring, awaited, closing, laneVars>>

\* getStore and finish have answered: with a complete body the row is queued, unless
\* the lane is full.
BodyStored(d) ==
    /\ \/ d \notin aborted /\ GoesOn(d, "storing", "lane") /\ Enqueue(d)
       \/ Refuses(d, "storing") /\ UNCHANGED laneVars
    /\ UNCHANGED <<rows, enabled, configuring, awaited, closing>>

\* insertClaudeHook counts again, in its transaction.
InsertAllowed(d) == d \notin aborted /\ rows < MaxRows

\* The turn of the row: it is inserted, or it throws.
Insert(d) ==
    /\ Admitted(d, FALSE) /\ Ends(d)
    /\ rows' = IF InsertAllowed(d) THEN rows + 1 ELSE rows
    /\ UNCHANGED <<enabled, configuring, awaited, closing>>

InsertRefused(d) ==
    /\ Refused(d, FALSE) /\ Ends(d)
    /\ UNCHANGED <<rows, enabled, configuring, awaited, closing>>

InsertFails(d) ==
    /\ Unreadable(d) /\ Ends(d)
    /\ UNCHANGED <<rows, enabled, configuring, awaited, closing>>

\* configure and the control: one at a time; the file may fail, or the revision
\* be another one.
Configure(on) ==
    /\ closing = "no" /\ configuring = "none"
    /\ configuring' = IF on THEN "on" ELSE "off"
    /\ UNCHANGED <<delivery, aborted, rows, enabled, awaited, closing, laneVars>>

ConfigureFails ==
    /\ configuring \in {"on", "off"} /\ configuring' = "none"
    /\ UNCHANGED <<delivery, aborted, rows, enabled, awaited, closing, laneVars>>

Drained(on) == IF on THEN "none" ELSE "draining"

ConfigureSaved ==
    LET on == configuring = "on" IN
    /\ configuring \in {"on", "off"}
    /\ enabled' = on /\ configuring' = Drained(on)
    /\ awaited' = IF on THEN {} ELSE UnderWay
    /\ UNCHANGED <<delivery, aborted, rows, closing, laneVars>>

ConfigureAnswers ==
    /\ configuring = "draining" /\ awaited \cap UnderWay = {}
    /\ configuring' = "none" /\ awaited' = {}
    /\ UNCHANGED <<delivery, aborted, rows, enabled, closing, laneVars>>

CloseHooks ==
    /\ closing = "no" /\ closing' = "begun" /\ aborted' = UnderWay
    /\ UNCHANGED <<delivery, rows, enabled, configuring, awaited, laneVars>>

Settled == UnderWay = {} /\ configuring = "none"

HooksClosed ==
    /\ closing = "begun" /\ Settled /\ closing' = "done"
    /\ UNCHANGED <<delivery, aborted, rows, enabled, configuring, awaited, laneVars>>

DeliveryStep(d) == BodyRead(d) \/ BodyStored(d)
InsertTurn      == \E d \in Deliveries : Insert(d) \/ InsertRefused(d)
HookConfigured  == ConfigureSaved \/ ConfigureFails \/ ConfigureAnswers

HookRuns ==
    \/ \E d \in Deliveries : Disconnect(d) \/ DeliveryStep(d) \/ InsertFails(d)
    \/ InsertTurn
    \/ \E on \in BOOLEAN : Configure(on)
    \/ HookConfigured \/ HooksClosed

---------------------------------------------------------------------------
\* When switching off has been answered, no delivery of before is under way: not
\* one row is inserted until the user switches on again (ClaudeHookReceiver,
\* configure).
DisabledIsQuiet == ~enabled /\ configuring # "draining" => UnderWay = {}
=============================================================================
