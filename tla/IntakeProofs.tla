---------------------------- MODULE IntakeProofs ----------------------------
(***************************************************************************)
(* Proofs about the intake of hooks and telemetry, for any number of       *)
(* places, sizes, limits and configurations: the inductive invariant       *)
(* IntakeInv, and the properties that follow from it.                      *)
(***************************************************************************)
EXTENDS Intake, TLAPS

LEMMA HeadLeaves ==
    ASSUME NEW S, NEW s \in Seq(S), s # <<>>, NoRepeat(s)
    PROVE  /\ Tail(s) \in Seq(S) /\ Len(Tail(s)) = Len(s) - 1 /\ NoRepeat(Tail(s))
           /\ Holds(s, Head(s)) /\ ~Holds(Tail(s), Head(s))
           /\ \A e : e # Head(s) => (Holds(Tail(s), e) <=> Holds(s, e))
<1>1. /\ Tail(s) \in Seq(S) /\ Len(Tail(s)) = Len(s) - 1 /\ Len(s) \in Nat \ {0}
      /\ Head(s) = s[1] /\ \A i \in 1..Len(s) - 1 : Tail(s)[i] = s[i + 1]
      /\ DOMAIN s = 1..Len(s) /\ DOMAIN Tail(s) = 1..Len(s) - 1
  OBVIOUS
<1>2. NoRepeat(Tail(s))
  BY <1>1 DEF NoRepeat
<1>3. Holds(s, Head(s)) /\ ~Holds(Tail(s), Head(s))
  BY <1>1 DEF NoRepeat, Holds
<1>4. ASSUME NEW e, e # Head(s) PROVE Holds(Tail(s), e) <=> Holds(s, e)
  <2>1. ASSUME NEW i \in 1..Len(s), s[i] = e PROVE Holds(Tail(s), e)
    <3>1. i # 1 /\ i - 1 \in 1..Len(s) - 1 /\ Tail(s)[i - 1] = s[i]
      BY <1>1, <1>4, <2>1
    <3> QED BY <1>1, <2>1, <3>1 DEF Holds
  <2>2. ASSUME NEW i \in 1..Len(s) - 1, Tail(s)[i] = e PROVE Holds(s, e)
    BY <1>1, <2>2 DEF Holds
  <2> QED BY <1>1, <2>1, <2>2 DEF Holds
<1> QED BY <1>1, <1>2, <1>3, <1>4

LEMMA OneJoins ==
    ASSUME NEW S, NEW s \in Seq(S), NEW t \in S, NoRepeat(s), ~Holds(s, t)
    PROVE  /\ Append(s, t) \in Seq(S) /\ Len(Append(s, t)) = Len(s) + 1 /\ NoRepeat(Append(s, t))
           /\ Holds(Append(s, t), t)
           /\ \A e : e # t => (Holds(Append(s, t), e) <=> Holds(s, e))
<1>1. /\ Append(s, t) \in Seq(S) /\ Len(Append(s, t)) = Len(s) + 1 /\ Len(s) \in Nat
      /\ \A i \in 1..Len(s) : Append(s, t)[i] = s[i]
      /\ Append(s, t)[Len(s) + 1] = t
      /\ DOMAIN s = 1..Len(s) /\ DOMAIN Append(s, t) = 1..Len(s) + 1
  OBVIOUS
<1>2. \A i \in 1..Len(s) + 1 : i \in 1..Len(s) \/ i = Len(s) + 1
  BY <1>1
<1>3. \A i \in 1..Len(s) : s[i] # t
  BY <1>1 DEF Holds
<1>4. NoRepeat(Append(s, t))
  BY <1>1, <1>2, <1>3 DEF NoRepeat
<1>5. Holds(Append(s, t), t)
  BY <1>1 DEF Holds
<1>6. ASSUME NEW e, e # t PROVE Holds(Append(s, t), e) <=> Holds(s, e)
  <2>1. ASSUME NEW i \in 1..Len(s), s[i] = e PROVE Holds(Append(s, t), e)
    BY <1>1, <2>1 DEF Holds
  <2>2. ASSUME NEW i \in 1..Len(s) + 1, Append(s, t)[i] = e PROVE Holds(s, e)
    BY <1>1, <1>2, <1>6, <2>2 DEF Holds
  <2> QED BY <1>1, <2>1, <2>2 DEF Holds
<1> QED BY <1>1, <1>4, <1>5, <1>6

---------------------------------------------------------------------------
(* The lane by itself, in the three ways a step can move it.               *)

Tasks == Deliveries \cup {Batch}

LaneInv ==
    /\ files \in Files /\ turn \in Turn
    /\ lane \in Seq(Tasks) /\ Len(lane) <= MaxLane /\ NoRepeat(lane)
    /\ MeasuredIsTrue

LEMMA NothingMeasured == Unmeasured \notin Files /\ Outdated \notin Files
BY LaneAssumption DEF Unmeasured, Outdated, Files

LEMMA TurnIsFresh == FirstTurn \in Turn /\ FirstTurn.measured = Unmeasured
BY LaneAssumption DEF FirstTurn, Turn

LEMMA LaneLeaves ==
    ASSUME LaneInv, NEW t \in Tasks, NEW walOnly \in BOOLEAN,
           Admitted(t, walOnly) \/ Refused(t, walOnly) \/ Unreadable(t)
    PROVE  LaneInv' /\ lane # <<>> /\ t = Head(lane) /\ lane' = Tail(lane)
<1>1. lane # <<>> /\ t = Head(lane) /\ lane' = Tail(lane) /\ turn' = FirstTurn
  BY DEF Admitted, Refused, Unreadable, Answered
<1>2. files' \in Files
  BY LaneAssumption DEF LaneInv, Admitted, Refused, Unreadable, Grown, Checkpointed, Files
<1>3. lane' \in Seq(Tasks) /\ Len(lane') <= MaxLane /\ NoRepeat(lane')
  BY <1>1, HeadLeaves, LaneAssumption DEF LaneInv
<1>4. turn' \in Turn /\ MeasuredIsTrue'
  BY <1>1, TurnIsFresh, NothingMeasured DEF MeasuredIsTrue, StillValid
<1> QED BY <1>1, <1>2, <1>3, <1>4 DEF LaneInv

LEMMA LaneJoins ==
    ASSUME LaneInv, NEW t \in Tasks, ~Holds(lane, t), Enqueue(t)
    PROVE  LaneInv' /\ lane' = Append(lane, t)
<1>1. lane' = Append(lane, t) /\ UNCHANGED <<files, turn>> /\ ~(Len(lane) >= MaxLane)
  BY DEF Enqueue, LaneFull
<1>2. lane' \in Seq(Tasks) /\ Len(lane') <= MaxLane /\ NoRepeat(lane')
  <2>1. Len(lane) \in Nat /\ MaxLane \in Nat
    BY LaneAssumption DEF LaneInv
  <2> QED BY <1>1, <2>1, OneJoins DEF LaneInv
<1>3. MeasuredIsTrue'
  BY <1>1 DEF LaneInv, MeasuredIsTrue, StillValid, Files
<1> QED BY <1>1, <1>2, <1>3 DEF LaneInv

LEMMA LaneMeasures ==
    ASSUME LaneInv, LaneStep \/ WriteElsewhere
    PROVE  LaneInv' /\ lane' = lane
<1>1. CASE Measure
  BY <1>1 DEF LaneInv, Measure, Turn, MeasuredIsTrue, StillValid, NoRepeat
<1>2. CASE Remeasure
  <2>1. lane' = lane /\ files' \in Files
    <3>1. CASE Checkpointed
      BY <1>2, <3>1, LaneAssumption DEF LaneInv, Remeasure, Checkpointed, Files
    <3>2. CASE UNCHANGED files
      BY <1>2, <3>2 DEF LaneInv, Remeasure
    <3> QED BY <1>2, <3>1, <3>2 DEF Remeasure
  <2>2. PICK checkpointed \in BOOLEAN : Repeated(checkpointed)
    BY <1>2 DEF LaneInv, Remeasure, Turn
  <2>3. turn' \in Turn /\ turn'.measured = Unmeasured
    <3>1. turn.snapshot \in Int /\ MaxSnapshots \in Int
      BY LaneAssumption DEF LaneInv, Turn
    <3>2. turn.snapshot + 1 \in 0..(MaxSnapshots - 1)
      BY <2>2, <3>1 DEF LaneInv, Repeated, Turn
    <3> QED BY <2>2, <3>2 DEF Repeated, Turn
  <2> QED BY <2>1, <2>3, NothingMeasured DEF LaneInv, MeasuredIsTrue, StillValid, NoRepeat
<1>3. CASE WriteElsewhere
  <2>1. lane' = lane /\ files' \in Files
    BY <1>3, LaneAssumption DEF WriteElsewhere, Grown, Files
  <2>2. turn' \in Turn /\ turn'.measured \in {Unmeasured, Outdated}
    BY <1>3 DEF LaneInv, WriteElsewhere, Turn, Stamped
  <2> QED BY <2>1, <2>2, NothingMeasured DEF LaneInv, MeasuredIsTrue, StillValid, NoRepeat
<1> QED BY <1>1, <1>2, <1>3 DEF LaneStep

---------------------------------------------------------------------------
(* A step of the hooks.                                                    *)

HookInv == HookTypeOK /\ DrainIsWhole /\ DisabledIsQuiet

Owed == /\ \A d \in Deliveries : delivery[d] = "lane" <=> Holds(lane, d)
        /\ intake = "lane" <=> Holds(lane, Batch)

LEMMA InvParts ==
    IntakeInv <=> /\ LaneInv /\ HookInv /\ TelemetryTypeOK /\ Owed /\ shutdown \in BOOLEAN
                  /\ WritersAreAwaited /\ ClosedInOrder
BY DEF IntakeInv, LaneInv, HookInv, Owed, LaneIsOwed, TypeOK, Tasks

LEMMA InvPartsNext ==
    IntakeInv' <=> /\ LaneInv' /\ HookInv' /\ TelemetryTypeOK' /\ Owed' /\ (shutdown \in BOOLEAN)'
                   /\ WritersAreAwaited' /\ ClosedInOrder'
BY DEF IntakeInv, LaneInv, HookInv, Owed, LaneIsOwed, TypeOK, Tasks

LEMMA LaneStays == ASSUME LaneInv, UNCHANGED laneVars PROVE LaneInv'
BY DEF LaneInv, laneVars, MeasuredIsTrue, StillValid, Files, Turn, NoRepeat

LEMMA TelemetryStays ==
    ASSUME TelemetryTypeOK, WritersAreAwaited, UNCHANGED telemetryVars
    PROVE  TelemetryTypeOK' /\ WritersAreAwaited' /\ intake' = intake /\ closed' = closed
BY DEF TelemetryTypeOK, WritersAreAwaited, telemetryVars

\* A delivery that ends frees its place, and leaves everything quieter.
LEMMA DeliveryEnds ==
    ASSUME HookInv, NEW d \in Deliveries, Ends(d), rows' \in 0..MaxRows,
           UNCHANGED <<enabled, configuring, awaited, closing>>
    PROVE  HookInv' /\ UnderWay' \subseteq UnderWay /\ delivery'[d] = "idle"
           /\ \A e \in Deliveries : e # d => delivery'[e] = delivery[e]
<1>1. /\ delivery'[d] = "idle" /\ \A e \in Deliveries : e # d => delivery'[e] = delivery[e]
      /\ delivery' \in [Deliveries -> Stages \cup {"idle"}]
  BY DEF HookInv, HookTypeOK, Ends
<1>2. UnderWay' = UnderWay \ {d} /\ aborted' = aborted \ {d}
  BY <1>1 DEF UnderWay, Ends
<1> QED BY <1>1, <1>2 DEF HookInv, HookTypeOK, DrainIsWhole, DisabledIsQuiet

\* A delivery that goes on is where it was, but for its stage.
LEMMA DeliveryGoesOn ==
    ASSUME HookInv, NEW d \in Deliveries, NEW from \in Stages, NEW to \in Stages, GoesOn(d, from, to),
           UNCHANGED <<rows, enabled, configuring, awaited, closing>>
    PROVE  HookInv' /\ UnderWay' = UnderWay /\ delivery'[d] = to
           /\ \A e \in Deliveries : e # d => delivery'[e] = delivery[e]
<1>1. /\ delivery'[d] = to /\ \A e \in Deliveries : e # d => delivery'[e] = delivery[e]
      /\ delivery' \in [Deliveries -> Stages \cup {"idle"}]
  BY DEF HookInv, HookTypeOK, GoesOn
<1>2. UnderWay' = UnderWay /\ aborted' = aborted
  BY <1>1 DEF UnderWay, GoesOn, Stages
<1> QED BY <1>1, <1>2 DEF HookInv, HookTypeOK, DrainIsWhole, DisabledIsQuiet

LEMMA HookStepKeeps ==
    ASSUME IntakeInv, Hooks
    PROVE  IntakeInv'
<1> USE DEF HookTurn
<1>0. /\ UNCHANGED telemetryVars /\ shutdown' = shutdown
      /\ LaneInv /\ HookInv /\ Owed /\ ClosedInOrder /\ TelemetryTypeOK /\ WritersAreAwaited
  BY InvParts DEF Hooks
<1>1. TelemetryTypeOK' /\ WritersAreAwaited' /\ intake' = intake /\ closed' = closed
  BY <1>0, TelemetryStays
<1>2. SUFFICES LaneInv' /\ HookInv' /\ Owed' /\ ClosedInOrder'
  BY <1>0, <1>1, InvParts, InvPartsNext
<1> DEFINE Goal == LaneInv' /\ HookInv' /\ Owed' /\ ClosedInOrder'
\* The stage of d changes, and the lane does not.
<1>3. ASSUME UNCHANGED laneVars, HookInv', UnderWay' \subseteq UnderWay, closing' = closing,
             NEW d \in Deliveries, delivery[d] # "lane", delivery'[d] # "lane",
             \A e \in Deliveries : e # d => delivery'[e] = delivery[e]
      PROVE  Goal
  BY <1>0, <1>1, <1>3, LaneStays DEF Owed, ClosedInOrder, laneVars
\* The head of the lane is a delivery and ends.
<1>4. ASSUME NEW d \in Deliveries, Admitted(d, FALSE) \/ Refused(d, FALSE) \/ Unreadable(d), Ends(d),
             rows' \in 0..MaxRows, UNCHANGED <<enabled, configuring, awaited, closing>>
      PROVE  Goal
  <2>1. HookInv' /\ UnderWay' \subseteq UnderWay /\ delivery'[d] = "idle"
        /\ \A e \in Deliveries : e # d => delivery'[e] = delivery[e]
    BY <1>0, <1>4, DeliveryEnds
  <2>2. LaneInv' /\ lane # <<>> /\ d = Head(lane) /\ lane' = Tail(lane)
    BY <1>0, <1>4, LaneLeaves DEF Tasks
  <2>3. ~Holds(lane', d) /\ \A e : e # d => (Holds(lane', e) <=> Holds(lane, e))
    BY <1>0, <2>2, HeadLeaves DEF LaneInv
  <2>4. Owed'
    BY <1>0, <1>1, <2>1, <2>3, BatchAssumption DEF Owed
  <2> QED BY <1>0, <1>1, <1>4, <2>1, <2>2, <2>4 DEF ClosedInOrder
\* Nothing but flags of the hooks changes.
<1>5. ASSUME UNCHANGED <<laneVars, delivery>>, HookInv', ClosedInOrder' PROVE Goal
  BY <1>0, <1>1, <1>5, LaneStays DEF Owed, laneVars
<1>6. ASSUME NEW d \in Deliveries, Receive(d), ~shutdown PROVE Goal
  <2>1. /\ delivery[d] = "idle" /\ delivery'[d] = "reading" /\ aborted' = aborted
        /\ \A e \in Deliveries : e # d => delivery'[e] = delivery[e]
        /\ delivery' \in [Deliveries -> Stages \cup {"idle"}]
    BY <1>0, <1>6 DEF Receive, GoesOn, HookInv, HookTypeOK, Stages
  <2>2. UnderWay \subseteq UnderWay'
    BY <2>1 DEF UnderWay
  <2>3. HookInv'
    BY <1>0, <1>6, <2>1, <2>2 DEF Receive, HookInv, HookTypeOK, DrainIsWhole, DisabledIsQuiet
  <2>4. ClosedInOrder'
    BY <1>0, <1>1, <1>6 DEF Receive, ClosedInOrder
  <2>5. Owed'
    BY <1>0, <1>1, <1>6, <2>1 DEF Receive, Owed, laneVars
  <2>6. LaneInv'
    BY <1>0, <1>6, LaneStays DEF Receive
  <2> QED BY <2>3, <2>4, <2>5, <2>6
<1>7. ASSUME NEW d \in Deliveries, Disconnect(d) PROVE Goal
  <2>1. HookInv' /\ ClosedInOrder'
    BY <1>0, <1>1, <1>7
    DEF Disconnect, HookInv, HookTypeOK, DrainIsWhole, DisabledIsQuiet, ClosedInOrder, UnderWay
  <2> QED BY <1>5, <1>7, <2>1 DEF Disconnect
<1>8. ASSUME NEW d \in Deliveries, BodyRead(d) PROVE Goal
  <2>1. CASE GoesOn(d, "reading", "storing")
    BY <1>0, <1>3, <1>8, <2>1, DeliveryGoesOn DEF BodyRead, GoesOn, Stages
  <2>2. CASE Refuses(d, "reading")
    <3>1. rows' \in 0..MaxRows
      BY <1>0, <1>8 DEF BodyRead, HookInv, HookTypeOK
    <3> QED BY <1>0, <1>3, <1>8, <2>2, <3>1, DeliveryEnds DEF BodyRead, Refuses
  <2> QED BY <1>8, <2>1, <2>2 DEF BodyRead
<1>9. ASSUME NEW d \in Deliveries, BodyStored(d) PROVE Goal
  <2>1. CASE GoesOn(d, "storing", "lane") /\ Enqueue(d)
    <3>1. HookInv' /\ UnderWay' = UnderWay /\ delivery'[d] = "lane"
          /\ \A e \in Deliveries : e # d => delivery'[e] = delivery[e]
      BY <1>0, <1>9, <2>1, DeliveryGoesOn DEF BodyStored, Stages
    <3>2. ~Holds(lane, d)
      BY <1>0, <2>1 DEF Owed, GoesOn
    <3>3. LaneInv' /\ lane' = Append(lane, d)
      BY <1>0, <2>1, <3>2, LaneJoins DEF Tasks
    <3>4. Holds(lane', d) /\ \A e : e # d => (Holds(lane', e) <=> Holds(lane, e))
      BY <1>0, <3>2, <3>3, OneJoins DEF LaneInv, Tasks
    <3>5. Owed'
      BY <1>0, <1>1, <3>1, <3>4, BatchAssumption DEF Owed
    <3>6. ClosedInOrder'
      BY <1>0, <1>1, <1>9, <3>1 DEF BodyStored, ClosedInOrder
    <3> QED BY <3>1, <3>3, <3>5, <3>6
  <2>2. CASE Refuses(d, "storing") /\ UNCHANGED laneVars
    <3>1. rows' \in 0..MaxRows
      BY <1>0, <1>9 DEF BodyStored, HookInv, HookTypeOK
    <3> QED BY <1>0, <1>3, <1>9, <2>2, <3>1, DeliveryEnds DEF BodyStored, Refuses
  <2> QED BY <1>9, <2>1, <2>2 DEF BodyStored
<1>10. ASSUME NEW d \in Deliveries, Insert(d) PROVE Goal
  <2>1. rows' \in 0..MaxRows
    BY <1>0, <1>10, HookAssumption DEF Insert, InsertAllowed, HookInv, HookTypeOK
  <2> QED BY <1>4, <1>10, <2>1 DEF Insert
<1>11. ASSUME NEW d \in Deliveries, InsertRefused(d) \/ InsertFails(d) PROVE Goal
  <2>1. rows' \in 0..MaxRows
    BY <1>0, <1>11 DEF InsertRefused, InsertFails, HookInv, HookTypeOK
  <2> QED BY <1>4, <1>11, <2>1 DEF InsertRefused, InsertFails
<1>12. ASSUME NEW on \in BOOLEAN, Configure(on) PROVE Goal
  <2>1. HookInv' /\ ClosedInOrder'
    BY <1>0, <1>1, <1>12
    DEF Configure, HookInv, HookTypeOK, DrainIsWhole, DisabledIsQuiet, ClosedInOrder, UnderWay
  <2> QED BY <1>5, <1>12, <2>1 DEF Configure
<1>13. CASE HookConfigured
  <2>1. HookInv' /\ ClosedInOrder'
    BY <1>0, <1>1, <1>13
    DEF HookConfigured, ConfigureSaved, ConfigureFails, ConfigureAnswers, Drained,
        HookInv, HookTypeOK, DrainIsWhole, DisabledIsQuiet, ClosedInOrder, UnderWay
  <2> QED BY <1>5, <1>13, <2>1 DEF HookConfigured, ConfigureSaved, ConfigureFails, ConfigureAnswers
<1>14. CASE HooksClosed \/ (closed = "done" /\ CloseHooks)
  <2>1. HookInv' /\ ClosedInOrder'
    BY <1>0, <1>1, <1>14
    DEF HooksClosed, CloseHooks, Settled, HookInv, HookTypeOK, DrainIsWhole, DisabledIsQuiet,
        ClosedInOrder, UnderWay
  <2> QED BY <1>5, <1>14, <2>1 DEF HooksClosed, CloseHooks
<1> QED
  BY <1>2, <1>6, <1>7, <1>8, <1>9, <1>10, <1>11, <1>12, <1>13, <1>14
  DEF Hooks, HookRuns, DeliveryStep, InsertTurn

---------------------------------------------------------------------------
(* A step of telemetry, of the lane and of the shutdown.                   *)

LEMMA HooksStay ==
    ASSUME HookInv, UNCHANGED hookVars
    PROVE  HookInv' /\ delivery' = delivery /\ closing' = closing /\ UnderWay' = UnderWay
BY DEF HookInv, HookTypeOK, DrainIsWhole, DisabledIsQuiet, hookVars, UnderWay

LEMMA TelemetryStepKeeps ==
    ASSUME IntakeInv, Telemetry
    PROVE  IntakeInv'
<1> USE DEF TelemetryTurn
<1>0. /\ UNCHANGED hookVars /\ shutdown' = shutdown
      /\ LaneInv /\ HookInv /\ Owed /\ ClosedInOrder /\ TelemetryTypeOK /\ WritersAreAwaited
  BY InvParts DEF Telemetry
<1>1. HookInv' /\ delivery' = delivery /\ closing' = closing /\ UnderWay' = UnderWay
  BY <1>0, HooksStay
<1>2. SUFFICES LaneInv' /\ TelemetryTypeOK' /\ WritersAreAwaited' /\ Owed' /\ ClosedInOrder'
  BY <1>0, <1>1, InvParts, InvPartsNext
<1> DEFINE Goal == LaneInv' /\ TelemetryTypeOK' /\ WritersAreAwaited' /\ Owed' /\ ClosedInOrder'
\* The lane does not move, and no task of it begins or ends.
<1>3. ASSUME UNCHANGED laneVars, intake' = "lane" <=> intake = "lane",
             TelemetryTypeOK', WritersAreAwaited', ClosedInOrder'
      PROVE  Goal
  BY <1>0, <1>1, <1>3, LaneStays DEF Owed, laneVars
\* The head of the lane is the batch and ends.
<1>4. ASSUME Admitted(Batch, TRUE) \/ Refused(Batch, TRUE) \/ Unreadable(Batch), StoreEnds
      PROVE  Goal
  <2>1. LaneInv' /\ lane # <<>> /\ Batch = Head(lane) /\ lane' = Tail(lane)
    BY <1>0, <1>4, LaneLeaves DEF Tasks
  <2>2. ~Holds(lane', Batch) /\ \A e : e # Batch => (Holds(lane', e) <=> Holds(lane, e))
    BY <1>0, <2>1, HeadLeaves DEF LaneInv
  <2>3. Owed'
    BY <1>0, <1>1, <1>4, <2>2, BatchAssumption DEF Owed, StoreEnds
  <2>4. TelemetryTypeOK' /\ WritersAreAwaited' /\ ClosedInOrder'
    BY <1>0, <1>1, <1>4 DEF StoreEnds, TelemetryTypeOK, WritersAreAwaited, ClosedInOrder
  <2> QED BY <2>1, <2>3, <2>4
\* What ConfigLeaves does to the chain.
<1>5. ASSUME configs # <<>>, ConfigLeaves
      PROVE  /\ configs' \in Seq(BOOLEAN) /\ writing' = FALSE
             /\ ahead' \in 0..Len(configs') /\ chain' \in 0..Len(configs')
  <2>1. configs' \in Seq(BOOLEAN) /\ Len(configs') = Len(configs) - 1 /\ Len(configs) \in Nat \ {0}
    BY <1>0, <1>5 DEF ConfigLeaves, TelemetryTypeOK
  <2> QED BY <1>0, <1>5, <2>1 DEF ConfigLeaves, TelemetryTypeOK
<1>6. ASSUME NEW on \in BOOLEAN, Request(on) PROVE Goal
  <2>1. configs' \in Seq(BOOLEAN) /\ Len(configs') = Len(configs) + 1 /\ Len(configs) \in Nat
        /\ configs' # <<>>
    BY <1>0, <1>6 DEF Request, TelemetryTypeOK
  <2>2. TelemetryTypeOK' /\ WritersAreAwaited' /\ ClosedInOrder'
    BY <1>0, <1>1, <1>6, <2>1 DEF Request, TelemetryTypeOK, WritersAreAwaited, ClosedInOrder
  <2> QED BY <1>3, <1>6, <2>2 DEF Request
<1>7. CASE ConfigTurn
  <2>1. CASE intake # "idle"
    <3>1. configs # <<>> /\ ConfigLeaves /\ UNCHANGED <<intake, collects, closed, laneVars>>
      BY <1>7, <2>1 DEF ConfigTurn
    <3>2. TelemetryTypeOK' /\ WritersAreAwaited' /\ ClosedInOrder'
      BY <1>0, <1>1, <1>5, <3>1 DEF TelemetryTypeOK, WritersAreAwaited, ClosedInOrder
    <3> QED BY <1>3, <3>1, <3>2
  <2>2. CASE intake = "idle"
    <3>1. TelemetryTypeOK' /\ WritersAreAwaited' /\ ClosedInOrder'
      BY <1>0, <1>1, <1>7, <2>2 DEF ConfigTurn, TelemetryTypeOK, WritersAreAwaited, ClosedInOrder
    <3> QED BY <1>3, <1>7, <3>1 DEF ConfigTurn
  <2> QED BY <2>1, <2>2
<1>8. CASE ConfigWritten
  <2>1. configs # <<>> /\ ConfigLeaves /\ UNCHANGED <<intake, closed, laneVars>>
    BY <1>0, <1>8 DEF ConfigWritten, WritersAreAwaited
  <2>2. Head(configs) \in BOOLEAN
    BY <1>0, <2>1 DEF TelemetryTypeOK
  <2>3. collects' \in BOOLEAN
    BY <1>0, <1>8, <2>2 DEF ConfigWritten, TelemetryTypeOK
  <2>4. TelemetryTypeOK' /\ WritersAreAwaited' /\ ClosedInOrder'
    BY <1>0, <1>1, <1>5, <2>1, <2>3 DEF TelemetryTypeOK, WritersAreAwaited, ClosedInOrder
  <2> QED BY <1>3, <2>1, <2>4
<1>9. ASSUME NEW kind \in {"request", "file"}, Ingest(kind), ~shutdown PROVE Goal
  <2>1. Len(configs) \in Nat /\ (configs # <<>> => Len(configs) > 0)
    BY <1>0 DEF TelemetryTypeOK
  <2>2. TelemetryTypeOK' /\ WritersAreAwaited' /\ ClosedInOrder'
    BY <1>0, <1>1, <1>9, <2>1 DEF Ingest, Chained, TelemetryTypeOK, WritersAreAwaited, ClosedInOrder
  <2> QED BY <1>3, <1>9, <2>2 DEF Ingest
<1>10. CASE CheckSettings \/ UploadEnds
  <2>1. TelemetryTypeOK' /\ WritersAreAwaited' /\ ClosedInOrder'
    BY <1>0, <1>1, <1>10
    DEF CheckSettings, UploadEnds, TelemetryTypeOK, WritersAreAwaited, ClosedInOrder
  <2> QED BY <1>3, <1>10, <2>1 DEF CheckSettings, UploadEnds
<1>11. CASE ParseEnds
  <2>1. TelemetryTypeOK' /\ WritersAreAwaited' /\ ClosedInOrder'
    BY <1>0, <1>1, <1>11 DEF ParseEnds, TelemetryTypeOK, WritersAreAwaited, ClosedInOrder
  <2>2. CASE intake' = "lane" /\ Enqueue(Batch)
    <3>1. ~Holds(lane, Batch)
      BY <1>0, <1>11 DEF ParseEnds, Owed
    <3>2. LaneInv' /\ lane' = Append(lane, Batch)
      BY <1>0, <2>2, <3>1, LaneJoins DEF Tasks
    <3>3. Holds(lane', Batch) /\ \A e : e # Batch => (Holds(lane', e) <=> Holds(lane, e))
      BY <1>0, <3>1, <3>2, OneJoins DEF LaneInv, Tasks
    <3>4. Owed'
      BY <1>0, <1>1, <2>2, <3>3, BatchAssumption DEF Owed
    <3> QED BY <2>1, <3>2, <3>4
  <2>3. CASE intake' = "idle" /\ UNCHANGED laneVars
    BY <1>3, <1>11, <2>1, <2>3 DEF ParseEnds
  <2> QED BY <1>11, <2>2, <2>3 DEF ParseEnds
<1>12. CASE StoreTurn \/ StoreFails
  BY <1>4, <1>12 DEF StoreTurn, Store, StoreRefused, StoreFails
<1>13. CASE ClosingGoesOn \/ (shutdown /\ CloseTelemetry)
  <2>1. Len(configs) \in Nat
    BY <1>0 DEF TelemetryTypeOK
  <2>2. TelemetryTypeOK' /\ WritersAreAwaited' /\ ClosedInOrder'
    BY <1>0, <1>1, <1>13, <2>1
    DEF ClosingGoesOn, IntakeSettled, TelemetryClosed, CloseTelemetry, Chained,
        TelemetryTypeOK, WritersAreAwaited, ClosedInOrder
  <2> QED BY <1>3, <1>13, <2>2 DEF ClosingGoesOn, IntakeSettled, TelemetryClosed, CloseTelemetry
<1> QED
  BY <1>2, <1>6, <1>7, <1>8, <1>9, <1>10, <1>11, <1>12, <1>13
  DEF Telemetry, TelemetryRuns, Configured, IntakeGoes

LEMMA OthersKeep ==
    ASSUME IntakeInv, Lane \/ Shutdown \/ UNCHANGED vars
    PROVE  IntakeInv'
<1>0. UNCHANGED <<hookVars, telemetryVars>> /\ LaneInv /\ HookInv /\ Owed /\ ClosedInOrder
      /\ TelemetryTypeOK /\ WritersAreAwaited /\ shutdown \in BOOLEAN
  BY InvParts DEF Lane, Shutdown, vars
<1>1. HookInv' /\ delivery' = delivery /\ closing' = closing /\ UnderWay' = UnderWay
  BY <1>0, HooksStay
<1>2. TelemetryTypeOK' /\ WritersAreAwaited' /\ intake' = intake /\ closed' = closed
  BY <1>0, TelemetryStays
<1>3. LaneInv' /\ lane' = lane
  <2>1. CASE Lane
    BY <1>0, <2>1, LaneMeasures DEF Lane
  <2>2. CASE UNCHANGED laneVars
    BY <1>0, <2>2, LaneStays DEF laneVars
  <2> QED BY <2>1, <2>2 DEF Shutdown, vars
<1>4. (shutdown => shutdown') /\ shutdown' \in BOOLEAN
  BY <1>0 DEF Lane, Shutdown, vars
<1>5. Owed' /\ ClosedInOrder'
  BY <1>0, <1>1, <1>2, <1>3, <1>4 DEF Owed, ClosedInOrder
<1> QED BY <1>1, <1>2, <1>3, <1>4, <1>5, InvPartsNext

---------------------------------------------------------------------------
(* The theorems.                                                           *)

LEMMA InitEstablishes == Init => IntakeInv
<1> SUFFICES ASSUME Init PROVE IntakeInv
  OBVIOUS
<1>1. LaneInv
  BY LaneAssumption, TurnIsFresh, NothingMeasured
  DEF Init, LaneInit, LaneInv, Files, NoRepeat, MeasuredIsTrue, StillValid
<1>2. HookInv
  BY HookAssumption
  DEF Init, HookInit, HookInv, HookTypeOK, DrainIsWhole, DisabledIsQuiet, UnderWay
<1>3. TelemetryTypeOK /\ WritersAreAwaited
  <2>1. configs = <<>> /\ configs \in Seq(BOOLEAN) /\ Len(configs) = 0
    BY DEF Init, TelemetryInit
  <2>2. ahead \in 0..Len(configs) /\ chain \in 0..Len(configs)
    BY <2>1 DEF Init, TelemetryInit
  <2> QED BY <2>1, <2>2 DEF Init, TelemetryInit, TelemetryTypeOK, WritersAreAwaited
<1>4. Owed /\ ClosedInOrder /\ shutdown \in BOOLEAN
  <2>1. \A e : ~Holds(lane, e)
    BY DEF Init, LaneInit, Holds
  <2> QED BY <2>1 DEF Init, HookInit, TelemetryInit, Owed, ClosedInOrder
<1> QED BY <1>1, <1>2, <1>3, <1>4, InvParts

\* The inductive invariant holds in every state: types and limits, every write at
\* the lane is waited for and once in it, a measurement the head may act on is true
\* (withCapacity, ClaudeHookReceiver, TelemetryReceiver).
THEOREM IntakeInvariant == Spec => []IntakeInv
<1>1. IntakeInv /\ [Next]_vars => IntakeInv'
  BY HookStepKeeps, TelemetryStepKeeps, OthersKeep DEF Next
<1> QED BY <1>1, InitEstablishes, PTL DEF Spec

\* Once switching the hooks off has been answered no delivery is under way
\* (ClaudeHookReceiver.configure).
THEOREM OffIsOff == Spec => []DisabledIsQuiet
<1>1. IntakeInv => DisabledIsQuiet
  BY DEF IntakeInv
<1> QED BY <1>1, IntakeInvariant, PTL

\* The database is handed back with nothing under way that writes to it
\* (server.close).
THEOREM DatabaseIsFree == Spec => []HandedBackIsQuiet
<1>1. ASSUME IntakeInv, HandedBack PROVE lane = <<>> /\ UnderWay = {} /\ intake = "idle"
  <2>1. UnderWay = {} /\ intake = "idle"
    BY <1>1 DEF IntakeInv, ClosedInOrder, HandedBack
  <2>2. ASSUME lane # <<>> PROVE FALSE
    <3>1. lane[1] \in Tasks /\ 1 \in DOMAIN lane
      <4>1. lane \in Seq(Tasks)
        BY <1>1 DEF IntakeInv, TypeOK, Tasks
      <4> QED BY <2>2, <4>1
    <3>2. Holds(lane, lane[1])
      BY <3>1 DEF Holds
    <3>3. CASE lane[1] = Batch
      BY <1>1, <2>1, <3>2, <3>3 DEF IntakeInv, LaneIsOwed
    <3>4. CASE lane[1] \in Deliveries
      <4>1. delivery[lane[1]] = "lane"
        BY <1>1, <3>2, <3>4 DEF IntakeInv, LaneIsOwed
      <4> QED BY <2>1, <3>4, <4>1 DEF UnderWay
    <3> QED BY <3>1, <3>3, <3>4 DEF Tasks
  <2> QED BY <2>1, <2>2
<1>2. IntakeInv => HandedBackIsQuiet
  BY <1>1 DEF HandedBackIsQuiet
<1> QED BY <1>2, IntakeInvariant, PTL

\* A write runs only while the files are below the limits of its kind
\* (withCapacity).
THEOREM WritesStayBelow == Spec => AdmittedBelowLimit
<1>1. ASSUME IntakeInv, NEW t, NEW walOnly, Admitted(t, walOnly)
      PROVE  /\ files.wal < WalAdmission
             /\ ~walOnly => files.main + files.wal < CombinedAdmission
  <2>1. turn.measured = files /\ ~Limited(walOnly)
    BY <1>1 DEF Admitted, IntakeInv, MeasuredIsTrue
  <2>2. files.wal \in Int /\ files.main \in Int /\ WalAdmission \in Int /\ CombinedAdmission \in Int
    BY <1>1, LaneAssumption DEF IntakeInv, TypeOK, Files
  <2> QED BY <2>1, <2>2 DEF Limited
<1>2. ASSUME IntakeInv, Next, rows' # rows
      PROVE  files.wal < WalAdmission /\ files.main + files.wal < CombinedAdmission
  <2>1. PICK d \in Deliveries : Insert(d)
    BY <1>2 DEF Next, Hooks, Telemetry, Lane, Shutdown, HookTurn, TelemetryTurn, HookRuns, hookVars,
        DeliveryStep, InsertTurn, HookConfigured, Receive, Disconnect, BodyRead, BodyStored,
        InsertRefused, InsertFails, Configure, ConfigureFails, ConfigureSaved, ConfigureAnswers,
        CloseHooks, HooksClosed
  <2> QED BY <1>1, <1>2, <2>1 DEF Insert
<1>3. IntakeInv /\ [Next]_vars =>
        [ /\ rows' # rows => files.wal < WalAdmission /\ files.main + files.wal < CombinedAdmission
          /\ Store => files.wal < WalAdmission ]_vars
  BY <1>1, <1>2 DEF Store
<1> QED BY <1>3, IntakeInvariant, PTL DEF Spec, AdmittedBelowLimit

\* The settings an intake was checked against are in force until it ends
\* (TelemetryReceiver.configure, run).
THEOREM SettingsAreHeld == Spec => SettingsHold
<1>1. ASSUME IntakeInv, [Next]_vars, collects' # collects
      PROVE  intake \in {"idle", "request", "file"}
  <2>1. ConfigWritten
    BY <1>1 DEF Next, Hooks, Telemetry, Lane, Shutdown, HookTurn, TelemetryTurn, TelemetryRuns,
        Configured, IntakeGoes, ClosingGoesOn, StoreTurn, telemetryVars, vars, Request, ConfigTurn, Ingest,
        CheckSettings, UploadEnds, ParseEnds, Store, StoreRefused, StoreFails, StoreEnds, CloseTelemetry,
        IntakeSettled, TelemetryClosed
  <2> QED BY <1>1, <2>1 DEF ConfigWritten, IntakeInv, WritersAreAwaited
<1>2. IntakeInv /\ [Next]_vars =>
        [collects' # collects => intake \in {"idle", "request", "file"}]_<<collects, intake>>
  BY <1>1
<1> QED BY <1>2, IntakeInvariant, PTL DEF Spec, SettingsHold
=============================================================================
