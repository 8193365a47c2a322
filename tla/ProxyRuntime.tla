--------------------------- MODULE ProxyRuntime ---------------------------
(***************************************************************************)
(* ProxyRuntime (server/proxy/controller.ts): starting, stopping and       *)
(* maintaining the one proxy of a process.  boot and the cleanup of stop   *)
(* are asynchronous, a Stop may overtake a boot, the wait for a cleanup    *)
(* times out while the cleanup goes on, and a cleanup may fail and be      *)
(* retried.  Counters, ports and published status are left out.            *)
(***************************************************************************)
CONSTANTS
    Runs,        \* start attempts; each is used once (captureGroupId)
    NoRun,       \* a value that is not a run
    Maintenance  \* the holder that is not a run, see MonitorLease

ASSUME RunsAssumption == NoRun \notin Runs /\ Maintenance \notin Runs /\ NoRun # Maintenance

VARIABLES
    phase,        \* as in the code
    current,      \* the run whose generation is this.generation, NoRun after a Stop
    bootTask,     \* the run whose boot a cleanup awaits: the last one started
    boot,         \* per run: how far boot() came
    transport,    \* per run: its listener
    proxy,        \* this.proxy, as the run that made it
    cleanup,      \* cleanupTask: absent, awaiting bootTask, awaiting shutdown
    waiting,      \* stopRequest is pending
    maintenance   \* the reservation of withStoppedMonitor

vars == <<phase, current, bootTask, boot, transport, proxy, cleanup, waiting, maintenance>>

InFlight(r) == boot[r] \in {"storing", "creating"}
Alive(r)    == transport[r] \in {"listening", "draining"}

Init ==
    /\ phase = "idle" /\ current = NoRun /\ bootTask = NoRun /\ proxy = NoRun
    /\ boot = [r \in Runs |-> "none"] /\ transport = [r \in Runs |-> "none"]
    /\ cleanup = "none" /\ waiting = FALSE /\ maintenance = FALSE

---------------------------------------------------------------------------
(* Faulty variants of the actions below, one plausible mistake each; none  *)
(* is part of Next.                                                        *)

StartAfterFailure(r) ==
    /\ ~maintenance /\ boot[r] = "none" /\ phase \in {"idle", "failed"}
    /\ phase' = "starting" /\ current' = r /\ bootTask' = r
    /\ boot' = [boot EXCEPT ![r] = "storing"]
    /\ UNCHANGED <<transport, proxy, cleanup, waiting, maintenance>>

CleanupSkipsBoot ==
    /\ cleanup = "booting"
    /\ IF proxy = NoRun
       THEN /\ phase' = "idle" /\ cleanup' = "none" /\ waiting' = FALSE
            /\ UNCHANGED transport
       ELSE /\ transport' = [transport EXCEPT ![proxy] = "draining"]
            /\ cleanup' = "draining"
            /\ UNCHANGED <<phase, waiting>>
    /\ UNCHANGED <<current, bootTask, boot, proxy, maintenance>>

TimeoutForgetsRequest ==
    /\ waiting /\ cleanup # "none"
    /\ phase' = "failed"
    /\ UNCHANGED <<waiting, current, bootTask, boot, transport, proxy, cleanup, maintenance>>

---------------------------------------------------------------------------
\* start: refused during maintenance and until the last run is cleaned up.
Start(r) ==
    /\ ~maintenance /\ boot[r] = "none"
    /\ phase = "idle" \/ (phase = "failed" /\ proxy = NoRun /\ cleanup = "none")
    /\ phase' = "starting" /\ current' = r /\ bootTask' = r
    /\ boot' = [boot EXCEPT ![r] = "storing"]
    /\ UNCHANGED <<transport, proxy, cleanup, waiting, maintenance>>

\* boot got the body store; a Stop in the meantime ends it here.
StoreOpened(r) ==
    /\ boot[r] = "storing"
    /\ boot' = [boot EXCEPT ![r] = IF current = r THEN "creating" ELSE "over"]
    /\ UNCHANGED <<phase, current, bootTask, transport, proxy, cleanup, waiting, maintenance>>

\* boot throws: recovery of the store failed, or the listener did not come up.
BootFails(r) ==
    /\ InFlight(r)
    /\ boot' = [boot EXCEPT ![r] = "over"]
    /\ phase' = IF current = r THEN "failed" ELSE phase
    /\ UNCHANGED <<current, bootTask, transport, proxy, cleanup, waiting, maintenance>>

\* createProxy listens.  A late transport is left to the Stop that overtook it.
ProxyCreated(r) ==
    /\ boot[r] = "creating"
    /\ boot' = [boot EXCEPT ![r] = "over"]
    /\ transport' = [transport EXCEPT ![r] = "listening"]
    /\ proxy' = r
    /\ phase' = IF phase = "starting" /\ current = r THEN "running" ELSE phase
    /\ UNCHANGED <<current, bootTask, cleanup, waiting, maintenance>>

\* stop: callers share a pending request; a cleanup that still runs is reused.
Stop ==
    /\ phase # "idle" /\ ~waiting
    /\ phase' = "stopping" /\ current' = NoRun /\ waiting' = TRUE
    /\ cleanup' = IF cleanup = "none" THEN "booting" ELSE cleanup
    /\ UNCHANGED <<bootTask, boot, transport, proxy, maintenance>>

\* The cleanup has awaited the boot: it shuts this.proxy down, if there is one.
CleanupDrains ==
    /\ cleanup = "booting"
    /\ bootTask # NoRun => ~InFlight(bootTask)
    /\ IF proxy = NoRun
       THEN /\ phase' = "idle" /\ cleanup' = "none" /\ waiting' = FALSE
            /\ UNCHANGED transport
       ELSE /\ transport' = [transport EXCEPT ![proxy] = "draining"]
            /\ cleanup' = "draining"
            /\ UNCHANGED <<phase, waiting>>
    /\ UNCHANGED <<current, bootTask, boot, proxy, maintenance>>

CleanupDone ==
    /\ cleanup = "draining"
    /\ transport' = [transport EXCEPT ![proxy] = "closed"]
    /\ proxy' = NoRun /\ phase' = "idle" /\ cleanup' = "none" /\ waiting' = FALSE
    /\ UNCHANGED <<current, bootTask, boot, maintenance>>

\* shutdown rejects: the proxy is kept, and only another Stop goes on.
CleanupFails ==
    /\ cleanup = "draining"
    /\ cleanup' = "none" /\ waiting' = FALSE
    /\ phase' = IF waiting THEN "failed" ELSE phase
    /\ UNCHANGED <<current, bootTask, boot, transport, proxy, maintenance>>

\* stopTimeoutMs: the request fails, the cleanup goes on.
StopTimeout ==
    /\ waiting /\ cleanup # "none"
    /\ phase' = "failed" /\ waiting' = FALSE
    /\ UNCHANGED <<current, bootTask, boot, transport, proxy, cleanup, maintenance>>

\* withStoppedMonitor reserves before its first await.
BeginMaintenance ==
    /\ ~maintenance /\ cleanup = "none" /\ ~waiting
    /\ phase = "idle" \/ (phase = "failed" /\ proxy = NoRun)
    /\ maintenance' = TRUE
    /\ UNCHANGED <<phase, current, bootTask, boot, transport, proxy, cleanup, waiting>>

EndMaintenance ==
    /\ maintenance
    /\ maintenance' = FALSE
    /\ UNCHANGED <<phase, current, bootTask, boot, transport, proxy, cleanup, waiting>>

Boot(r)  == StoreOpened(r) \/ ProxyCreated(r) \/ BootFails(r)
Cleaning == CleanupDrains \/ CleanupDone \/ CleanupFails

Next ==
    \/ \E r \in Runs : Start(r) \/ Boot(r)
    \/ Stop \/ Cleaning \/ StopTimeout \/ BeginMaintenance \/ EndMaintenance

Spec == Init /\ [][Next]_vars

\* A boot ends, well or badly, and timers fire.  A drain may hang (it waits for
\* sockets and writes), and nobody has to press a button.
Fairness ==
    /\ \A r \in Runs : WF_vars(Boot(r))
    /\ WF_vars(StopTimeout)

FairSpec == Spec /\ Fairness

---------------------------------------------------------------------------
TypeOK ==
    /\ phase \in {"idle", "starting", "running", "stopping", "failed"}
    /\ current \in Runs \cup {NoRun} /\ bootTask \in Runs \cup {NoRun} /\ proxy \in Runs \cup {NoRun}
    /\ boot \in [Runs -> {"none", "storing", "creating", "over"}]
    /\ transport \in [Runs -> {"none", "listening", "draining", "closed"}]
    /\ cleanup \in {"none", "booting", "draining"}
    /\ waiting \in BOOLEAN /\ maintenance \in BOOLEAN

\* The phase shown to the user is the truth about the listener: "running" means
\* the current run listens, and "idle" that nothing listens or is about to
\* (boot, cleanupTask and stopRequest run concurrently).
PhaseIsTrue ==
    /\ phase = "running" => proxy = current /\ current \in Runs /\ transport[current] = "listening"
    /\ phase = "idle" => proxy = NoRun /\ \A r \in Runs : ~Alive(r) /\ ~InFlight(r)

\* No listener is lost: one that is not closed is the one this.proxy names, so
\* a Stop can still reach it.
NoOrphan == \A r \in Runs : Alive(r) => proxy = r

\* At most one run or maintenance action holds the capture files, see MonitorLease.
Lease == INSTANCE MonitorLease WITH
    holders <- {r \in Runs : InFlight(r) \/ Alive(r)} \cup (IF maintenance THEN {Maintenance} ELSE {}),
    spent   <- {r \in Runs : boot[r] = "over" /\ ~Alive(r)}
LeaseSpec == Lease!Spec

\* Every Stop request is answered, even if the cleanup hangs in a boot or a
\* drain, and the answer is an idle monitor or a reported failure (stopRequest).
StopAnswered == waiting ~> ~waiting /\ phase \in {"idle", "failed"}

\* A start does not hang: the boot ends, whatever overtakes it.
StartSettles == phase = "starting" ~> phase # "starting"

\* No caller of start or stop is left without an answer.
RequestsSettle == StopAnswered /\ StartSettles

---------------------------------------------------------------------------
(* The inductive invariant behind the safety properties.                   *)

Quiet == \A r \in Runs : ~InFlight(r)

\* What each phase says of boot, proxy and cleanup.
PhaseShape ==
    /\ phase = "idle" => Quiet /\ proxy = NoRun /\ cleanup = "none"
    /\ phase = "starting" => current \in Runs /\ InFlight(current) /\ cleanup = "none"
    /\ phase = "running" => current \in Runs /\ proxy = current /\ transport[current] = "listening"
                            /\ cleanup = "none"
    /\ phase = "stopping" <=> waiting
    /\ phase = "failed" /\ cleanup = "none" => Quiet
    /\ waiting => cleanup # "none"

\* The one run that can be in flight or alive, and what a cleanup or a
\* maintenance action may rely on.
RunShape ==
    /\ \A r \in Runs : InFlight(r) => bootTask = r /\ proxy = NoRun /\ transport[r] = "none"
    /\ \A r \in Runs : Alive(r) <=> proxy = r
    /\ \A r \in Runs : boot[r] = "none" => transport[r] = "none"
    /\ \A r \in Runs : transport[r] # "none" => boot[r] = "over"
    /\ cleanup # "none" => current = NoRun
    /\ cleanup = "draining" => Quiet /\ proxy # NoRun
    /\ maintenance => Quiet /\ proxy = NoRun

\* The inductive invariant: types, what each phase says, and one run at a time.
RuntimeInv == TypeOK /\ PhaseShape /\ RunShape
===========================================================================
