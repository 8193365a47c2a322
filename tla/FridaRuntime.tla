---------------------------- MODULE FridaRuntime ----------------------------
(***************************************************************************)
(* FridaRuntime (server/proxy/controller.ts) and the process that          *)
(* runFridaMonitor (frida-capture.ts) spawns for it.  A start discovers a  *)
(* target and reads the script before it spawns; a Stop may overtake it;   *)
(* the process may fail, die or outlive the wait of a Stop, and a kill may *)
(* throw.  The wire decoder and the published pid are left out, and so is  *)
(* an error reported before spawn returns, which the monitor never does.   *)
(***************************************************************************)
EXTENDS Naturals

CONSTANTS
    Runs,     \* start attempts; each is used once (generation, runId)
    NoRun,    \* a value that is not a run
    MaxRows   \* bound: stored captures per run

ASSUME FridaAssumption == NoRun \notin Runs /\ MaxRows \in Nat

VARIABLES
    running, starting,  \* status()
    stopping,           \* as in the code: starts are refused
    current,            \* the run whose generation is this.generation, or NoRun
    bootTask,           \* the run of the last startOwned
    boot,               \* per run: how far startOwned came
    process,            \* per run: its frida process; "dying" was killed
    failed,             \* runs whose fail() was called
    child,              \* this.child, as the run that spawned it
    stopTask,           \* absent, awaiting bootTask, awaiting closed
    waiting,            \* a caller of stop() waits
    shown,              \* the last frida_status event said running
    rows                \* per run: captures in the database

vars == <<running, starting, stopping, current, bootTask, boot, process, failed, child,
          stopTask, waiting, shown, rows>>

InFlight(r) == boot[r] \in {"discovering", "validating"}
Attached(r) == process[r] \in {"spawning", "up", "dying"}

Init ==
    /\ running = FALSE /\ starting = FALSE /\ stopping = FALSE /\ shown = FALSE
    /\ current = NoRun /\ bootTask = NoRun /\ child = NoRun
    /\ boot = [r \in Runs |-> "none"] /\ process = [r \in Runs |-> "none"]
    /\ failed = {} /\ stopTask = "none" /\ waiting = FALSE
    /\ rows = [r \in Runs |-> 0]

\* What a stop resets at its end.
Finished ==
    /\ starting' = FALSE /\ running' = FALSE /\ stopping' = FALSE
    /\ stopTask' = "none" /\ waiting' = FALSE

---------------------------------------------------------------------------
(* Faulty variants of the actions below, one plausible mistake each; none  *)
(* is part of Next.                                                        *)

StartDuringCleanup(r) ==
    /\ ~running /\ ~starting /\ boot[r] = "none"
    /\ starting' = TRUE /\ current' = r /\ bootTask' = r
    /\ \E b \in {"discovering", "validating"} : boot' = [boot EXCEPT ![r] = b]
    /\ UNCHANGED <<running, stopping, process, failed, child, stopTask, waiting, shown, rows>>

StopSkipsBoot ==
    /\ stopTask = "booting"
    /\ IF child = NoRun
       THEN Finished /\ UNCHANGED process
       ELSE /\ process' = [process EXCEPT ![child] = "dying"]
            /\ stopTask' = "closing"
            /\ UNCHANGED <<starting, running, stopping, waiting>>
    /\ UNCHANGED <<current, bootTask, boot, failed, child, shown, rows>>

CloseLeavesStopping(r) ==
    /\ Attached(r)
    /\ process' = [process EXCEPT ![r] = "closed"]
    /\ child' = NoRun /\ running' = FALSE /\ starting' = FALSE /\ shown' = FALSE
    /\ current' = NoRun
    /\ UNCHANGED <<stopping, bootTask, boot, failed, stopTask, waiting, rows>>

---------------------------------------------------------------------------
\* start: refused while a stop is pending, joined while one runs.  A caller
\* that names a PID skips the discovery.
Start(r) ==
    /\ ~stopping /\ ~running /\ ~starting /\ boot[r] = "none"
    /\ starting' = TRUE /\ current' = r /\ bootTask' = r
    /\ \E b \in {"discovering", "validating"} : boot' = [boot EXCEPT ![r] = b]
    /\ UNCHANGED <<running, stopping, process, failed, child, stopTask, waiting, shown, rows>>

\* discoverFridaTarget named a process; a Stop in the meantime ends the boot here.
Discovered(r) ==
    /\ boot[r] = "discovering"
    /\ boot' = [boot EXCEPT ![r] = IF current = r THEN "validating" ELSE "over"]
    /\ UNCHANGED <<running, starting, stopping, current, bootTask, process, failed, child,
                   stopTask, waiting, shown, rows>>

\* The script was read; what follows up to the spawn awaits nothing.
Validated(r) ==
    /\ boot[r] = "validating"
    /\ boot' = [boot EXCEPT ![r] = "over"]
    /\ IF current = r
       THEN process' = [process EXCEPT ![r] = "spawning"] /\ child' = r
       ELSE UNCHANGED <<process, child>>
    /\ UNCHANGED <<running, starting, stopping, current, bootTask, failed, stopTask, waiting, shown, rows>>

\* No target, an unimplemented script, or spawn throws.
BootFails(r) ==
    /\ InFlight(r)
    /\ boot' = [boot EXCEPT ![r] = "over"]
    /\ IF current = r
       THEN starting' = FALSE /\ shown' = FALSE
       ELSE UNCHANGED <<starting, shown>>
    /\ UNCHANGED <<running, stopping, current, bootTask, process, failed, child, stopTask, waiting, rows>>

\* The 'spawn' event; too late when the run has failed or is being stopped.
Spawned(r) ==
    /\ process[r] = "spawning"
    /\ process' = [process EXCEPT ![r] = "up"]
    /\ IF current = r /\ r \notin failed /\ ~stopping
       THEN starting' = FALSE /\ running' = TRUE /\ shown' = TRUE
       ELSE UNCHANGED <<starting, running, shown>>
    /\ UNCHANGED <<stopping, current, bootTask, boot, failed, child, stopTask, waiting, rows>>

\* fail: an 'error' event, undecodable output or a refused insert.  The kill it
\* sends may throw, which is only reported.
Fail(r) ==
    /\ Attached(r) /\ current = r /\ r \notin failed
    /\ failed' = failed \cup {r} /\ stopping' = TRUE
    /\ \E p \in {process[r], "dying"} : process' = [process EXCEPT ![r] = p]
    /\ UNCHANGED <<running, starting, current, bootTask, boot, child, stopTask, waiting, shown, rows>>

\* onData: a decoded capture becomes a row (and an event) of its run.
Store(r) ==
    /\ process[r] \in {"up", "dying"}
    /\ current = r /\ r \notin failed /\ ~stopping
    /\ rows[r] < MaxRows
    /\ rows' = [rows EXCEPT ![r] = @ + 1]
    /\ UNCHANGED <<running, starting, stopping, current, bootTask, boot, process, failed, child,
                   stopTask, waiting, shown>>

\* The 'close' event: killed, detached, or never spawned.
Close(r) ==
    /\ Attached(r)
    /\ process' = [process EXCEPT ![r] = "closed"]
    /\ IF child = r
       THEN /\ child' = NoRun /\ running' = FALSE /\ starting' = FALSE /\ shown' = FALSE
            /\ stopping' = IF stopTask = "none" THEN FALSE ELSE stopping
            /\ current' = NoRun
       ELSE UNCHANGED <<child, running, starting, shown, stopping, current>>
    /\ UNCHANGED <<bootTask, boot, failed, stopTask, waiting, rows>>

\* stop: a stop that still runs is joined; otherwise the run loses its generation.
Stop ==
    /\ ~waiting
    /\ waiting' = TRUE
    /\ IF stopTask = "none"
       THEN stopTask' = "booting" /\ stopping' = TRUE /\ current' = NoRun
       ELSE UNCHANGED <<stopTask, stopping, current>>
    /\ UNCHANGED <<running, starting, bootTask, boot, process, failed, child, shown, rows>>

\* The boot is over: the stop kills the child it finds, if there is one.
StopKills ==
    /\ stopTask = "booting"
    /\ bootTask # NoRun => ~InFlight(bootTask)
    /\ IF child = NoRun
       THEN Finished /\ UNCHANGED process
       ELSE /\ process' = [process EXCEPT ![child] = "dying"]
            /\ stopTask' = "closing"
            /\ UNCHANGED <<starting, running, stopping, waiting>>
    /\ UNCHANGED <<current, bootTask, boot, failed, child, shown, rows>>

\* The kill throws: the stop rejects, and only another one goes on.
KillFails ==
    /\ stopTask = "booting" /\ child # NoRun
    /\ bootTask # NoRun => ~InFlight(bootTask)
    /\ stopTask' = "none" /\ waiting' = FALSE
    /\ UNCHANGED <<running, starting, stopping, current, bootTask, boot, process, failed, child, shown, rows>>

StopDone ==
    /\ stopTask = "closing" /\ child = NoRun
    /\ Finished
    /\ UNCHANGED <<current, bootTask, boot, process, failed, child, shown, rows>>

\* stopTimeoutMs: the caller is told to retry, the stop goes on.
StopTimeout ==
    /\ waiting
    /\ waiting' = FALSE
    /\ UNCHANGED <<running, starting, stopping, current, bootTask, boot, process, failed, child,
                   stopTask, shown, rows>>

Boot(r)  == Discovered(r) \/ Validated(r) \/ BootFails(r)
Cleaning == StopKills \/ KillFails \/ StopDone

Next ==
    \/ \E r \in Runs : Start(r) \/ Boot(r) \/ Spawned(r) \/ Fail(r) \/ Store(r) \/ Close(r)
    \/ Stop \/ Cleaning \/ StopTimeout

Spec == Init /\ [][Next]_vars

\* A boot ends (its probes have a timeout), a killed process closes, and a stop
\* takes the steps that await nothing; nobody has to press a button.
Fairness ==
    /\ \A r \in Runs : WF_vars(Boot(r)) /\ WF_vars(process[r] = "dying" /\ Close(r))
    /\ WF_vars(Cleaning)

FairSpec == Spec /\ Fairness

---------------------------------------------------------------------------
TypeOK ==
    /\ running \in BOOLEAN /\ starting \in BOOLEAN /\ stopping \in BOOLEAN
    /\ waiting \in BOOLEAN /\ shown \in BOOLEAN
    /\ current \in Runs \cup {NoRun} /\ bootTask \in Runs \cup {NoRun} /\ child \in Runs \cup {NoRun}
    /\ boot \in [Runs -> {"none", "discovering", "validating", "over"}]
    /\ process \in [Runs -> {"none", "spawning", "up", "dying", "closed"}]
    /\ failed \in SUBSET Runs
    /\ stopTask \in {"none", "booting", "closing"}
    /\ rows \in [Runs -> 0..MaxRows]

\* What the status may say: nothing is attached or about to be when it says
\* idle, so that a start is safe, and the feed agrees with it.
StatusShape ==
    /\ ~starting /\ ~running /\ ~stopping => child = NoRun /\ \A r \in Runs : ~InFlight(r)
    /\ running => child # NoRun /\ ~starting
    /\ child # NoRun /\ ~stopping =>
          /\ current = child /\ process[child] \in {"spawning", "up"}
          /\ running <=> process[child] = "up"
    /\ shown = running
    /\ stopTask # "none" => stopping /\ current = NoRun
    /\ waiting => stopTask # "none"
    /\ stopping /\ stopTask = "none" => child # NoRun
    /\ starting /\ ~stopping => current \in Runs /\ (InFlight(current) \/ child = current)

\* The one run that may boot or be attached.
RunShape ==
    /\ \A r \in Runs : Attached(r) <=> child = r
    /\ \A r \in Runs : InFlight(r) => bootTask = r /\ child = NoRun /\ stopTask # "closing"
    /\ \A r \in Runs : InFlight(r) /\ stopTask = "none" => starting /\ current = r
    /\ \A r \in Runs : boot[r] # "over" => process[r] = "none" /\ r \notin failed
    /\ \A r \in Runs : boot[r] = "none" => current # r
    /\ \A r \in Runs : r \in failed /\ child = r => stopping
    /\ stopTask = "closing" /\ child # NoRun => process[child] = "dying"

\* The inductive invariant: status, feed, boot, child and stop agree in every
\* order of start, stop, timeout, failure and death (startOwned, fail, stop).
\* The inductive invariant: status, feed, boot, process and stop agree.
FridaInv == TypeOK /\ StatusShape /\ RunShape

\* A capture is stored only while the status says the monitor runs and no stop
\* or failure is pending: nothing a late process writes gets in (onData).
RowsWhileShown == [][rows' # rows => running /\ shown /\ ~stopping]_vars

\* At most one run boots or is attached at a time, and none twice, see MonitorLease.
Lease == INSTANCE MonitorLease WITH
    Maintenance <- NoRun,
    holders <- {r \in Runs : InFlight(r) \/ Attached(r)},
    spent   <- {r \in Runs : boot[r] = "over" /\ ~Attached(r)}
FridaLease == Lease!Spec

\* The monitor cannot stay refused: once what is attached has been killed, and
\* once nothing is attached, starts are accepted again (stopping).
Released == stopping /\ (child # NoRun => process[child] = "dying") ~> ~stopping
===========================================================================
