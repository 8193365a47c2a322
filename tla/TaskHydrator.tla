--------------------------- MODULE TaskHydrator ---------------------------
(***************************************************************************)
(* TaskHomeHydrator (server/watch/task-home-hydrator.ts): pages subscribe  *)
(* to the details of the members of their tasks; one job per member loads  *)
(* them for all pages that want it, few at a time.                         *)
(*                                                                         *)
(* The loading of a session (server/server.ts) is one step with an outcome.*)
(* A page that breaks, or whose frame throws, leaves; its deadline cancels *)
(* it.  A job is the key of its member and a slot, because the job that    *)
(* everybody has left may still be loading when the next one is made.      *)
(***************************************************************************)
EXTENDS Integers, FiniteSets

CONSTANTS
    Leases, Tasks, Keys,
    Members,     \* bound of the exploration: what a page may ask for
    MaxLeases,   \* pages at once (4)
    MaxJobs,     \* members wanted at once (5000)
    MaxLoads     \* jobs that load at once (2)

ASSUME HydratorAssumption ==
    /\ IsFiniteSet(Keys) /\ Members \subseteq SUBSET (Tasks \X Keys)
    /\ {MaxLeases, MaxJobs, MaxLoads} \subseteq Nat \ {0}

VARIABLES
    lease,       \* per page, see Lease
    job,         \* per key and slot, see Job; NoJob if there is none
    jobs,        \* per key: the slot of the job in the map, or 0
    loaded,      \* members whose details are in the database
    scheduled, closed

hydratorVars == <<lease, job, jobs, loaded, scheduled, closed>>

Slots == 1..(MaxLoads + 1)
JobIds == Keys \X Slots

\* pending as in the code; timer: a flush is due; told: the tasks whose final
\* state the page has been sent.
Lease == [status  : {"new", "open", "done", "cancelled", "left"},
          pending : [Tasks -> Nat],
          dirty   : SUBSET Tasks,
          timer   : BOOLEAN,
          told    : SUBSET Tasks]

\* owners: the pages and the tasks the member is in
Job == [owners  : SUBSET (Leases \X Tasks),
        aborted : BOOLEAN,
        active  : BOOLEAN]

Unsubscribed == [status |-> "new", pending |-> [t \in Tasks |-> 0], dirty |-> {},
                 timer |-> FALSE, told |-> {}]
NoJob   == [owners |-> {}, aborted |-> FALSE, active |-> FALSE]
Running == {i \in JobIds : job[i].active}
Open    == {l \in Leases : lease[l].status = "open"}

HydratorInit ==
    /\ lease = [l \in Leases |-> Unsubscribed]
    /\ job = [i \in JobIds |-> NoJob] /\ jobs = [k \in Keys |-> 0]
    /\ loaded = {} /\ scheduled = FALSE /\ closed = FALSE

---------------------------------------------------------------------------
(* Faulty variants of the definitions below, one plausible mistake each;   *)
(* none is part of HydratorNext.                                           *)

\* The end of an old job deletes the entry of the one that replaced it.
AfterLoadOfAnyJob(i) == [jobs EXCEPT ![i[1]] = 0]

\* A task that ends while a flush is due already is not reported.
CountedDropsDirty(l, tasks) ==
    LET left == [t \in Tasks |-> IF t \in tasks THEN lease[l].pending[t] - 1 ELSE lease[l].pending[t]]
        ends == {t \in tasks : left[t] = 0}
    IN  IF \A t \in Tasks : left[t] = 0
        THEN [lease[l] EXCEPT !.status = "done", !.pending = left, !.dirty = {}, !.timer = FALSE,
                              !.told = @ \cup lease[l].dirty]
        ELSE [lease[l] EXCEPT !.pending = left, !.dirty = @ \cup ends, !.timer = @ \/ ends # {}]

\* Nothing is scheduled when a load ends.
RescheduledNever == scheduled

---------------------------------------------------------------------------
\* The slot in the map after a subscription to k.
Target(k) ==
    IF jobs[k] # 0 /\ ~job[<<k, jobs[k]>>].aborted
    THEN jobs[k]
    ELSE CHOOSE n \in Slots : job[<<k, n>>] = NoJob

\* release: the jobs nobody wants any more are aborted; one that is not loading
\* leaves the map.
Abandon(L) ==
    LET owners(i) == {o \in job[i].owners : o[1] \notin L}
        lost(i) == job[i].owners # {} /\ owners(i) = {}
    IN  /\ job' = [i \in JobIds |->
                     IF lost(i) /\ ~job[i].active THEN NoJob
                     ELSE [job[i] EXCEPT !.owners = owners(i), !.aborted = @ \/ lost(i)]]
        /\ jobs' = [k \in Keys |->
                     IF jobs[k] # 0 /\ lost(<<k, jobs[k]>>) /\ ~job[<<k, jobs[k]>>].active
                     THEN 0 ELSE jobs[k]]

\* subscribe: members that are not loaded become pending, each at a job of its
\* own or a shared one; the first frame has the state of every task.
Subscribe(l, members) ==
    LET wanted == {m \in members : m[2] \notin loaded}
        keys == {m[2] : m \in wanted}
        pending == [t \in Tasks |-> Cardinality({k \in keys : <<t, k>> \in wanted})]
    IN  /\ lease[l].status = "new" /\ ~closed
        /\ Cardinality(Open) < MaxLeases
        /\ Cardinality(keys \cup {k \in Keys : jobs[k] # 0}) <= MaxJobs
        /\ lease' = [lease EXCEPT ![l] =
               [@ EXCEPT !.status = IF wanted = {} THEN "done" ELSE "open", !.pending = pending,
                         !.told = {t \in Tasks : pending[t] = 0}]]
        /\ jobs' = [k \in Keys |-> IF k \in keys THEN Target(k) ELSE jobs[k]]
        /\ job' = [i \in JobIds |->
               IF i[1] \in keys /\ i[2] = Target(i[1])
               THEN [job[i] EXCEPT !.owners = @ \cup ({l} \X {t \in Tasks : <<t, i[1]>> \in wanted})]
               ELSE job[i]]
        /\ scheduled' = (scheduled \/ wanted # {})
        /\ UNCHANGED <<loaded, closed>>

\* The response closes, or a frame throws.
Leave(l) ==
    /\ l \in Open
    /\ lease' = [lease EXCEPT ![l] = [Unsubscribed EXCEPT !.status = "left"]]
    /\ Abandon({l})
    /\ UNCHANGED <<loaded, scheduled, closed>>

\* cancel, at the deadline
Cancel(l) ==
    /\ l \in Open
    /\ lease' = [lease EXCEPT ![l] = [Unsubscribed EXCEPT !.status = "cancelled"]]
    /\ Abandon({l})
    /\ UNCHANGED <<loaded, scheduled, closed>>

\* flush, when its timer fires
Flush(l) ==
    /\ l \in Open /\ lease[l].timer
    /\ lease' = [lease EXCEPT ![l] =
           [lease[l] EXCEPT !.timer = FALSE, !.told = @ \cup lease[l].dirty, !.dirty = {}]]
    /\ UNCHANGED <<job, jobs, loaded, scheduled, closed>>

\* schedule's callback: jobs are admitted as long as there is room.
Schedule ==
    /\ scheduled /\ scheduled' = FALSE
    /\ LET ready == {i \in JobIds : jobs[i[1]] = i[2] /\ ~job[i].active
                                    /\ job[i].owners # {} /\ ~job[i].aborted}
           room == MaxLoads - Cardinality(Running)
       IN  IF closed THEN job' = job
           ELSE \E some \in SUBSET ready :
                   /\ Cardinality(some) <= room
                   /\ some = ready \/ Cardinality(some) = room
                   /\ job' = [i \in JobIds |-> IF i \in some THEN [job[i] EXCEPT !.active = TRUE]
                                               ELSE job[i]]
    /\ UNCHANGED <<lease, jobs, loaded, closed>>

\* settle, for one page: its tasks are counted, and the page gets its last frame
\* when all of them have ended (flush, release).
Counted(l, tasks) ==
    LET left == [t \in Tasks |-> IF t \in tasks THEN lease[l].pending[t] - 1 ELSE lease[l].pending[t]]
        ends == {t \in tasks : left[t] = 0}
    IN  IF \A t \in Tasks : left[t] = 0
        THEN [lease[l] EXCEPT !.status = "done", !.pending = left, !.dirty = {}, !.timer = FALSE,
                              !.told = @ \cup lease[l].dirty \cup ends]
        ELSE [lease[l] EXCEPT !.pending = left, !.dirty = @ \cup ends,
                              !.timer = @ \/ lease[l].dirty \cup ends # {}]

\* The finally of a load: only the job itself leaves the map.
AfterLoad(i) == IF jobs[i[1]] = i[2] THEN [jobs EXCEPT ![i[1]] = 0] ELSE jobs
Rescheduled == scheduled \/ ~closed

\* A load ends, with the details in the database or not; a job that is aborted
\* may be cancelled instead, and nobody is told.
LoadEnds(i, ok) ==
    LET tasks(l) == {t \in Tasks : <<l, t>> \in job[i].owners}
    IN  /\ job[i].active
        /\ lease' = [l \in Leases |-> IF l \in Open /\ tasks(l) # {} THEN Counted(l, tasks(l)) ELSE lease[l]]
        /\ loaded' = IF ok THEN loaded \cup {i[1]} ELSE loaded
        /\ job' = [job EXCEPT ![i] = NoJob]
        /\ jobs' = AfterLoad(i)
        /\ scheduled' = Rescheduled
        /\ UNCHANGED closed

\* close, up to its await of the running loads
Close ==
    /\ ~closed /\ closed' = TRUE
    /\ lease' = [l \in Leases |-> IF l \in Open
                                  THEN [Unsubscribed EXCEPT !.status = "cancelled"]
                                  ELSE lease[l]]
    /\ Abandon(Open)
    /\ UNCHANGED <<loaded, scheduled>>

HydratorNext ==
    \/ \E l \in Leases :
          \/ \E members \in Members : Subscribe(l, members)
          \/ Leave(l) \/ Cancel(l) \/ Flush(l)
    \/ \E i \in JobIds, ok \in BOOLEAN : LoadEnds(i, ok)
    \/ Schedule \/ Close

HydratorSpec == HydratorInit /\ [][HydratorNext]_hydratorVars

\* Loads end and immediate callbacks run; deadlines are not relied upon.
HydratorFairSpec ==
    /\ HydratorSpec
    /\ \A i \in JobIds : WF_hydratorVars(\E ok \in BOOLEAN : LoadEnds(i, ok))
    /\ WF_hydratorVars(Schedule)

---------------------------------------------------------------------------
(* Properties *)

HydratorTypeOK ==
    /\ lease \in [Leases -> Lease] /\ job \in [JobIds -> Job]
    /\ jobs \in [Keys -> {0} \cup Slots] /\ loaded \subseteq Keys
    /\ scheduled \in BOOLEAN /\ closed \in BOOLEAN
    /\ IsFiniteSet(Open) /\ Cardinality(Open) <= MaxLeases /\ Cardinality(Running) <= MaxLoads
    /\ Cardinality({k \in Keys : jobs[k] # 0}) <= MaxJobs

\* Every page waits for exactly what it will get: what is pending of a task is
\* the number of its members with an unfinished job, and each of these jobs is
\* the one in the map, alive, and loading, queued behind the limit, or about to
\* be scheduled, also when the job that was abandoned for the same member is
\* still loading and ends before or after it.
PendingIsOwed ==
    /\ \A l \in Open, t \in Tasks :
          lease[l].pending[t] = Cardinality({i \in JobIds : <<l, t>> \in job[i].owners})
    /\ \A i \in JobIds : job[i].owners # {} =>
          /\ \A o \in job[i].owners : o[1] \in Open
          /\ jobs[i[1]] = i[2] /\ ~job[i].aborted
          /\ job[i].active \/ scheduled \/ Cardinality(Running) = MaxLoads

\* A job that nobody wants is kept only while it loads, so a free slot is left
\* for the next one; and a closed hydrator has no pages.
JobsAreWanted ==
    /\ \A i \in JobIds : job[i] # NoJob => job[i].active \/ job[i].owners # {}
    /\ closed => Open = {}

\* The end of a task that a page has not been sent is due to be.
EndsAreReported ==
    \A l \in Open, t \in Tasks :
        lease[l].pending[t] = 0 => t \in lease[l].told \/ t \in lease[l].dirty

\* PendingIsOwed with what it rests on.
HydratorInv == HydratorTypeOK /\ PendingIsOwed /\ JobsAreWanted /\ EndsAreReported

\* The last frame is complete: a page that is told it is done has been sent the
\* final state of each of its tasks, in this frame or one before.
DoneIsComplete ==
    \A l \in Leases : lease[l].status = "done" => lease[l].told = Tasks

\* Every page ends even if no deadline ever fires, whoever leaves or joins
\* meanwhile: the work it waits for is never left behind.
PageEnds == \A l \in Leases : lease[l].status = "open" ~> lease[l].status # "open"
===========================================================================
