------------------------- MODULE CaptureProcessor -------------------------
(***************************************************************************)
(* CaptureProcessor (server/proxy/capture-processor.ts) and the job and    *)
(* worker leases it takes from CaptureResources (capture-resources.ts).    *)
(* Each proxy of the process has a processor of its own, with one worker   *)
(* thread; all of them share the pool, and the processor of a stopped      *)
(* proxy may still be terminating its worker when the next one starts.     *)
(*                                                                         *)
(* A job's bytes stay in a thread until that thread is gone: leases of a   *)
(* failed batch are released at once, but for the job a worker still holds. *)
(***************************************************************************)
EXTENDS Integers, SequencesExt

CONSTANTS
    Processors, Jobs, NoJob,
    Bytes,                            \* per job: what enqueue computes
    MaxJobs, MaxBytes,                \* limits of one processor
    PoolJobs, PoolBytes, PoolWorkers  \* limits of CaptureResources

ASSUME ProcessorAssumption ==
    /\ NoJob \notin Jobs /\ Bytes \in [Jobs -> Nat]
    /\ {MaxJobs, MaxBytes, PoolJobs, PoolBytes, PoolWorkers} \subseteq Nat \ {0}

VARIABLES
    proc,    \* per processor, see Processor
    pool,    \* the gauges of CaptureResources
    leased,  \* jobs whose lease is not released (the closures made by once)
    answer   \* per job: "new", "pending", then how its promise settled

poolVars == <<proc, pool, leased, answer>>

\* jobs (in insertion order), active and bytes as in the code; worker: a thread
\* that is not terminating; dying: terminate() was called and has not answered,
\* and doomed is the job that thread was given.
Processor == [jobs   : Seq(Jobs),
              active : Jobs \cup {NoJob},
              bytes  : Nat,
              worker : BOOLEAN,
              dying  : BOOLEAN,
              doomed : Jobs \cup {NoJob},
              closed : BOOLEAN]

Failure == {"closed", "queue_full", "timeout", "worker_error"}

PoolInit ==
    /\ proc = [p \in Processors |-> [jobs |-> <<>>, active |-> NoJob, bytes |-> 0, worker |-> FALSE,
                                     dying |-> FALSE, doomed |-> NoJob, closed |-> FALSE]]
    /\ pool = [jobs |-> 0, bytes |-> 0, workers |-> 0]
    /\ leased = {} /\ answer = [j \in Jobs |-> "new"]

\* A job deleted from the map: the others keep their order.
Without(q, j) == RemoveAt(q, CHOOSE n \in DOMAIN q : q[n] = j)

---------------------------------------------------------------------------
(* A transition of the event loop calls several methods in a row; each is  *)
(* an operator on the state [p, pool, leased, answer] of one processor.    *)

State(p) == [p |-> proc[p], pool |-> pool, leased |-> leased, answer |-> answer]

Becomes(p, s) ==
    /\ proc' = [proc EXCEPT ![p] = s.p]
    /\ pool' = s.pool /\ leased' = s.leased /\ answer' = s.answer

\* The bytes of a set of jobs, counted one by one.
BytesOf(jobs) == Cardinality(UNION {{j} \X (1..Bytes[j]) : j \in jobs})

\* The closures of acquireJob: what was released already counts for nothing.
Release(s, jobs) ==
    LET freed == jobs \cap s.leased
    IN  [s EXCEPT !.leased = @ \ freed,
                  !.pool.jobs = @ - Cardinality(freed),
                  !.pool.bytes = @ - BytesOf(freed)]

Settle(s, jobs, how) ==
    [s EXCEPT !.answer = [j \in Jobs |-> IF j \in jobs THEN how ELSE @[j]]]

\* What failAll leaves of a processor: nothing queued, and its worker, if there
\* is one, being terminated with the job it was given.
Failed(x) == [x EXCEPT !.jobs = <<>>, !.active = NoJob, !.bytes = 0, !.worker = FALSE,
                       !.dying = @ \/ x.worker,
                       !.doomed = IF x.worker THEN x.active ELSE @]

(* A faulty variant: the leases of all jobs are released at once.         *)
FailAllFreesEverything(s, how) ==
    LET jobs == Range(s.p.jobs)
    IN  [Settle(Release(s, jobs), jobs, how) EXCEPT !.p = Failed(@)]

\* failAll: a terminated worker keeps its lease and that of its job until it is
\* gone.
FailAll(s, how) ==
    LET jobs == Range(s.p.jobs)
        kept == IF s.p.worker THEN {s.p.active} ELSE {}
    IN  [Settle(Release(s, jobs \ kept), jobs, how) EXCEPT !.p = Failed(@)]

\* pump: the states it may leave behind.  A thread may fail to be created, and
\* posting the job to it may throw.
Pump(s) ==
    IF s.p.closed \/ s.p.active # NoJob \/ s.p.jobs = <<>> \/ s.p.dying
    THEN {s}
    ELSE IF ~s.p.worker /\ s.pool.workers >= PoolWorkers
    THEN {FailAll(s, "queue_full")}
    ELSE LET given == [s EXCEPT !.p.worker = TRUE, !.p.active = Head(s.p.jobs),
                                !.pool.workers = IF s.p.worker THEN @ ELSE @ + 1]
         IN  {given, FailAll(given, "worker_error")}
             \cup (IF s.p.worker THEN {} ELSE {FailAll(s, "worker_error")})

---------------------------------------------------------------------------
(* Faulty variants of the actions below, one plausible mistake each; none  *)
(* is part of PoolNext.                                                    *)

FinishedForgetsPump(p) ==
    /\ proc[p].dying
    /\ LET s == State(p)
       IN  Becomes(p, [Release(s, {s.p.doomed}) EXCEPT
                          !.p.dying = FALSE, !.p.doomed = NoJob, !.pool.workers = @ - 1])

TimeoutWhileActive(p) ==
    /\ proc[p].active # NoJob
    /\ Becomes(p, FailAll(State(p), "timeout"))

---------------------------------------------------------------------------
\* enqueue: the limits of the processor, then those of the pool.  A copy of the
\* input that throws gives the lease back.
Fits(p, j) ==
    /\ Len(proc[p].jobs) < MaxJobs /\ proc[p].bytes + Bytes[j] <= MaxBytes
    /\ pool.jobs < PoolJobs /\ pool.bytes + Bytes[j] <= PoolBytes

Submit(p, j) ==
    /\ answer[j] = "new" /\ ~proc[p].closed /\ Fits(p, j)
    /\ LET s == [State(p) EXCEPT !.p.jobs = Append(@, j), !.p.bytes = @ + Bytes[j],
                                 !.pool.jobs = @ + 1, !.pool.bytes = @ + Bytes[j],
                                 !.leased = @ \cup {j}, !.answer[j] = "pending"]
       IN  \E t \in Pump(s) : Becomes(p, t)

Refuse(p, j) ==
    /\ answer[j] = "new"
    /\ \E how \in Failure :
          /\ how = "closed" <=> proc[p].closed
          /\ how = "queue_full" <=> ~proc[p].closed /\ ~Fits(p, j)
          /\ how # "timeout"
          /\ answer' = [answer EXCEPT ![j] = how]
    /\ UNCHANGED <<proc, pool, leased>>

\* The worker's answer to its job: a projection, or an error of the parser.
\* Answers of a terminated worker are ignored.
Message(p, how) ==
    /\ proc[p].worker /\ proc[p].active # NoJob
    /\ LET j == proc[p].active
           s == Release(State(p), {j})
           t == [Settle(s, {j}, how) EXCEPT
                    !.p.jobs = Without(@, j),
                    !.p.bytes = @ - Bytes[j], !.p.active = NoJob]
       IN  \E u \in Pump(t) : Becomes(p, u)

\* 'error' or 'exit' of the current worker, idle or not.
WorkerDies(p) ==
    /\ proc[p].worker
    /\ Becomes(p, FailAll(State(p), "worker_error"))

\* The timer of any job fails all of them.
Timeout(p) ==
    /\ proc[p].jobs # <<>>
    /\ Becomes(p, FailAll(State(p), "timeout"))

\* terminate() settled, either way.
Finished(p) ==
    /\ proc[p].dying
    /\ LET s == State(p)
           t == [Release(s, {s.p.doomed}) EXCEPT
                    !.p.dying = FALSE, !.p.doomed = NoJob, !.pool.workers = @ - 1]
       IN  \E u \in Pump(t) : Becomes(p, u)

\* close, up to its await of the terminating workers.
Close(p) ==
    /\ ~proc[p].closed
    /\ LET s == [State(p) EXCEPT !.p.closed = TRUE]
       IN  Becomes(p, FailAll(s, "closed"))

PoolNext ==
    \E p \in Processors :
        \/ \E j \in Jobs : Submit(p, j) \/ Refuse(p, j)
        \/ \E how \in {"ok", "worker_error"} : Message(p, how)
        \/ WorkerDies(p) \/ Timeout(p) \/ Finished(p) \/ Close(p)

PoolSpec == PoolInit /\ [][PoolNext]_poolVars

\* Timers fire.  A worker may hang for ever, and terminate() may never answer.
PoolFairSpec == PoolSpec /\ \A p \in Processors : WF_poolVars(Timeout(p))

---------------------------------------------------------------------------
(* Properties *)

Threads == {p \in Processors : proc[p].worker} \cup {p \in Processors : proc[p].dying}

PoolTypeOK ==
    /\ proc \in [Processors -> Processor]
    /\ pool \in [jobs : Nat, bytes : Nat, workers : Nat]
    /\ leased \subseteq Jobs
    /\ answer \in [Jobs -> {"new", "pending", "ok"} \cup Failure]

\* What a processor keeps in memory: the jobs it was given and has not answered,
\* and the job of the worker it is terminating.
Held(x) == Range(x.jobs) \cup ({x.doomed} \ {NoJob})

\* A processor within its own limits: it counts the bytes of its jobs, once each,
\* has at most one thread, and that thread works on the first of them.
ProcessorIsSound(x) ==
    /\ ~(x.worker /\ x.dying) /\ (x.doomed # NoJob => x.dying)
    /\ IsInjective(x.jobs) /\ x.doomed \notin Range(x.jobs) /\ Len(x.jobs) <= MaxJobs
    /\ x.bytes = BytesOf(Range(x.jobs)) /\ x.bytes <= MaxBytes
    /\ x.active # NoJob => x.worker /\ x.jobs # <<>> /\ x.active = Head(x.jobs)

\* The pool charges exactly what is in memory: the queued jobs, and the job of a
\* worker that is still being terminated, its bytes included; so failures and
\* timeouts neither leak the shared limits nor exceed them.  A job is held once.
PoolIsExact ==
    /\ \A p \in Processors : ProcessorIsSound(proc[p])
    /\ \A p, q \in Processors : p # q => Held(proc[p]) \cap Held(proc[q]) = {}
    /\ leased = UNION {Held(proc[p]) : p \in Processors} /\ IsFiniteSet(leased)
    /\ \A j \in leased : answer[j] # "new"
    /\ pool.jobs = Cardinality(leased) /\ pool.jobs <= PoolJobs
    /\ pool.bytes = BytesOf(leased) /\ pool.bytes <= PoolBytes
    /\ IsFiniteSet(Threads)
    /\ pool.workers = Cardinality(Threads) /\ pool.workers <= PoolWorkers

\* PoolIsExact with the types of what it relates.
PoolInv == PoolTypeOK /\ PoolIsExact

\* No job waits for nothing: an open processor with jobs has given its first one
\* to a worker, unless it awaits the end of the worker before (every path that
\* frees the worker pumps).  What a processor holds is unanswered, and no other.
NothingStranded ==
    /\ \A p \in Processors : proc[p].jobs # <<>> =>
          /\ ~proc[p].closed
          /\ ~proc[p].dying => proc[p].worker /\ proc[p].active = Head(proc[p].jobs)
    /\ \A j \in Jobs : answer[j] = "pending" <=> \E p \in Processors : j \in Range(proc[p].jobs)

\* Every submitted job is answered, even if the worker hangs, or the end of the
\* one before it never comes (finalizeCapture awaits this answer).
SubmittedSettles == \A j \in Jobs : answer[j] = "pending" ~> answer[j] # "pending"
===========================================================================
