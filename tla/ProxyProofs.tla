---------------------------- MODULE ProxyProofs ----------------------------
(***************************************************************************)
(* The proxy of the server, for any constants.  First ProxyRuntime: its    *)
(* safety, and that it implements MonitorLease.  Then CaptureProcessor: a  *)
(* state of the pool is looked at from one processor (Sound), every        *)
(* operator of the component keeps that view, and the view, put back,      *)
(* keeps the invariant of all processors (LocalView, Back).                *)
(***************************************************************************)
EXTENDS ProxyRuntime, CaptureProcessor, FiniteSetTheorems, TLAPS


\* The runtime starts inside the invariant.
LEMMA InitInv == Init => RuntimeInv
  BY RunsAssumption DEF Init, RuntimeInv, TypeOK, PhaseShape, RunShape, Quiet, InFlight, Alive

\* Every step preserves the invariant: one step per action, then per part.
LEMMA NextKeeps == ASSUME RuntimeInv, [Next]_vars PROVE RuntimeInv'

  <1>1. ASSUME NEW r \in Runs, Start(r) PROVE RuntimeInv'
    <2>1. TypeOK'
      BY <1>1, RunsAssumption DEF RuntimeInv, TypeOK, Start
    <2>2. PhaseShape'
      BY <1>1, RunsAssumption DEF RuntimeInv, TypeOK, PhaseShape, RunShape, Quiet, InFlight, Alive, Start
    <2>3. RunShape'
      BY <1>1, RunsAssumption DEF RuntimeInv, TypeOK, PhaseShape, RunShape, Quiet, InFlight, Alive, Start
    <2> QED
      BY <2>1, <2>2, <2>3 DEF RuntimeInv
  <1>2. ASSUME NEW r \in Runs, StoreOpened(r) PROVE RuntimeInv'
    <2>1. TypeOK'
      BY <1>2, RunsAssumption DEF RuntimeInv, TypeOK, InFlight, StoreOpened
    <2>2. PhaseShape'
      BY <1>2, RunsAssumption DEF RuntimeInv, TypeOK, PhaseShape, RunShape, Quiet, InFlight, Alive, StoreOpened
    <2>3. RunShape'
      BY <1>2, RunsAssumption DEF RuntimeInv, TypeOK, PhaseShape, RunShape, Quiet, InFlight, Alive, StoreOpened
    <2> QED
      BY <2>1, <2>2, <2>3 DEF RuntimeInv
  <1>3. ASSUME NEW r \in Runs, BootFails(r) PROVE RuntimeInv'
    <2>1. TypeOK'
      BY <1>3, RunsAssumption DEF RuntimeInv, TypeOK, InFlight, BootFails
    <2>2. PhaseShape'
      BY <1>3, RunsAssumption DEF RuntimeInv, TypeOK, PhaseShape, RunShape, Quiet, InFlight, Alive, BootFails
    <2>3. RunShape'
      BY <1>3, RunsAssumption DEF RuntimeInv, TypeOK, PhaseShape, RunShape, Quiet, InFlight, Alive, BootFails
    <2> QED
      BY <2>1, <2>2, <2>3 DEF RuntimeInv
  <1>4. ASSUME NEW r \in Runs, ProxyCreated(r) PROVE RuntimeInv'
    <2>1. TypeOK'
      BY <1>4, RunsAssumption DEF RuntimeInv, TypeOK, InFlight, ProxyCreated
    <2>2. PhaseShape'
      BY <1>4, RunsAssumption DEF RuntimeInv, TypeOK, PhaseShape, RunShape, Quiet, InFlight, Alive, ProxyCreated
    <2>3. RunShape'
      BY <1>4, RunsAssumption DEF RuntimeInv, TypeOK, PhaseShape, RunShape, Quiet, InFlight, Alive, ProxyCreated
    <2> QED
      BY <2>1, <2>2, <2>3 DEF RuntimeInv
  <1>5. CASE Stop
    <2>1. TypeOK'
      BY <1>5, RunsAssumption DEF RuntimeInv, TypeOK, Stop
    <2>2. PhaseShape'
      BY <1>5, RunsAssumption DEF RuntimeInv, TypeOK, PhaseShape, RunShape, Quiet, InFlight, Alive, Stop
    <2>3. RunShape'
      BY <1>5, RunsAssumption DEF RuntimeInv, TypeOK, PhaseShape, RunShape, Quiet, InFlight, Alive, Stop
    <2> QED
      BY <2>1, <2>2, <2>3 DEF RuntimeInv
  <1>6. CASE CleanupDrains
    <2>1. TypeOK'
      BY <1>6, RunsAssumption DEF RuntimeInv, TypeOK, CleanupDrains
    <2>2. PhaseShape'
      BY <1>6, RunsAssumption DEF RuntimeInv, TypeOK, PhaseShape, RunShape, Quiet, InFlight, Alive, CleanupDrains
    <2>3. RunShape'
      BY <1>6, RunsAssumption DEF RuntimeInv, TypeOK, PhaseShape, RunShape, Quiet, InFlight, Alive, CleanupDrains
    <2> QED
      BY <2>1, <2>2, <2>3 DEF RuntimeInv
  <1>7. CASE CleanupDone
    <2>1. TypeOK'
      BY <1>7, RunsAssumption DEF RuntimeInv, TypeOK, CleanupDone
    <2>2. PhaseShape'
      BY <1>7, RunsAssumption DEF RuntimeInv, TypeOK, PhaseShape, RunShape, Quiet, InFlight, Alive, CleanupDone
    <2>3. RunShape'
      BY <1>7, RunsAssumption DEF RuntimeInv, TypeOK, PhaseShape, RunShape, Quiet, InFlight, Alive, CleanupDone
    <2> QED
      BY <2>1, <2>2, <2>3 DEF RuntimeInv
  <1>8. CASE CleanupFails
    <2>1. TypeOK'
      BY <1>8, RunsAssumption DEF RuntimeInv, TypeOK, CleanupFails
    <2>2. PhaseShape'
      BY <1>8, RunsAssumption DEF RuntimeInv, TypeOK, PhaseShape, RunShape, Quiet, InFlight, Alive, CleanupFails
    <2>3. RunShape'
      BY <1>8, RunsAssumption DEF RuntimeInv, TypeOK, PhaseShape, RunShape, Quiet, InFlight, Alive, CleanupFails
    <2> QED
      BY <2>1, <2>2, <2>3 DEF RuntimeInv
  <1>9. CASE StopTimeout
    <2>1. TypeOK'
      BY <1>9, RunsAssumption DEF RuntimeInv, TypeOK, StopTimeout
    <2>2. PhaseShape'
      BY <1>9, RunsAssumption DEF RuntimeInv, TypeOK, PhaseShape, RunShape, Quiet, InFlight, Alive, StopTimeout
    <2>3. RunShape'
      BY <1>9, RunsAssumption DEF RuntimeInv, TypeOK, PhaseShape, RunShape, Quiet, InFlight, Alive, StopTimeout
    <2> QED
      BY <2>1, <2>2, <2>3 DEF RuntimeInv
  <1>10. CASE BeginMaintenance
    <2>1. TypeOK'
      BY <1>10, RunsAssumption DEF RuntimeInv, TypeOK, BeginMaintenance
    <2>2. PhaseShape'
      BY <1>10, RunsAssumption DEF RuntimeInv, TypeOK, PhaseShape, RunShape, Quiet, InFlight, Alive, BeginMaintenance
    <2>3. RunShape'
      BY <1>10, RunsAssumption DEF RuntimeInv, TypeOK, PhaseShape, RunShape, Quiet, InFlight, Alive, BeginMaintenance
    <2> QED
      BY <2>1, <2>2, <2>3 DEF RuntimeInv
  <1>11. CASE EndMaintenance
    <2>1. TypeOK'
      BY <1>11, RunsAssumption DEF RuntimeInv, TypeOK, EndMaintenance
    <2>2. PhaseShape'
      BY <1>11, RunsAssumption DEF RuntimeInv, TypeOK, PhaseShape, RunShape, Quiet, InFlight, Alive, EndMaintenance
    <2>3. RunShape'
      BY <1>11, RunsAssumption DEF RuntimeInv, TypeOK, PhaseShape, RunShape, Quiet, InFlight, Alive, EndMaintenance
    <2> QED
      BY <2>1, <2>2, <2>3 DEF RuntimeInv
  <1>12. CASE UNCHANGED vars
    BY <1>12 DEF vars, RuntimeInv, TypeOK, PhaseShape, RunShape, Quiet, InFlight, Alive
  <1> QED
    BY <1>1, <1>2, <1>3, <1>4, <1>5, <1>6, <1>7, <1>8, <1>9, <1>10, <1>11, <1>12 DEF Next, Boot, Cleaning

\* RuntimeInv holds in every reachable state.
THEOREM Invariance == Spec => []RuntimeInv
  BY InitInv, NextKeeps, PTL DEF Spec

\* Every variable keeps its type.
THEOREM TypeCorrect == Spec => []TypeOK
  <1>1. RuntimeInv => TypeOK
    BY DEF RuntimeInv
  <1> QED
    BY Invariance, <1>1, PTL

\* "running" and "idle" tell the truth about the listener.
THEOREM PhaseTrue == Spec => []PhaseIsTrue
  <1>1. RuntimeInv => PhaseIsTrue
    BY RunsAssumption DEF RuntimeInv, PhaseShape, RunShape, Quiet, PhaseIsTrue
  <1> QED
    BY Invariance, <1>1, PTL

\* No listener escapes the reach of a Stop.
THEOREM ListenerReachable == Spec => []NoOrphan
  <1>1. RuntimeInv => NoOrphan
    BY DEF RuntimeInv, RunShape, NoOrphan
  <1> QED
    BY Invariance, <1>1, PTL

\* Who holds the capture files, and which runs are over, as MonitorLease sees it.
Holders == {r \in Runs : InFlight(r) \/ Alive(r)} \cup (IF maintenance THEN {Maintenance} ELSE {})
Spent   == {r \in Runs : boot[r] = "over" /\ ~Alive(r)}

\* A start takes the lease, for a run that never held it.
LEMMA StartTakes == ASSUME RuntimeInv, NEW r \in Runs, Start(r) PROVE Lease!Next
  <1>1. Holders = {} /\ r \notin Spent
    BY RunsAssumption DEF RuntimeInv, TypeOK, PhaseShape, RunShape, Quiet, Start, Holders, Spent
  <1>2. Holders' = {r} /\ Spent' = Spent
    <2>1. \A x \in Runs : ~InFlight(x) /\ ~Alive(x)
      BY <1>1 DEF Holders
    <2>2. boot' = [boot EXCEPT ![r] = "storing"] /\ boot \in [Runs -> {"none", "storing", "creating", "over"}]
          /\ transport' = transport /\ boot[r] = "none" /\ ~maintenance'
      BY DEF RuntimeInv, TypeOK, Start
    <2> QED
      BY <2>1, <2>2 DEF Holders, Spent, InFlight, Alive
  <1> QED
    BY <1>1, <1>2 DEF Lease!Next, Lease!Take, Holders, Spent

\* A boot that ends without a listener drops the lease.
LEMMA BootDrops ==
  ASSUME RuntimeInv, NEW r \in Runs, InFlight(r), boot' = [boot EXCEPT ![r] = "over"],
         UNCHANGED <<transport, maintenance>>
  PROVE  Lease!Next
  <1>1. \A x \in Runs : (InFlight(x) => x = r) /\ ~Alive(x)
    BY RunsAssumption DEF RuntimeInv, RunShape
  <1>2. ~maintenance
    BY DEF RuntimeInv, RunShape, Quiet
  <1>3. boot \in [Runs -> {"none", "storing", "creating", "over"}] /\ r # Maintenance
    BY RunsAssumption DEF RuntimeInv, TypeOK
  <1>4. Holders = {r} /\ Holders' = {}
    BY <1>1, <1>2, <1>3 DEF Holders, InFlight, Alive
  <1>5. Spent' = Spent \cup ({r} \ {Maintenance})
    BY <1>1, <1>3 DEF Spent, InFlight, Alive
  <1> QED
    BY <1>4, <1>5 DEF Lease!Next, Lease!Drop, Holders, Spent

\* A completed drain drops the lease.
LEMMA DrainDrops == ASSUME RuntimeInv, CleanupDone PROVE Lease!Next
  <1>1. /\ proxy \in Runs /\ proxy # Maintenance /\ ~maintenance /\ boot[proxy] = "over"
        /\ \A x \in Runs : ~InFlight(x) /\ (Alive(x) <=> x = proxy)
    BY RunsAssumption DEF RuntimeInv, TypeOK, RunShape, Quiet, CleanupDone, Alive
  <1>2. /\ transport' = [transport EXCEPT ![proxy] = "closed"] /\ UNCHANGED <<boot, maintenance>>
        /\ transport \in [Runs -> {"none", "listening", "draining", "closed"}]
    BY DEF RuntimeInv, TypeOK, CleanupDone
  <1>3. Holders = {proxy} /\ Holders' = {}
    BY <1>1, <1>2 DEF Holders, InFlight, Alive
  <1>4. Spent' = Spent \cup ({proxy} \ {Maintenance})
    BY <1>1, <1>2 DEF Spent, Alive
  <1> QED
    BY <1>1, <1>3, <1>4 DEF Lease!Next, Lease!Drop, Holders, Spent

\* Maintenance takes and drops the lease.
LEMMA MaintenanceLeases ==
  ASSUME RuntimeInv, BeginMaintenance \/ EndMaintenance PROVE Lease!Next
  <1>1. \A x \in Runs : ~InFlight(x) /\ ~Alive(x)
    BY RunsAssumption DEF RuntimeInv, TypeOK, PhaseShape, RunShape, Quiet, BeginMaintenance, EndMaintenance
  <1>2. UNCHANGED <<boot, transport>> /\ maintenance' = ~maintenance /\ maintenance \in BOOLEAN
    BY DEF RuntimeInv, TypeOK, BeginMaintenance, EndMaintenance
  <1>3. Spent' = Spent /\ Maintenance \notin Spent
    BY <1>2, RunsAssumption DEF Spent, Alive
  <1>4. IF maintenance THEN Holders = {Maintenance} /\ Holders' = {}
                       ELSE Holders = {} /\ Holders' = {Maintenance}
    BY <1>1, <1>2 DEF Holders, InFlight, Alive
  <1> QED
    BY <1>3, <1>4 DEF Lease!Next, Lease!Take, Lease!Drop, Holders, Spent

\* The other steps leave the lease alone.
LEMMA LeaseFrame ==
  ASSUME RuntimeInv,
         \/ Stop \/ CleanupDrains \/ CleanupFails \/ StopTimeout \/ UNCHANGED vars
         \/ \E r \in Runs : ProxyCreated(r) \/ (StoreOpened(r) /\ current = r)
  PROVE  UNCHANGED <<Holders, Spent>>
  <1>1. CASE UNCHANGED <<boot, transport, maintenance>>
    BY <1>1 DEF Holders, Spent, InFlight, Alive
  <1>2. CASE CleanupDrains
    <2>1. CASE proxy = NoRun
      BY <1>1, <1>2, <2>1 DEF CleanupDrains
    <2>2. CASE proxy # NoRun
      <3>1. /\ proxy \in Runs /\ Alive(proxy) /\ transport' = [transport EXCEPT ![proxy] = "draining"]
            /\ UNCHANGED <<boot, maintenance>>
            /\ transport \in [Runs -> {"none", "listening", "draining", "closed"}]
        BY <1>2, <2>2 DEF RuntimeInv, TypeOK, RunShape, CleanupDrains
      <3>2. \A x \in Runs : Alive(x)' <=> Alive(x)
        BY <3>1 DEF Alive
      <3> QED
        BY <3>1, <3>2 DEF Holders, Spent, InFlight
    <2> QED
      BY <2>1, <2>2
  <1>3. ASSUME NEW r \in Runs, ProxyCreated(r) PROVE UNCHANGED <<Holders, Spent>>
    <2>1. /\ boot' = [boot EXCEPT ![r] = "over"] /\ transport' = [transport EXCEPT ![r] = "listening"]
          /\ boot[r] = "creating" /\ maintenance' = maintenance
          /\ boot \in [Runs -> {"none", "storing", "creating", "over"}]
          /\ transport \in [Runs -> {"none", "listening", "draining", "closed"}]
      BY <1>3 DEF RuntimeInv, TypeOK, ProxyCreated
    <2>2. \A x \in Runs : (InFlight(x) \/ Alive(x))' <=> InFlight(x) \/ Alive(x)
      BY <2>1 DEF InFlight, Alive
    <2>3. \A x \in Runs : (boot[x] = "over" /\ ~Alive(x))' <=> boot[x] = "over" /\ ~Alive(x)
      BY <2>1 DEF Alive
    <2> QED
      BY <2>1, <2>2, <2>3 DEF Holders, Spent
  <1>4. ASSUME NEW r \in Runs, StoreOpened(r), current = r PROVE UNCHANGED <<Holders, Spent>>
    <2>1. /\ boot' = [boot EXCEPT ![r] = "creating"] /\ boot[r] = "storing"
          /\ UNCHANGED <<transport, maintenance>>
          /\ boot \in [Runs -> {"none", "storing", "creating", "over"}]
      BY <1>4 DEF RuntimeInv, TypeOK, StoreOpened
    <2> QED
      BY <2>1 DEF Holders, Spent, InFlight, Alive
  <1> QED
    BY <1>1, <1>2, <1>3, <1>4 DEF Stop, CleanupFails, StopTimeout, vars

\* ProxyRuntime implements MonitorLease: the capture files have one holder at a
\* time, and every run holds them at most once.
THEOREM ImplementsLease == Spec => LeaseSpec
  <1>1. Init => Lease!Init
    BY DEF Init, Lease!Init, InFlight, Alive
  <1>2. ASSUME RuntimeInv, [Next]_vars PROVE Lease!Next \/ UNCHANGED <<Holders, Spent>>
    <2>1. ASSUME NEW r \in Runs, StoreOpened(r), current # r PROVE Lease!Next
      BY <1>2, <2>1, BootDrops DEF StoreOpened, InFlight
    <2>2. ASSUME NEW r \in Runs, BootFails(r) PROVE Lease!Next
      BY <1>2, <2>2, BootDrops DEF BootFails
    <2> QED
      BY <1>2, <2>1, <2>2, StartTakes, DrainDrops, MaintenanceLeases, LeaseFrame
         DEF Next, Boot, Cleaning
  <1>3. RuntimeInv /\ [Next]_vars => [Lease!Next]_<<
            {r \in Runs : InFlight(r) \/ Alive(r)} \cup (IF maintenance THEN {Maintenance} ELSE {}),
            {r \in Runs : boot[r] = "over" /\ ~Alive(r)}>>
    BY <1>2 DEF Holders, Spent
  <1> QED
    BY Invariance, <1>1, <1>3, PTL DEF LeaseSpec, Lease!Spec, Spec

---------------------------------------------------------------------------
(* What the pool counts: jobs and their bytes.                             *)

\* The elements of a part and of the rest add up.
LEMMA CountAdds ==
  ASSUME NEW S, IsFiniteSet(S), NEW R \in SUBSET S
  PROVE  /\ Cardinality(S) = Cardinality(R) + Cardinality(S \ R)
         /\ Cardinality(R) \in Nat /\ Cardinality(S \ R) \in Nat /\ Cardinality(S) \in Nat
         /\ IsFiniteSet(R) /\ IsFiniteSet(S \ R)
  <1>1. IsFiniteSet(R) /\ IsFiniteSet(S \ R) /\ S \cap R = R
        /\ Cardinality(S \ R) = Cardinality(S) - Cardinality(S \cap R)
    BY FS_Subset, FS_Difference
  <1>2. Cardinality(R) \in Nat /\ Cardinality(S \ R) \in Nat /\ Cardinality(S) \in Nat
    BY <1>1, FS_CardinalityType
  <1> QED
    BY <1>1, <1>2

Units(S) == UNION {{j} \X (1..Bytes[j]) : j \in S}

\* A finite set of jobs has finitely many bytes, and what is outside is counted apart.
LEMMA UnitsFinite ==
  ASSUME NEW S \in SUBSET Jobs, IsFiniteSet(S)
  PROVE  IsFiniteSet(Units(S)) /\ BytesOf(S) = Cardinality(Units(S)) /\ BytesOf(S) \in Nat
  <1> DEFINE f == [j \in S |-> {j} \X (1..Bytes[j])]
             T == {{j} \X (1..Bytes[j]) : j \in S}
  <1>1. f \in Surjection(S, T)
    BY DEF Surjection
  <1>2. IsFiniteSet(T)
    BY <1>1, FS_Surjection
  <1>3. \A x \in T : IsFiniteSet(x)
    <2>1. ASSUME NEW j \in S PROVE IsFiniteSet({j} \X (1..Bytes[j]))
      <3>1. Bytes[j] \in Int /\ 1 \in Int
        BY ProcessorAssumption
      <3>2. IsFiniteSet({j})
        BY FS_Singleton
      <3>3. IsFiniteSet(1..Bytes[j])
        BY <3>1, FS_Interval
      <3> QED
        BY <3>2, <3>3, FS_Product
    <2> QED
      BY <2>1
  <1>4. IsFiniteSet(UNION T)
    BY <1>2, <1>3, FS_UNION
  <1> QED
    BY <1>4, FS_CardinalityType DEF Units, BytesOf

\* The bytes of disjoint sets add up.
LEMMA BytesAdd ==
  ASSUME NEW S \in SUBSET Jobs, IsFiniteSet(S), NEW R \in SUBSET S
  PROVE  BytesOf(S) = BytesOf(R) + BytesOf(S \ R) /\ BytesOf(R) <= BytesOf(S)
  <1>1. IsFiniteSet(R) /\ IsFiniteSet(S \ R)
    BY FS_Subset, FS_Difference
  <1>2. IsFiniteSet(Units(S))
    BY UnitsFinite
  <1>3. Units(R) \subseteq Units(S) /\ Units(S \ R) = Units(S) \ Units(R)
    BY DEF Units
  <1>4. Cardinality(Units(S)) = Cardinality(Units(R)) + Cardinality(Units(S \ R))
        /\ Cardinality(Units(R)) \in Nat /\ Cardinality(Units(S \ R)) \in Nat
    BY <1>2, <1>3, CountAdds
  <1> QED
    BY <1>1, <1>4, UnitsFinite

\* One job has the bytes enqueue computed for it, none has none.
LEMMA BytesOfOne ==
  BytesOf({}) = 0 /\ \A j \in Jobs : BytesOf({j}) = Bytes[j]
  <1>1. Units({}) = {} /\ BytesOf({}) = 0
    BY FS_EmptySet DEF Units, BytesOf
  <1>2. ASSUME NEW j \in Jobs PROVE BytesOf({j}) = Bytes[j]
    <2>1. Units({j}) = {j} \X (1..Bytes[j])
      BY DEF Units
    <2>a. Bytes[j] \in Nat /\ 1 \in Int
      BY ProcessorAssumption
    <2>b. IsFiniteSet(1..Bytes[j]) /\ Cardinality(1..Bytes[j]) = IF 1 > Bytes[j] THEN 0 ELSE Bytes[j] - 1 + 1
      BY <2>a, FS_Interval
    <2>c. IsFiniteSet({j}) /\ Cardinality({j}) = 1
      BY FS_Singleton
    <2>2. Cardinality(1..Bytes[j]) = Bytes[j]
      BY <2>a, <2>b
    <2>3. Cardinality({j} \X (1..Bytes[j])) = Cardinality({j}) * Cardinality(1..Bytes[j])
      BY <2>b, <2>c, FS_Product
    <2>4. Cardinality({j} \X (1..Bytes[j])) = Bytes[j]
      BY <2>a, <2>c, <2>2, <2>3
    <2>5. BytesOf({j}) = Cardinality(Units({j}))
      BY DEF Units, BytesOf
    <2> QED
      BY <2>1, <2>4, <2>5
  <1> QED
    BY <1>1, <1>2

---------------------------------------------------------------------------
(* One processor at a time: a state [p, pool, leased, answer] is sound     *)
(* when the others hold L and queue Q, and run n threads.                  *)

Answers  == {"new", "pending", "ok"} \cup Failure
Gauges   == [jobs : Nat, bytes : Nat, workers : Nat]
StateSet == [p : Processor, pool : Gauges, leased : SUBSET Jobs, answer : [Jobs -> Answers]]

\* The gauges are those of what is leased, within the limits.
Charged(s) ==
    /\ s \in StateSet /\ IsFiniteSet(s.leased)
    /\ s.pool.jobs = Cardinality(s.leased) /\ s.pool.jobs <= PoolJobs
    /\ s.pool.bytes = BytesOf(s.leased) /\ s.pool.bytes <= PoolBytes

\* What is leased is what this processor and the others hold, with its answers.
Leases(s, L, Q) ==
    /\ s.leased = Held(s.p) \cup L /\ Held(s.p) \cap L = {} /\ Q \subseteq L
    /\ \A j \in Jobs : s.answer[j] = "pending" <=> j \in Range(s.p.jobs) \/ j \in Q
    /\ \A j \in s.leased : s.answer[j] # "new"

ThreadsOf(x) == IF x.worker \/ x.dying THEN 1 ELSE 0

Staffed(s, n) == s.pool.workers = n + ThreadsOf(s.p) /\ s.pool.workers <= PoolWorkers

Sound(s, L, Q, n) == Charged(s) /\ ProcessorIsSound(s.p) /\ Leases(s, L, Q) /\ Staffed(s, n)

\* NothingStranded for one processor.
Ready(x) == x.jobs # <<>> => ~x.closed /\ (~x.dying => x.worker /\ x.active = Head(x.jobs))

\* What an operator on a state leaves in each field.
LEMMA ReleaseFields ==
  ASSUME NEW s \in StateSet, NEW A
  PROVE  /\ Release(s, A).leased = s.leased \ (A \cap s.leased)
         /\ Release(s, A).p = s.p /\ Release(s, A).answer = s.answer
         /\ Release(s, A).pool.workers = s.pool.workers
         /\ Release(s, A).pool.jobs = s.pool.jobs - Cardinality(A \cap s.leased)
         /\ Release(s, A).pool.bytes = s.pool.bytes - BytesOf(A \cap s.leased)
         /\ s.pool.jobs - Cardinality(A \cap s.leased) \in Nat
            /\ s.pool.bytes - BytesOf(A \cap s.leased) \in Nat => Release(s, A) \in StateSet
  BY DEF StateSet, Gauges, Release

LEMMA SettleFields ==
  ASSUME NEW s \in StateSet, NEW jobs, NEW how \in Answers
  PROVE  /\ Settle(s, jobs, how) \in StateSet
         /\ Settle(s, jobs, how).p = s.p
         /\ Settle(s, jobs, how).pool = s.pool /\ Settle(s, jobs, how).leased = s.leased
         /\ Settle(s, jobs, how).answer = [j \in Jobs |-> IF j \in jobs THEN how ELSE s.answer[j]]
  BY DEF StateSet, Settle

LEMMA WithProcessor ==
  ASSUME NEW s \in StateSet, NEW x \in Processor
  PROVE  LET t == [s EXCEPT !.p = x]
         IN  /\ t \in StateSet /\ t.p = x
             /\ t.pool = s.pool /\ t.leased = s.leased /\ t.answer = s.answer
  BY DEF StateSet

LEMMA FailedFields ==
  ASSUME NEW x \in Processor
  PROVE  /\ Failed(x) \in Processor
         /\ Failed(x).jobs = <<>> /\ Failed(x).active = NoJob /\ Failed(x).bytes = 0
         /\ Failed(x).worker = FALSE /\ Failed(x).dying = (x.dying \/ x.worker)
         /\ Failed(x).closed = x.closed
         /\ Failed(x).doomed = IF x.worker THEN x.active ELSE x.doomed
  <1>1. <<>> \in Seq(Jobs)
    OBVIOUS
  <1>2. PICK q \in Seq(Jobs) : q = <<>>
    BY <1>1
  <1> DEFINE y == [x EXCEPT !.jobs = q, !.active = NoJob, !.bytes = 0, !.worker = FALSE,
                            !.dying = @ \/ x.worker, !.doomed = IF x.worker THEN x.active ELSE @]
  <1>3. y = Failed(x)
    BY <1>2 DEF Failed
  <1>4. /\ y \in Processor
        /\ y.jobs = q /\ y.active = NoJob /\ y.bytes = 0 /\ y.worker = FALSE
    BY DEF Processor
  <1>5. y.dying = (x.dying \/ x.worker) /\ y.closed = x.closed
    BY DEF Processor
  <1>6. y.doomed = IF x.worker THEN x.active ELSE x.doomed
    BY DEF Processor
  <1> HIDE DEF y
  <1> QED
    BY <1>2, <1>3, <1>4, <1>5, <1>6

\* A release takes out of the gauges what it takes out of the leases.
LEMMA ReleaseCharges ==
  ASSUME NEW s, Charged(s), NEW A
  PROVE  /\ Charged(Release(s, A))
         /\ Release(s, A).leased = s.leased \ A
         /\ Release(s, A).p = s.p /\ Release(s, A).answer = s.answer
         /\ Release(s, A).pool.workers = s.pool.workers
  <1> DEFINE freed == A \cap s.leased
             t == Release(s, A)
  <1>1. s \in StateSet /\ s.leased \in SUBSET Jobs /\ freed \in SUBSET s.leased /\ IsFiniteSet(s.leased)
        /\ s.leased \ freed = s.leased \ A
    BY DEF Charged, StateSet
  <1>2. /\ Cardinality(s.leased) = Cardinality(freed) + Cardinality(s.leased \ freed)
        /\ Cardinality(freed) \in Nat /\ Cardinality(s.leased \ freed) \in Nat
        /\ IsFiniteSet(freed) /\ IsFiniteSet(s.leased \ freed)
    BY <1>1, CountAdds
  <1>3. BytesOf(s.leased) = BytesOf(freed) + BytesOf(s.leased \ freed)
    BY <1>1, BytesAdd
  <1>4. BytesOf(freed) \in Nat /\ BytesOf(s.leased \ freed) \in Nat
    BY <1>1, <1>2, UnitsFinite
  <1>5. /\ t.leased = s.leased \ freed /\ t.p = s.p /\ t.answer = s.answer
        /\ t.pool.workers = s.pool.workers
        /\ t.pool.jobs = s.pool.jobs - Cardinality(freed)
        /\ t.pool.bytes = s.pool.bytes - BytesOf(freed)
        /\ s.pool.jobs - Cardinality(freed) \in Nat
           /\ s.pool.bytes - BytesOf(freed) \in Nat => t \in StateSet
    BY <1>1, ReleaseFields
  <1>6. /\ s.pool.jobs = Cardinality(s.leased) /\ s.pool.jobs <= PoolJobs
        /\ s.pool.bytes = BytesOf(s.leased) /\ s.pool.bytes <= PoolBytes
        /\ PoolJobs \in Nat /\ PoolBytes \in Nat
    BY ProcessorAssumption DEF Charged
  <1> HIDE DEF freed, t
  <1>7. /\ t.pool.jobs = Cardinality(t.leased) /\ t.pool.jobs <= PoolJobs
        /\ t.pool.bytes = BytesOf(t.leased) /\ t.pool.bytes <= PoolBytes
        /\ t \in StateSet
    BY <1>2, <1>3, <1>4, <1>5, <1>6
  <1>8. Charged(t) /\ t.leased = s.leased \ A
    BY <1>1, <1>2, <1>5, <1>7 DEF Charged
  <1> QED
    BY <1>5, <1>8 DEF t

\* failAll keeps all of it, and leaves nothing queued.
LEMMA FailAllSound ==
  ASSUME NEW s, NEW L, NEW Q, NEW n \in Nat, Sound(s, L, Q, n), NEW how \in Failure
  PROVE  Sound(FailAll(s, how), L, Q, n) /\ Ready(FailAll(s, how).p)
  <1> DEFINE jobs == Range(s.p.jobs)
             kept == IF s.p.worker THEN {s.p.active} ELSE {}
             r == Release(s, jobs \ kept)
             u == Settle(r, jobs, how)
             t == FailAll(s, how)
  <1>1. /\ Charged(s) /\ s \in StateSet /\ s.p \in Processor /\ s.answer \in [Jobs -> Answers]
        /\ s.leased \in SUBSET Jobs
    BY DEF Sound, Charged, StateSet
  <1>2. /\ Charged(r) /\ r.leased = s.leased \ (jobs \ kept)
        /\ r.p = s.p /\ r.answer = s.answer /\ r.pool.workers = s.pool.workers
    BY <1>1, ReleaseCharges
  <1>3. how \in Answers /\ how # "pending" /\ how # "new"
    BY DEF Answers, Failure
  <1>a. r \in StateSet
    BY <1>2 DEF Charged
  <1> HIDE DEF r
  <1>b. /\ u \in StateSet /\ u.p = s.p /\ u.pool = r.pool /\ u.leased = r.leased
        /\ u.answer = [j \in Jobs |-> IF j \in jobs THEN how ELSE s.answer[j]]
    BY <1>2, <1>3, <1>a, SettleFields
  <1>c. t = [u EXCEPT !.p = Failed(s.p)]
    BY <1>b DEF FailAll, r
  <1> HIDE DEF u
  <1>4. Failed(s.p) \in Processor
    BY <1>1, FailedFields
  <1>5. /\ t \in StateSet /\ t.p = Failed(s.p) /\ t.pool = r.pool /\ t.leased = r.leased
        /\ t.answer = [j \in Jobs |-> IF j \in jobs THEN how ELSE s.answer[j]]
    BY <1>b, <1>c, <1>4, WithProcessor
  <1> HIDE DEF t
  <1>6. /\ t.p.jobs = <<>> /\ t.p.active = NoJob /\ t.p.bytes = 0 /\ t.p.worker = FALSE
        /\ t.p.dying = (s.p.dying \/ s.p.worker) /\ t.p.closed = s.p.closed
        /\ t.p.doomed = (IF s.p.worker THEN s.p.active ELSE s.p.doomed)
    <2> DEFINE y == Failed(s.p)
    <2>1. /\ y.jobs = <<>> /\ y.active = NoJob /\ y.bytes = 0
          /\ y.worker = FALSE /\ y.dying = (s.p.dying \/ s.p.worker)
          /\ y.closed = s.p.closed
          /\ y.doomed = IF s.p.worker THEN s.p.active ELSE s.p.doomed
      BY <1>1, FailedFields, Zenon
    <2>2. t.p = y
      BY <1>5
    <2> HIDE DEF y
    <2> QED
      BY <2>1, <2>2
  <1>8. Charged(t)
    BY <1>2, <1>5 DEF Charged
  <1>9. /\ ~(s.p.worker /\ s.p.dying) /\ (s.p.doomed # NoJob => s.p.dying)
        /\ s.p.doomed \notin jobs
        /\ s.p.active # NoJob => s.p.worker /\ s.p.jobs # <<>> /\ s.p.active = Head(s.p.jobs)
    BY DEF Sound, ProcessorIsSound
  <1>10. Range(t.p.jobs) = {} /\ BytesOf(Range(t.p.jobs)) = 0 /\ Len(t.p.jobs) = 0
         /\ DOMAIN t.p.jobs = {}
    <2>1. DOMAIN t.p.jobs = {} /\ Len(t.p.jobs) = 0
      BY <1>6
    <2>2. Range(t.p.jobs) = {}
      BY <2>1 DEF Range
    <2> QED
      BY <2>1, <2>2, BytesOfOne
  <1>11. ProcessorIsSound(t.p)
    <2>1. IsInjective(t.p.jobs)
      BY <1>10 DEF IsInjective
    <2>2. MaxJobs >= 0 /\ MaxBytes >= 0
      BY ProcessorAssumption
    <2>3. ~(t.p.worker /\ t.p.dying) /\ (t.p.doomed # NoJob => t.p.dying)
      BY <1>6, <1>9
    <2> QED
      BY <1>6, <1>10, <2>1, <2>2, <2>3 DEF ProcessorIsSound
  <1>12. s.p.active # NoJob => s.p.active \in jobs
    BY <1>1, <1>9 DEF Processor, Range
  <1>13. Leases(t, L, Q)
    <2>1. /\ s.leased = Held(s.p) \cup L /\ Held(s.p) \cap L = {} /\ Q \subseteq L
          /\ \A j \in Jobs : s.answer[j] = "pending" <=> j \in jobs \/ j \in Q
          /\ \A j \in s.leased : s.answer[j] # "new"
      BY DEF Sound, Leases
    <2>2. Held(s.p) = jobs \cup ({s.p.doomed} \ {NoJob})
      BY DEF Held
    <2>3. Held(t.p) = {t.p.doomed} \ {NoJob}
      BY <1>10 DEF Held
    <2>a. NoJob \notin jobs
      BY <1>1, <2>1, <2>2, ProcessorAssumption
    <2>4. t.leased = Held(t.p) \cup L /\ Held(t.p) \subseteq Held(s.p)
      <3>1. CASE s.p.worker
        BY <3>1, <2>a, <1>2, <1>5, <1>6, <1>9, <1>12, <2>1, <2>2, <2>3
      <3>2. CASE ~s.p.worker
        BY <3>2, <2>a, <1>2, <1>5, <1>6, <1>9, <2>1, <2>2, <2>3
      <3> QED
        BY <3>1, <3>2
    <2>6. \A j \in Jobs : t.answer[j] = "pending" <=> j \in Q
      BY <1>3, <1>5, <2>1, <2>2
    <2>7. \A j \in t.leased : t.answer[j] # "new"
      BY <1>1, <1>2, <1>3, <1>5, <2>1
    <2> QED
      BY <1>10, <2>1, <2>4, <2>6, <2>7 DEF Leases
  <1>14. Staffed(t, n)
    BY <1>2, <1>5, <1>6 DEF Sound, Staffed, ThreadsOf
  <1>15. Ready(t.p)
    BY <1>6 DEF Ready
  <1> QED
    BY <1>8, <1>11, <1>13, <1>14, <1>15 DEF Sound, t

\* A job is given to a worker within the limit of workers.
LEMMA GivenSound ==
  ASSUME NEW s, NEW L, NEW Q, NEW n \in Nat, Sound(s, L, Q, n),
         ~s.p.closed, s.p.active = NoJob, s.p.jobs # <<>>, ~s.p.dying,
         s.p.worker \/ s.pool.workers < PoolWorkers
  PROVE  LET given == [s EXCEPT !.p.worker = TRUE, !.p.active = Head(s.p.jobs),
                                !.pool.workers = IF s.p.worker THEN @ ELSE @ + 1]
         IN  Sound(given, L, Q, n) /\ Ready(given.p)
  <1> DEFINE t == [s EXCEPT !.p.worker = TRUE, !.p.active = Head(s.p.jobs),
                            !.pool.workers = IF s.p.worker THEN @ ELSE @ + 1]
  <1>1. s \in StateSet /\ s.p \in Processor /\ Head(s.p.jobs) \in Jobs /\ s.pool.workers \in Nat
    BY DEF Sound, Charged, StateSet, Processor, Gauges
  <1>2. t \in StateSet
    <2>1. PICK w \in Nat : w = IF s.p.worker THEN s.pool.workers ELSE s.pool.workers + 1
      BY <1>1
    <2>2. PICK h \in Jobs : h = Head(s.p.jobs)
      BY <1>1
    <2>3. t = [s EXCEPT !.p.worker = TRUE, !.p.active = h, !.pool.workers = w]
      BY <1>1, <2>1, <2>2 DEF StateSet, Gauges
    <2>4. [s EXCEPT !.p.worker = TRUE, !.p.active = h, !.pool.workers = w] \in StateSet
      BY <1>1 DEF StateSet, Processor, Gauges
    <2> QED
      BY <2>3, <2>4
  <1>3. /\ t.p.jobs = s.p.jobs /\ t.p.active = Head(s.p.jobs) /\ t.p.bytes = s.p.bytes
        /\ t.p.doomed = s.p.doomed
        /\ t.pool.jobs = s.pool.jobs /\ t.pool.bytes = s.pool.bytes
        /\ t.leased = s.leased /\ t.answer = s.answer
        /\ t.pool.workers = IF s.p.worker THEN s.pool.workers ELSE s.pool.workers + 1
    BY <1>1 DEF StateSet, Processor, Gauges
  <1>4. t.p.worker /\ ~t.p.dying /\ ~t.p.closed
    BY <1>1 DEF StateSet, Processor
  <1> HIDE DEF t
  <1>5. Charged(t)
    BY <1>2, <1>3 DEF Sound, Charged
  <1>6. ProcessorIsSound(t.p)
    BY <1>3, <1>4 DEF Sound, ProcessorIsSound
  <1>7. Leases(t, L, Q)
    BY <1>3 DEF Sound, Leases, Held
  <1>8. Staffed(t, n)
    BY <1>1, <1>3, <1>4, ProcessorAssumption DEF Sound, Staffed, ThreadsOf
  <1>9. Ready(t.p)
    BY <1>3, <1>4 DEF Ready
  <1> QED
    BY <1>5, <1>6, <1>7, <1>8, <1>9 DEF Sound, t

\* Whatever pump does, nothing is stranded after it.
LEMMA PumpSound ==
  ASSUME NEW s, NEW L, NEW Q, NEW n \in Nat, Sound(s, L, Q, n),
         s.p.closed => s.p.jobs = <<>>, NEW t \in Pump(s)
  PROVE  Sound(t, L, Q, n) /\ Ready(t.p)
  <1>0. {"closed", "queue_full", "worker_error"} \subseteq Failure
    BY DEF Failure
  <1>1. CASE s.p.closed \/ s.p.active # NoJob \/ s.p.jobs = <<>> \/ s.p.dying
    <2>1. t = s
      BY <1>1 DEF Pump
    <2>2. s.p.active # NoJob => s.p.worker /\ s.p.active = Head(s.p.jobs)
      BY DEF Sound, ProcessorIsSound
    <2> QED
      BY <1>1, <2>1, <2>2 DEF Ready
  <1>2. CASE /\ ~(s.p.closed \/ s.p.active # NoJob \/ s.p.jobs = <<>> \/ s.p.dying)
             /\ ~s.p.worker /\ s.pool.workers >= PoolWorkers
    <2>1. t = FailAll(s, "queue_full")
      BY <1>2 DEF Pump
    <2> QED
      BY <1>0, <2>1, FailAllSound
  <1>3. CASE /\ ~(s.p.closed \/ s.p.active # NoJob \/ s.p.jobs = <<>> \/ s.p.dying)
             /\ ~(~s.p.worker /\ s.pool.workers >= PoolWorkers)
    <2> DEFINE given == [s EXCEPT !.p.worker = TRUE, !.p.active = Head(s.p.jobs),
                                  !.pool.workers = IF s.p.worker THEN @ ELSE @ + 1]
    <2>1. t \in {given, FailAll(given, "worker_error"), FailAll(s, "worker_error")}
      BY <1>3 DEF Pump
    <2>2. s.pool.workers \in Nat /\ PoolWorkers \in Nat
      BY ProcessorAssumption DEF Sound, Charged, StateSet, Gauges
    <2>3. s.p.worker \/ s.pool.workers < PoolWorkers
      BY <1>3, <2>2
    <2>4. Sound(given, L, Q, n) /\ Ready(given.p)
      BY <1>3, <2>3, GivenSound
    <2> HIDE DEF given
    <2>5. Sound(FailAll(given, "worker_error"), L, Q, n) /\ Ready(FailAll(given, "worker_error").p)
      BY <1>0, <2>4, FailAllSound
    <2>6. Sound(FailAll(s, "worker_error"), L, Q, n) /\ Ready(FailAll(s, "worker_error").p)
      BY <1>0, FailAllSound
    <2> QED
      BY <2>1, <2>4, <2>5, <2>6
  <1> QED
    BY <1>1, <1>2, <1>3

---------------------------------------------------------------------------
(* The changes that come before pump or failAll.                           *)

Fitting(s, j) ==
    /\ Len(s.p.jobs) < MaxJobs /\ s.p.bytes + Bytes[j] <= MaxBytes
    /\ s.pool.jobs < PoolJobs /\ s.pool.bytes + Bytes[j] <= PoolBytes

\* One more job in a queue.
LEMMA AppendFacts ==
  ASSUME NEW q \in Seq(Jobs), NEW j \in Jobs, j \notin Range(q), IsInjective(q)
  PROVE  /\ Append(q, j) \in Seq(Jobs) /\ Len(Append(q, j)) = Len(q) + 1
         /\ Range(Append(q, j)) = Range(q) \cup {j} /\ IsInjective(Append(q, j))
         /\ Append(q, j) # <<>> /\ (q # <<>> => Head(Append(q, j)) = Head(q))
  <1>1. /\ Append(q, j) \in Seq(Jobs) /\ Len(Append(q, j)) = Len(q) + 1 /\ Len(q) \in Nat
        /\ DOMAIN Append(q, j) = 1..(Len(q) + 1) /\ DOMAIN q = 1..Len(q)
        /\ \A i \in 1..Len(q) : Append(q, j)[i] = q[i]
        /\ Append(q, j)[Len(q) + 1] = j
    OBVIOUS
  <1> DEFINE r == Append(q, j)
  <1>2. r # <<>> /\ (q # <<>> => Head(r) = Head(q))
    <2>1. Len(r) # 0 /\ Head(r) = r[1] /\ Head(q) = q[1] /\ Len(<<>>) = 0
      BY <1>1
    <2>2. q # <<>> => Len(q) >= 1
      BY <1>1
    <2> QED
      BY <1>1, <2>1, <2>2
  <1> HIDE DEF r
  <1>3. Range(r) = Range(q) \cup {j}
    <2>1. \A i \in DOMAIN r : r[i] \in Range(q) \cup {j}
      BY <1>1 DEF r, Range
    <2>2. \A i \in DOMAIN q : q[i] \in Range(r)
      BY <1>1 DEF r, Range
    <2>3. j \in Range(r)
      BY <1>1 DEF r, Range
    <2> QED
      BY <2>1, <2>2, <2>3 DEF Range
  <1>4. IsInjective(r)
    <2> SUFFICES ASSUME NEW a \in DOMAIN r, NEW b \in DOMAIN r, r[a] = r[b] PROVE a = b
      BY DEF IsInjective
    <2>1. \A i \in DOMAIN q : q[i] # j
      BY DEF Range
    <2> QED
      BY <1>1, <2>1 DEF r, IsInjective
  <1> QED
    BY <1>1, <1>2, <1>3, <1>4 DEF r

\* Range and sizes of what is held: a queue is finite, with its bytes.
LEMMA HeldFacts ==
  ASSUME NEW s, NEW L, NEW Q, NEW n, Sound(s, L, Q, n)
  PROVE  /\ s \in StateSet /\ s.p \in Processor /\ s.leased \in SUBSET Jobs
         /\ Range(s.p.jobs) \subseteq s.leased /\ IsFiniteSet(Range(s.p.jobs))
         /\ Range(s.p.jobs) \in SUBSET Jobs /\ NoJob \notin s.leased
  <1>1. s \in StateSet /\ s.p \in Processor /\ s.leased \in SUBSET Jobs /\ IsFiniteSet(s.leased)
    BY DEF Sound, Charged, StateSet
  <1>2. Range(s.p.jobs) \subseteq s.leased
    BY DEF Sound, Leases, Held
  <1>3. IsFiniteSet(Range(s.p.jobs))
    BY <1>1, <1>2, FS_Subset
  <1> QED
    BY <1>1, <1>2, <1>3, ProcessorAssumption

\* enqueue accepts a job that fits.
LEMMA AcceptSound ==
  ASSUME NEW s, NEW L, NEW Q, NEW n \in Nat, Sound(s, L, Q, n),
         NEW j \in Jobs, s.answer[j] = "new", Fitting(s, j)
  PROVE  LET t == [s EXCEPT !.p.jobs = Append(@, j), !.p.bytes = @ + Bytes[j],
                            !.pool.jobs = @ + 1, !.pool.bytes = @ + Bytes[j],
                            !.leased = @ \cup {j}, !.answer[j] = "pending"]
         IN  Sound(t, L, Q, n) /\ t.p.closed = s.p.closed
  <1> DEFINE t == [s EXCEPT !.p.jobs = Append(@, j), !.p.bytes = @ + Bytes[j],
                            !.pool.jobs = @ + 1, !.pool.bytes = @ + Bytes[j],
                            !.leased = @ \cup {j}, !.answer[j] = "pending"]
  <1>1. /\ s \in StateSet /\ s.p \in Processor /\ s.leased \in SUBSET Jobs
        /\ Range(s.p.jobs) \subseteq s.leased /\ IsFiniteSet(Range(s.p.jobs))
        /\ Range(s.p.jobs) \in SUBSET Jobs /\ NoJob \notin s.leased
    BY HeldFacts
  <1>2. /\ s.p.jobs \in Seq(Jobs) /\ s.p.bytes \in Nat /\ s.pool.jobs \in Nat /\ s.pool.bytes \in Nat
        /\ Bytes[j] \in Nat /\ s.answer \in [Jobs -> Answers] /\ s.pool.workers \in Nat
    BY <1>1, ProcessorAssumption DEF StateSet, Processor, Gauges
  <1>3. j \notin s.leased
    BY DEF Sound, Leases
  <1>4. IsInjective(s.p.jobs)
    BY DEF Sound, ProcessorIsSound
  <1> DEFINE q == Append(s.p.jobs, j)
  <1>5. /\ q \in Seq(Jobs) /\ Len(q) = Len(s.p.jobs) + 1 /\ Range(q) = Range(s.p.jobs) \cup {j}
        /\ IsInjective(q) /\ q # <<>> /\ (s.p.jobs # <<>> => Head(q) = Head(s.p.jobs))
    BY <1>1, <1>2, <1>3, <1>4, AppendFacts
  <1>6. t \in StateSet
    <2>a. s.p.bytes + Bytes[j] \in Nat /\ s.pool.bytes + Bytes[j] \in Nat /\ s.pool.jobs + 1 \in Nat
      BY <1>2
    <2>1. PICK b \in Nat, m \in Nat, k \in Nat :
             b = s.p.bytes + Bytes[j] /\ m = s.pool.bytes + Bytes[j] /\ k = s.pool.jobs + 1
      BY <2>a
    <2>2. PICK r \in Seq(Jobs) : r = q
      BY <1>5
    <2> DEFINE u == [s EXCEPT !.p.jobs = r, !.p.bytes = b, !.pool.jobs = k, !.pool.bytes = m,
                              !.leased = @ \cup {j}, !.answer[j] = "pending"]
    <2>3. t = u
      BY <1>1, <2>1, <2>2 DEF StateSet, Gauges, Processor
    <2>4. u \in StateSet
      BY <1>1 DEF StateSet, Processor, Gauges, Answers
    <2> QED
      BY <2>3, <2>4
  <1>7. /\ t.p.jobs = q /\ t.p.bytes = s.p.bytes + Bytes[j]
        /\ t.p.active = s.p.active /\ t.p.doomed = s.p.doomed
        /\ t.pool.jobs = s.pool.jobs + 1 /\ t.pool.bytes = s.pool.bytes + Bytes[j]
        /\ t.leased = s.leased \cup {j} /\ t.answer = [s.answer EXCEPT ![j] = "pending"]
        /\ t.pool.workers = s.pool.workers
    BY <1>1 DEF StateSet, Processor, Gauges
  <1>8. t.p.worker = s.p.worker /\ t.p.dying = s.p.dying /\ t.p.closed = s.p.closed
    BY <1>1 DEF StateSet, Processor
  <1> HIDE DEF t, q
  <1>9. Charged(t)
    <2>1. IsFiniteSet(s.leased) /\ s.pool.jobs = Cardinality(s.leased) /\ s.pool.bytes = BytesOf(s.leased)
      BY DEF Sound, Charged
    <2>2. IsFiniteSet(t.leased) /\ Cardinality(t.leased) = Cardinality(s.leased) + 1
      <3>1. /\ IsFiniteSet(s.leased \cup {j})
            /\ Cardinality(s.leased \cup {j}) = IF j \in s.leased THEN Cardinality(s.leased)
                                                ELSE Cardinality(s.leased) + 1
        BY <2>1, FS_AddElement
      <3> QED
        BY <1>3, <1>7, <3>1
    <2>3. t.leased \in SUBSET Jobs /\ {j} \in SUBSET t.leased /\ t.leased \ {j} = s.leased
      BY <1>1, <1>3, <1>7
    <2>4. BytesOf(t.leased) = BytesOf({j}) + BytesOf(s.leased)
      BY <2>2, <2>3, BytesAdd
    <2>5. BytesOf({j}) = Bytes[j]
      BY BytesOfOne
    <2>6. s.pool.jobs < PoolJobs /\ s.pool.bytes + Bytes[j] <= PoolBytes /\ PoolJobs \in Nat
      BY ProcessorAssumption DEF Fitting
    <2>7. t.pool.jobs = Cardinality(t.leased) /\ t.pool.bytes = BytesOf(t.leased)
      BY <1>2, <1>7, <2>1, <2>2, <2>4, <2>5
    <2>8. t.pool.jobs <= PoolJobs /\ t.pool.bytes <= PoolBytes
      BY <1>2, <1>7, <2>6
    <2> QED
      BY <1>6, <2>2, <2>7, <2>8 DEF Charged
  <1>10. ProcessorIsSound(t.p)
    <2>1. /\ ~(s.p.worker /\ s.p.dying) /\ (s.p.doomed # NoJob => s.p.dying)
          /\ s.p.doomed \notin Range(s.p.jobs)
          /\ s.p.bytes = BytesOf(Range(s.p.jobs))
          /\ s.p.active # NoJob => s.p.worker /\ s.p.jobs # <<>> /\ s.p.active = Head(s.p.jobs)
      BY DEF Sound, ProcessorIsSound
    <2>2. s.p.doomed # j
      BY <1>1, <1>3, ProcessorAssumption DEF Sound, Leases, Held
    <2>3. IsFiniteSet(Range(q)) /\ Range(q) \in SUBSET Jobs
      BY <1>1, <1>5, FS_AddElement
    <2>4. {j} \in SUBSET Range(q) /\ Range(q) \ {j} = Range(s.p.jobs)
      BY <1>1, <1>3, <1>5
    <2>5. BytesOf(Range(q)) = BytesOf({j}) + BytesOf(Range(s.p.jobs))
      BY <2>3, <2>4, BytesAdd
    <2>6. BytesOf({j}) = Bytes[j]
      BY BytesOfOne
    <2>7. t.p.bytes = BytesOf(Range(t.p.jobs)) /\ t.p.bytes <= MaxBytes
      BY <1>2, <1>7, <2>1, <2>5, <2>6 DEF Fitting
    <2>8. Len(t.p.jobs) <= MaxJobs
      <3>1. Len(s.p.jobs) < MaxJobs /\ Len(s.p.jobs) \in Nat /\ MaxJobs \in Nat
        BY <1>2, ProcessorAssumption DEF Fitting
      <3> QED
        BY <3>1, <1>5, <1>7
    <2>9. t.p.doomed \notin Range(t.p.jobs) /\ IsInjective(t.p.jobs)
      BY <1>5, <1>7, <2>1, <2>2
    <2>10. t.p.active # NoJob => t.p.worker /\ t.p.jobs # <<>> /\ t.p.active = Head(t.p.jobs)
      BY <1>5, <1>7, <1>8, <2>1
    <2>11. ~(t.p.worker /\ t.p.dying) /\ (t.p.doomed # NoJob => t.p.dying)
      BY <1>7, <1>8, <2>1
    <2> QED
      BY <2>7, <2>8, <2>9, <2>10, <2>11 DEF ProcessorIsSound
  <1>11. Leases(t, L, Q)
    <2>1. /\ s.leased = Held(s.p) \cup L /\ Held(s.p) \cap L = {} /\ Q \subseteq L
          /\ \A i \in Jobs : s.answer[i] = "pending" <=> i \in Range(s.p.jobs) \/ i \in Q
          /\ \A i \in s.leased : s.answer[i] # "new"
      BY DEF Sound, Leases
    <2>2. Held(t.p) = Held(s.p) \cup {j}
      BY <1>5, <1>7, <1>1, <1>3 DEF Held
    <2>3. t.leased = Held(t.p) \cup L /\ Held(t.p) \cap L = {}
      BY <1>3, <1>7, <2>1, <2>2
    <2>4. \A i \in Jobs : t.answer[i] = IF i = j THEN "pending" ELSE s.answer[i]
      BY <1>2, <1>7
    <2>5. \A i \in Jobs : t.answer[i] = "pending" <=> i \in Range(t.p.jobs) \/ i \in Q
      BY <1>5, <1>7, <2>1, <2>4
    <2>6. \A i \in t.leased : t.answer[i] # "new"
      BY <1>1, <1>7, <2>1, <2>4
    <2> QED
      BY <2>1, <2>3, <2>5, <2>6 DEF Leases
  <1>12. Staffed(t, n)
    BY <1>7, <1>8 DEF Sound, Staffed, ThreadsOf
  <1> QED
    BY <1>8, <1>9, <1>10, <1>11, <1>12 DEF Sound, t, q

\* The first of a queue taken out of it.
LEMMA RemoveFirstFacts ==
  ASSUME NEW q \in Seq(Jobs), q # <<>>, IsInjective(q), NEW j, j = Head(q)
  PROVE  LET r == Without(q, j)
         IN  /\ r \in Seq(Jobs) /\ Len(r) = Len(q) - 1
             /\ Range(r) = Range(q) \ {j} /\ IsInjective(r)
  <1>1. /\ Len(q) \in Nat /\ Len(q) >= 1 /\ DOMAIN q = 1..Len(q) /\ q[1] = j
    OBVIOUS
  <1>2. \A n \in DOMAIN q : q[n] = j => n = 1
    BY <1>1 DEF IsInjective
  <1>3. (CHOOSE n \in DOMAIN q : q[n] = j) = 1
    BY <1>1, <1>2
  <1>4. RemoveAt(q, 1) = Tail(q)
    BY DEF RemoveAt
  <1> DEFINE r == Tail(q)
  <1>5. /\ r \in Seq(Jobs) /\ Len(r) = Len(q) - 1 /\ DOMAIN r = 1..(Len(q) - 1)
        /\ \A n \in 1..(Len(q) - 1) : r[n] = q[n + 1]
    BY <1>1
  <1> HIDE DEF r
  <1>6. Range(r) = Range(q) \ {j}
    <2>1. ASSUME NEW n \in DOMAIN r PROVE r[n] \in Range(q) \ {j}
      <3>1. n + 1 \in DOMAIN q /\ n + 1 # 1 /\ r[n] = q[n + 1]
        BY <1>1, <1>5
      <3> QED
        BY <3>1, <1>2 DEF Range
    <2>2. ASSUME NEW n \in DOMAIN q, q[n] # j PROVE q[n] \in Range(r)
      <3>1. n - 1 \in DOMAIN r /\ r[n - 1] = q[n]
        BY <1>1, <1>5, <2>2
      <3> QED
        BY <3>1 DEF Range
    <2> QED
      BY <2>1, <2>2 DEF Range
  <1>7. IsInjective(r)
    <2> SUFFICES ASSUME NEW a \in DOMAIN r, NEW b \in DOMAIN r, r[a] = r[b] PROVE a = b
      BY DEF IsInjective
    <2>1. /\ a \in Int /\ b \in Int /\ a + 1 \in DOMAIN q /\ b + 1 \in DOMAIN q
          /\ r[a] = q[a + 1] /\ r[b] = q[b + 1]
      BY <1>1, <1>5
    <2>2. a + 1 = b + 1
      BY <2>1 DEF IsInjective
    <2> QED
      BY <2>1, <2>2
  <1> QED
    BY <1>3, <1>4, <1>5, <1>6, <1>7 DEF r, Without

\* The worker's answer frees its job.
LEMMA AnswerSound ==
  ASSUME NEW s, NEW L, NEW Q, NEW n \in Nat, Sound(s, L, Q, n),
         s.p.active # NoJob, NEW how \in {"ok", "worker_error"}
  PROVE  LET j == s.p.active
             t == [Settle(Release(s, {j}), {j}, how) EXCEPT
                      !.p.jobs = Without(@, j),
                      !.p.bytes = @ - Bytes[j], !.p.active = NoJob]
         IN  Sound(t, L, Q, n) /\ t.p.closed = s.p.closed
  <1> DEFINE j == s.p.active
             r == Release(s, {j})
             u == Settle(r, {j}, how)
             q == Without(s.p.jobs, j)
             t == [u EXCEPT !.p.jobs = Without(@, j),
                            !.p.bytes = @ - Bytes[j], !.p.active = NoJob]
  <1>1. /\ s \in StateSet /\ s.p \in Processor /\ s.leased \in SUBSET Jobs
        /\ Range(s.p.jobs) \subseteq s.leased /\ IsFiniteSet(Range(s.p.jobs))
        /\ Range(s.p.jobs) \in SUBSET Jobs /\ NoJob \notin s.leased
    BY HeldFacts
  <1>2. /\ s.p.jobs \in Seq(Jobs) /\ s.p.bytes \in Nat /\ s.answer \in [Jobs -> Answers]
        /\ Charged(s)
    BY <1>1 DEF StateSet, Processor, Sound
  <1>3. /\ ~(s.p.worker /\ s.p.dying) /\ (s.p.doomed # NoJob => s.p.dying)
        /\ IsInjective(s.p.jobs) /\ s.p.doomed \notin Range(s.p.jobs) /\ Len(s.p.jobs) <= MaxJobs
        /\ s.p.bytes = BytesOf(Range(s.p.jobs)) /\ s.p.bytes <= MaxBytes
        /\ s.p.worker /\ s.p.jobs # <<>> /\ j = Head(s.p.jobs)
    BY DEF Sound, ProcessorIsSound
  <1>4. j \in Range(s.p.jobs) /\ j \in Jobs
    BY <1>1, <1>2, <1>3 DEF Range
  <1>5. q \in Seq(Jobs) /\ Len(q) = Len(s.p.jobs) - 1 /\ Range(q) = Range(s.p.jobs) \ {j} /\ IsInjective(q)
    BY <1>2, <1>3, RemoveFirstFacts
  <1>6. /\ Charged(r) /\ r.leased = s.leased \ {j} /\ r.p = s.p /\ r.answer = s.answer
        /\ r.pool.workers = s.pool.workers
    BY <1>2, ReleaseCharges
  <1>7. r \in StateSet /\ how \in Answers
    BY <1>6 DEF Charged, Answers, Failure
  <1>8. /\ u \in StateSet /\ u.p = s.p /\ u.pool = r.pool /\ u.leased = r.leased
        /\ u.answer = [i \in Jobs |-> IF i \in {j} THEN how ELSE s.answer[i]]
    BY <1>6, <1>7, SettleFields
  <1>9. BytesOf(Range(s.p.jobs)) = Bytes[j] + BytesOf(Range(q)) /\ BytesOf(Range(q)) \in Nat
    <2>1. IsFiniteSet(Range(q)) /\ Range(q) \in SUBSET Jobs
      <3> HIDE DEF q
      <3>1. IsFiniteSet(Range(s.p.jobs) \ {j})
        BY <1>1, FS_Difference
      <3> QED
        BY <1>1, <1>5, <3>1
    <2>2. {j} \in SUBSET Range(s.p.jobs) /\ BytesOf({j}) = Bytes[j]
      BY <1>4, BytesOfOne
    <2>3. BytesOf(Range(s.p.jobs)) = BytesOf({j}) + BytesOf(Range(s.p.jobs) \ {j})
      BY <1>1, <2>2, BytesAdd
    <2>4. BytesOf(Range(q)) \in Nat
      BY <2>1, UnitsFinite
    <2> QED
      BY <1>5, <2>2, <2>3, <2>4
  <1>10. Bytes[j] \in Nat /\ s.p.bytes - Bytes[j] = BytesOf(Range(q)) /\ s.p.bytes - Bytes[j] \in Nat
    <2> HIDE DEF q, j
    <2>1. Bytes[j] \in Nat
      BY <1>4, ProcessorAssumption
    <2> QED
      BY <1>3, <1>9, <2>1
  <1> HIDE DEF r, u
  <1> DEFINE x == [s.p EXCEPT !.jobs = q, !.bytes = s.p.bytes - Bytes[j], !.active = NoJob]
  <1>11. t = [u EXCEPT !.p = x]
    BY <1>8 DEF StateSet, Processor
  <1> HIDE DEF t, q
  <1>12. x \in Processor
    <2>1. PICK b \in Nat : b = s.p.bytes - Bytes[j]
      BY <1>10
    <2>2. [s.p EXCEPT !.jobs = q, !.bytes = b, !.active = NoJob] \in Processor
      BY <1>1, <1>5 DEF Processor
    <2> QED
      BY <2>1, <2>2
  <1>13. /\ x.jobs = q /\ x.bytes = BytesOf(Range(q)) /\ x.active = NoJob /\ x.doomed = s.p.doomed
    BY <1>1, <1>10 DEF Processor
  <1>14. x.worker = s.p.worker /\ x.dying = s.p.dying /\ x.closed = s.p.closed
    BY <1>1 DEF Processor
  <1> HIDE DEF x
  <1>15. /\ t \in StateSet /\ t.p = x /\ t.pool = r.pool /\ t.leased = s.leased \ {j}
         /\ t.answer = [i \in Jobs |-> IF i \in {j} THEN how ELSE s.answer[i]]
    BY <1>6, <1>8, <1>11, <1>12, WithProcessor
  <1>16. Charged(t)
    BY <1>6, <1>15 DEF Charged
  <1>17. ProcessorIsSound(t.p)
    <2>1. x.bytes <= MaxBytes
      <3> HIDE DEF j
      <3>1. Bytes[j] \in Nat /\ s.p.bytes \in Nat /\ MaxBytes \in Nat /\ s.p.bytes <= MaxBytes
        BY <1>2, <1>3, <1>10, ProcessorAssumption
      <3>2. x.bytes = s.p.bytes - Bytes[j]
        BY <1>10, <1>13
      <3> QED
        BY <3>1, <3>2
    <2>2. Len(x.jobs) <= MaxJobs
      <3>1. Len(s.p.jobs) \in Nat /\ Len(s.p.jobs) <= MaxJobs /\ MaxJobs \in Nat
        BY <1>2, <1>3, ProcessorAssumption
      <3> QED
        BY <3>1, <1>5, <1>13
    <2> QED
      BY <1>3, <1>5, <1>13, <1>14, <1>15, <2>1, <2>2 DEF ProcessorIsSound
  <1>18. Leases(t, L, Q)
    <2>1. /\ s.leased = Held(s.p) \cup L /\ Held(s.p) \cap L = {} /\ Q \subseteq L
          /\ \A i \in Jobs : s.answer[i] = "pending" <=> i \in Range(s.p.jobs) \/ i \in Q
          /\ \A i \in s.leased : s.answer[i] # "new"
      BY DEF Sound, Leases
    <2>2. j \in Held(s.p) /\ Held(x) = Held(s.p) \ {j}
      BY <1>3, <1>4, <1>5, <1>13 DEF Held
    <2>3. t.leased = Held(t.p) \cup L /\ Held(t.p) \cap L = {}
      BY <1>15, <2>1, <2>2
    <2>4. \A i \in Jobs : t.answer[i] = IF i = j THEN how ELSE s.answer[i]
      BY <1>15
    <2>5. \A i \in Jobs : t.answer[i] = "pending" <=> i \in Range(t.p.jobs) \/ i \in Q
      BY <1>5, <1>13, <1>15, <2>1, <2>2, <2>4
    <2>6. \A i \in t.leased : t.answer[i] # "new"
      BY <1>1, <1>15, <2>1, <2>4
    <2> QED
      BY <2>1, <2>3, <2>5, <2>6 DEF Leases
  <1>19. Staffed(t, n)
    BY <1>6, <1>14, <1>15 DEF Sound, Staffed, ThreadsOf
  <1> QED
    BY <1>14, <1>15, <1>16, <1>17, <1>18, <1>19 DEF Sound, t, u, r

\* The end of a terminated worker frees its lease and that of its job.
LEMMA EndSound ==
  ASSUME NEW s, NEW L, NEW Q, NEW n \in Nat, Sound(s, L, Q, n), s.p.dying
  PROVE  LET t == [Release(s, {s.p.doomed}) EXCEPT
                      !.p.dying = FALSE, !.p.doomed = NoJob, !.pool.workers = @ - 1]
         IN  Sound(t, L, Q, n) /\ t.p.closed = s.p.closed /\ t.p.jobs = s.p.jobs
  <1> DEFINE r == Release(s, {s.p.doomed})
             t == [r EXCEPT !.p.dying = FALSE, !.p.doomed = NoJob, !.pool.workers = @ - 1]
  <1>1. /\ s \in StateSet /\ s.p \in Processor /\ s.leased \in SUBSET Jobs
        /\ Range(s.p.jobs) \subseteq s.leased /\ NoJob \notin s.leased
    BY HeldFacts
  <1>2. /\ Charged(r) /\ r.leased = s.leased \ {s.p.doomed} /\ r.p = s.p /\ r.answer = s.answer
        /\ r.pool.workers = s.pool.workers
    BY ReleaseCharges DEF Sound
  <1>3. r \in StateSet
    BY <1>2 DEF Charged
  <1>4. /\ ~(s.p.worker /\ s.p.dying) /\ IsInjective(s.p.jobs) /\ s.p.doomed \notin Range(s.p.jobs)
        /\ Len(s.p.jobs) <= MaxJobs /\ s.p.bytes = BytesOf(Range(s.p.jobs)) /\ s.p.bytes <= MaxBytes
        /\ s.p.active = NoJob
    BY DEF Sound, ProcessorIsSound
  <1>5. s.pool.workers = n + 1 /\ s.pool.workers <= PoolWorkers /\ PoolWorkers \in Nat
    BY ProcessorAssumption DEF Sound, Staffed, ThreadsOf
  <1> HIDE DEF r
  <1>6. t \in StateSet
    <2>1. r.pool.workers - 1 = n
      BY <1>2, <1>5
    <2>2. t = [r EXCEPT !.p.dying = FALSE, !.p.doomed = NoJob, !.pool.workers = n]
      BY <1>3, <2>1 DEF StateSet, Gauges
    <2>3. [r EXCEPT !.p.dying = FALSE, !.p.doomed = NoJob, !.pool.workers = n] \in StateSet
      BY <1>3 DEF StateSet, Processor, Gauges
    <2> QED
      BY <2>2, <2>3
  <1>7. /\ t.p.jobs = s.p.jobs /\ t.p.active = s.p.active /\ t.p.bytes = s.p.bytes /\ t.p.doomed = NoJob
        /\ t.pool.jobs = r.pool.jobs /\ t.pool.bytes = r.pool.bytes
        /\ t.pool.workers = r.pool.workers - 1
        /\ t.leased = r.leased /\ t.answer = s.answer
    BY <1>2, <1>3 DEF StateSet, Processor, Gauges
  <1>8. t.p.worker = s.p.worker /\ ~t.p.dying /\ t.p.closed = s.p.closed
    BY <1>2, <1>3 DEF StateSet, Processor
  <1> HIDE DEF t
  <1>9. Charged(t)
    BY <1>2, <1>6, <1>7 DEF Charged
  <1>10. ProcessorIsSound(t.p)
    <2>1. NoJob \notin Range(t.p.jobs)
      BY <1>1, <1>7
    <2> QED
      BY <1>4, <1>7, <1>8, <2>1 DEF ProcessorIsSound
  <1>11. Leases(t, L, Q)
    <2>1. /\ s.leased = Held(s.p) \cup L /\ Held(s.p) \cap L = {} /\ Q \subseteq L
          /\ \A i \in Jobs : s.answer[i] = "pending" <=> i \in Range(s.p.jobs) \/ i \in Q
          /\ \A i \in s.leased : s.answer[i] # "new"
      BY DEF Sound, Leases
    <2>2. Held(t.p) = Held(s.p) \ {s.p.doomed}
      BY <1>1, <1>4, <1>7, <2>1 DEF Held
    <2>3. s.p.doomed \notin L
      BY <1>1, <2>1, ProcessorAssumption DEF Held
    <2>4. t.leased = Held(t.p) \cup L /\ Held(t.p) \cap L = {}
      BY <1>2, <1>7, <2>1, <2>2, <2>3
    <2> QED
      BY <1>2, <1>7, <2>1, <2>4 DEF Leases
  <1>12. Staffed(t, n)
    BY <1>2, <1>4, <1>5, <1>7, <1>8 DEF Staffed, ThreadsOf
  <1> QED
    BY <1>7, <1>8, <1>9, <1>10, <1>11, <1>12 DEF Sound, t, r

\* close refuses what comes; what is there is for failAll.
LEMMA ClosedSound ==
  ASSUME NEW s, NEW L, NEW Q, NEW n \in Nat, Sound(s, L, Q, n)
  PROVE  Sound([s EXCEPT !.p.closed = TRUE], L, Q, n)
  <1> DEFINE t == [s EXCEPT !.p.closed = TRUE]
  <1>1. s \in StateSet /\ s.p \in Processor
    BY HeldFacts
  <1>2. t \in StateSet
    BY <1>1 DEF StateSet, Processor
  <1>3. /\ t.p.jobs = s.p.jobs /\ t.p.active = s.p.active /\ t.p.bytes = s.p.bytes
        /\ t.p.doomed = s.p.doomed /\ t.pool = s.pool /\ t.leased = s.leased /\ t.answer = s.answer
    BY <1>1 DEF StateSet, Processor
  <1>4. t.p.worker = s.p.worker /\ t.p.dying = s.p.dying
    BY <1>1 DEF StateSet, Processor
  <1> HIDE DEF t
  <1> QED
    BY <1>2, <1>3, <1>4
       DEF Sound, Charged, ProcessorIsSound, Leases, Held, Staffed, ThreadsOf, t

---------------------------------------------------------------------------
(* From the pool to one processor and back.                                *)

ProcessorInv == PoolInv /\ NothingStranded

Others(p)  == UNION {Held(proc[q]) : q \in Processors \ {p}}
Waiting(p) == UNION {Range(proc[q].jobs) : q \in Processors \ {p}}
Crew(p)    == Cardinality(Threads \ {p})

\* What one processor sees of the invariant.
LEMMA LocalView ==
  ASSUME ProcessorInv, NEW p \in Processors
  PROVE  /\ Sound(State(p), Others(p), Waiting(p), Crew(p)) /\ Ready(proc[p])
         /\ Crew(p) \in Nat
         /\ State(p).p = proc[p] /\ State(p).answer = answer /\ State(p).pool = pool
  <1> DEFINE s == State(p)
  <1>1. PoolTypeOK /\ PoolIsExact /\ NothingStranded
    BY DEF ProcessorInv, PoolInv
  <1>2. s.p = proc[p] /\ s.answer = answer /\ s.pool = pool /\ s.leased = leased
    BY DEF State
  <1>3. s \in StateSet
    BY <1>1 DEF State, StateSet, PoolTypeOK, Gauges, Answers
  <1> HIDE DEF s
  <1>4. Charged(s)
    BY <1>1, <1>2, <1>3 DEF PoolIsExact, Charged
  <1>5. ProcessorIsSound(s.p) /\ Ready(proc[p])
    BY <1>1, <1>2 DEF PoolIsExact, NothingStranded, Ready
  <1>6. Leases(s, Others(p), Waiting(p))
    <2>1. leased = Held(proc[p]) \cup Others(p)
      BY <1>1 DEF PoolIsExact, Others
    <2>2. Held(proc[p]) \cap Others(p) = {}
      BY <1>1 DEF PoolIsExact, Others
    <2>3. Waiting(p) \subseteq Others(p)
      BY DEF Waiting, Others, Held
    <2>4. \A j \in Jobs : answer[j] = "pending" <=> j \in Range(proc[p].jobs) \/ j \in Waiting(p)
      BY <1>1 DEF NothingStranded, Waiting
    <2>5. \A j \in leased : answer[j] # "new"
      BY <1>1 DEF PoolIsExact
    <2> QED
      BY <1>2, <2>1, <2>2, <2>3, <2>4, <2>5 DEF Leases
  <1>7. Staffed(s, Crew(p)) /\ Crew(p) \in Nat
    <2>1. IsFiniteSet(Threads) /\ pool.workers = Cardinality(Threads) /\ pool.workers <= PoolWorkers
      BY <1>1 DEF PoolIsExact
    <2>2. /\ IsFiniteSet(Threads \ {p}) /\ Crew(p) \in Nat
          /\ Crew(p) = IF p \in Threads THEN Cardinality(Threads) - 1 ELSE Cardinality(Threads)
          /\ Cardinality(Threads) \in Nat
      <3>1. /\ IsFiniteSet(Threads \ {p})
            /\ Cardinality(Threads \ {p}) = IF p \in Threads THEN Cardinality(Threads) - 1
                                            ELSE Cardinality(Threads)
        BY <2>1, FS_RemoveElement
      <3>2. Cardinality(Threads \ {p}) \in Nat /\ Cardinality(Threads) \in Nat
        BY <2>1, <3>1, FS_CardinalityType
      <3> QED
        BY <3>1, <3>2 DEF Crew
    <2>3. p \in Threads <=> proc[p].worker \/ proc[p].dying
      BY DEF Threads
    <2> QED
      BY <1>2, <2>1, <2>2, <2>3 DEF Staffed, ThreadsOf
  <1> QED
    BY <1>2, <1>4, <1>5, <1>6, <1>7 DEF Sound, s

\* A sound state of one processor, put back, keeps the invariant of all.
LEMMA Back ==
  ASSUME ProcessorInv, NEW p \in Processors, NEW t, Becomes(p, t),
         Sound(t, Others(p), Waiting(p), Crew(p)), Ready(t.p)
  PROVE  ProcessorInv'
  <1>1. PoolTypeOK /\ PoolIsExact /\ NothingStranded
    BY DEF ProcessorInv, PoolInv
  <1>2. t \in StateSet /\ Charged(t) /\ ProcessorIsSound(t.p) /\ Leases(t, Others(p), Waiting(p))
        /\ Staffed(t, Crew(p))
    BY DEF Sound, Charged
  <1>3. /\ proc' = [proc EXCEPT ![p] = t.p]
        /\ pool' = t.pool /\ leased' = t.leased /\ answer' = t.answer
    BY DEF Becomes
  <1>4. /\ t.p \in Processor /\ t.pool \in Gauges /\ t.leased \in SUBSET Jobs
        /\ t.answer \in [Jobs -> Answers]
    BY <1>2 DEF StateSet
  <1>5. proc \in [Processors -> Processor]
    BY <1>1 DEF PoolTypeOK
  <1>6. /\ proc' \in [Processors -> Processor] /\ proc'[p] = t.p
        /\ \A q \in Processors : q # p => proc'[q] = proc[q]
    BY <1>3, <1>4, <1>5
  <1>7. PoolTypeOK'
    BY <1>3, <1>4, <1>6 DEF PoolTypeOK, Gauges, Answers
  <1>8. PoolIsExact'
    <2>1. \A q \in Processors : ProcessorIsSound(proc'[q])
      BY <1>1, <1>2, <1>6 DEF PoolIsExact
    <2>2. \A q \in Processors : q # p => Held(proc'[q]) = Held(proc[q])
      BY <1>6
    <2>3. Held(proc'[p]) = Held(t.p)
      BY <1>6
    <2>4. leased' = Held(t.p) \cup Others(p) /\ Held(t.p) \cap Others(p) = {}
      BY <1>2, <1>3 DEF Leases
    <2>5. \A q1, q2 \in Processors : q1 # q2 => Held(proc'[q1]) \cap Held(proc'[q2]) = {}
      <3>1. \A q \in Processors : q # p => Held(proc[q]) \cap Held(t.p) = {}
        BY <2>4 DEF Others
      <3>2. \A q1, q2 \in Processors : q1 # q2 => Held(proc[q1]) \cap Held(proc[q2]) = {}
        BY <1>1 DEF PoolIsExact
      <3> QED
        BY <2>2, <2>3, <3>1, <3>2
    <2>6. leased' = UNION {Held(proc'[q]) : q \in Processors}
      BY <2>2, <2>3, <2>4 DEF Others
    <2>7. /\ IsFiniteSet(leased') /\ \A j \in leased' : answer'[j] # "new"
          /\ pool'.jobs = Cardinality(leased') /\ pool'.jobs <= PoolJobs
          /\ pool'.bytes = BytesOf(leased') /\ pool'.bytes <= PoolBytes
      BY <1>2, <1>3 DEF Charged, Leases
    <2>8. /\ IsFiniteSet(Threads')
          /\ pool'.workers = Cardinality(Threads') /\ pool'.workers <= PoolWorkers
      <3> DEFINE C == Threads \ {p}
      <3>1. IsFiniteSet(C)
        BY <1>1, FS_RemoveElement DEF PoolIsExact
      <3>2. Threads' = IF t.p.worker \/ t.p.dying THEN C \cup {p} ELSE C
        BY <1>6 DEF Threads
      <3>3. p \notin C /\ Crew(p) = Cardinality(C)
        BY DEF Crew
      <3> HIDE DEF C
      <3>4. IsFiniteSet(C \cup {p}) /\ Cardinality(C \cup {p}) = Cardinality(C) + 1
        BY <3>1, <3>3, FS_AddElement
      <3>5. Cardinality(C) \in Nat
        BY <3>1, FS_CardinalityType
      <3>6. pool'.workers = Crew(p) + (IF t.p.worker \/ t.p.dying THEN 1 ELSE 0)
            /\ pool'.workers <= PoolWorkers
        BY <1>2, <1>3 DEF Staffed, ThreadsOf
      <3> QED
        BY <3>1, <3>2, <3>3, <3>4, <3>5, <3>6
    <2> QED
      BY <2>1, <2>5, <2>6, <2>7, <2>8 DEF PoolIsExact
  <1>9. NothingStranded'
    <2>1. \A q \in Processors : Ready(proc'[q])
      BY <1>1, <1>6 DEF NothingStranded, Ready
    <2>2. \A j \in Jobs : answer'[j] = "pending" <=> j \in Range(t.p.jobs) \/ j \in Waiting(p)
      BY <1>2, <1>3 DEF Leases
    <2>3. \A j \in Jobs : j \in Waiting(p) <=> \E q \in Processors : q # p /\ j \in Range(proc'[q].jobs)
      BY <1>6 DEF Waiting
    <2>4. \A j \in Jobs : answer'[j] = "pending" <=> \E q \in Processors : j \in Range(proc'[q].jobs)
      BY <1>6, <2>2, <2>3
    <2> QED
      BY <2>1, <2>4 DEF NothingStranded, Ready
  <1> QED
    BY <1>7, <1>8, <1>9 DEF ProcessorInv, PoolInv

\* The processors start inside the invariant.
LEMMA PoolInitInv == PoolInit => ProcessorInv
  <1> SUFFICES ASSUME PoolInit PROVE ProcessorInv
    OBVIOUS
  <1>1. /\ leased = {} /\ answer = [j \in Jobs |-> "new"]
        /\ pool = [jobs |-> 0, bytes |-> 0, workers |-> 0]
    BY DEF PoolInit
  <1>2. ASSUME NEW p \in Processors
        PROVE  /\ proc[p].jobs = <<>> /\ proc[p].bytes = 0 /\ proc[p].active = NoJob
               /\ proc[p].doomed = NoJob /\ ~proc[p].worker /\ ~proc[p].dying
               /\ proc[p] \in Processor
    <2>1. <<>> \in Seq(Jobs)
      OBVIOUS
    <2>2. PICK q \in Seq(Jobs) : q = <<>>
      BY <2>1
    <2>3. proc[p] = [jobs |-> q, active |-> NoJob, bytes |-> 0, worker |-> FALSE,
                     dying |-> FALSE, doomed |-> NoJob, closed |-> FALSE]
      BY <2>2 DEF PoolInit
    <2> QED
      BY <2>2, <2>3 DEF Processor
  <1>3. proc \in [Processors -> Processor]
    <2>1. proc = [p \in Processors |-> proc[p]]
      BY DEF PoolInit
    <2> QED
      BY <1>2, <2>1
  <1>4. PoolTypeOK
    BY <1>1, <1>3 DEF PoolTypeOK
  <1>5. \A q : q = <<>> => Range(q) = {} /\ IsInjective(q) /\ Len(q) = 0
    BY DEF Range, IsInjective
  <1>6. \A p \in Processors : Range(proc[p].jobs) = {} /\ Held(proc[p]) = {}
    BY <1>2, <1>5 DEF Held
  <1>7. BytesOf({}) = 0 /\ Cardinality({}) = 0 /\ IsFiniteSet({}) /\ Threads = {}
    BY <1>2, BytesOfOne, FS_EmptySet DEF Threads
  <1>8. {MaxJobs, MaxBytes, PoolJobs, PoolBytes, PoolWorkers} \subseteq Nat
    BY ProcessorAssumption
  <1>9. PoolIsExact
    <2>1. \A p \in Processors : ProcessorIsSound(proc[p])
      <3> SUFFICES ASSUME NEW p \in Processors PROVE ProcessorIsSound(proc[p])
        OBVIOUS
      <3>1. IsInjective(proc[p].jobs) /\ Len(proc[p].jobs) = 0 /\ Range(proc[p].jobs) = {}
        BY <1>2, <1>5
      <3>2. 0 <= MaxJobs /\ 0 <= MaxBytes
        BY <1>8
      <3>3. proc[p].bytes = BytesOf({})
        BY <1>2, <1>7
      <3> QED
        BY <1>2, <3>1, <3>2, <3>3 DEF ProcessorIsSound
    <2>2. leased = UNION {Held(proc[p]) : p \in Processors}
      BY <1>1, <1>6
    <2>3. pool.jobs = 0 /\ pool.bytes = 0 /\ pool.workers = 0
      BY <1>1
    <2> QED
      BY <1>1, <1>6, <1>7, <1>8, <2>1, <2>2, <2>3 DEF PoolIsExact
  <1>10. NothingStranded
    BY <1>1, <1>2, <1>6 DEF NothingStranded
  <1> QED
    BY <1>4, <1>9, <1>10 DEF ProcessorInv, PoolInv

\* Every step keeps the invariant: one step per action.
LEMMA PoolNextKeeps == ASSUME ProcessorInv, [PoolNext]_poolVars PROVE ProcessorInv'
  <1>1. ASSUME NEW p \in Processors, NEW j \in Jobs, Submit(p, j) PROVE ProcessorInv'
    <2> DEFINE s == [State(p) EXCEPT !.p.jobs = Append(@, j), !.p.bytes = @ + Bytes[j],
                                     !.pool.jobs = @ + 1, !.pool.bytes = @ + Bytes[j],
                                     !.leased = @ \cup {j}, !.answer[j] = "pending"]
    <2>1. /\ Sound(State(p), Others(p), Waiting(p), Crew(p)) /\ Crew(p) \in Nat
          /\ State(p).p = proc[p] /\ State(p).answer = answer /\ State(p).pool = pool
      BY <1>1, LocalView
    <2>2. State(p).answer[j] = "new" /\ Fitting(State(p), j) /\ ~State(p).p.closed
      BY <1>1, <2>1 DEF Submit, Fits, Fitting
    <2>3. PICK t \in Pump(s) : Becomes(p, t)
      BY <1>1 DEF Submit
    <2>4. Sound(s, Others(p), Waiting(p), Crew(p)) /\ s.p.closed = State(p).p.closed
      BY <1>1, <2>1, <2>2, AcceptSound
    <2> HIDE DEF s
    <2>5. Sound(t, Others(p), Waiting(p), Crew(p)) /\ Ready(t.p)
      BY <2>1, <2>2, <2>4, PumpSound
    <2> QED
      BY <1>1, <2>3, <2>5, Back
  <1>2. ASSUME NEW p \in Processors, NEW j \in Jobs, Refuse(p, j) PROVE ProcessorInv'
    <2>1. PICK how \in Failure : answer' = [answer EXCEPT ![j] = how]
      BY <1>2 DEF Refuse
    <2>2. answer[j] = "new" /\ UNCHANGED <<proc, pool, leased>> /\ how # "new" /\ how # "pending"
      BY <1>2 DEF Refuse, Failure
    <2>3. PoolTypeOK /\ PoolIsExact /\ NothingStranded
      BY DEF ProcessorInv, PoolInv
    <2>4. /\ PoolTypeOK' /\ \A i \in Jobs : answer'[i] = IF i = j THEN how ELSE answer[i]
      BY <2>1, <2>2, <2>3 DEF PoolTypeOK
    <2>5. PoolIsExact'
      <3>1. \A i \in leased : i \in Jobs /\ answer'[i] # "new"
        BY <2>2, <2>3, <2>4 DEF PoolIsExact, PoolTypeOK
      <3>2. Threads' = Threads
        BY <2>2 DEF Threads
      <3> QED
        BY <2>2, <2>3, <3>1, <3>2 DEF PoolIsExact
    <2>6. NothingStranded'
      BY <2>2, <2>3, <2>4 DEF NothingStranded
    <2> QED
      BY <2>4, <2>5, <2>6 DEF ProcessorInv, PoolInv
  <1>3. ASSUME NEW p \in Processors, NEW how \in {"ok", "worker_error"}, Message(p, how)
        PROVE  ProcessorInv'
    <2> DEFINE j == State(p).p.active
               s == [Settle(Release(State(p), {j}), {j}, how) EXCEPT
                        !.p.jobs = Without(@, j), !.p.bytes = @ - Bytes[j], !.p.active = NoJob]
    <2>1. /\ Sound(State(p), Others(p), Waiting(p), Crew(p)) /\ Crew(p) \in Nat
          /\ State(p).p = proc[p] /\ Ready(proc[p])
      BY <1>3, LocalView
    <2>2. State(p).p.active # NoJob
      BY <1>3, <2>1 DEF Message
    <2>3. PICK t \in Pump(s) : Becomes(p, t)
      BY <1>3, <2>1 DEF Message
    <2>4. Sound(s, Others(p), Waiting(p), Crew(p)) /\ s.p.closed = State(p).p.closed
      BY <2>1, <2>2, AnswerSound
    <2>5. ~State(p).p.closed
      BY <2>1, <2>2 DEF Sound, ProcessorIsSound, Ready
    <2> HIDE DEF s
    <2>6. Sound(t, Others(p), Waiting(p), Crew(p)) /\ Ready(t.p)
      BY <2>1, <2>4, <2>5, PumpSound
    <2> QED
      BY <1>3, <2>3, <2>6, Back
  <1>4. ASSUME NEW p \in Processors, NEW how \in Failure, Becomes(p, FailAll(State(p), how))
        PROVE  ProcessorInv'
    <2>1. Sound(State(p), Others(p), Waiting(p), Crew(p)) /\ Crew(p) \in Nat
      BY <1>4, LocalView
    <2>2. Sound(FailAll(State(p), how), Others(p), Waiting(p), Crew(p)) /\ Ready(FailAll(State(p), how).p)
      BY <2>1, FailAllSound
    <2> QED
      BY <1>4, <2>2, Back
  <1>5. ASSUME NEW p \in Processors, WorkerDies(p) \/ Timeout(p) PROVE ProcessorInv'
    <2>1. "worker_error" \in Failure /\ "timeout" \in Failure
      BY DEF Failure
    <2> QED
      BY <1>4, <1>5, <2>1 DEF WorkerDies, Timeout
  <1>6. ASSUME NEW p \in Processors, Finished(p) PROVE ProcessorInv'
    <2> DEFINE s == [Release(State(p), {State(p).p.doomed}) EXCEPT
                        !.p.dying = FALSE, !.p.doomed = NoJob, !.pool.workers = @ - 1]
    <2>1. /\ Sound(State(p), Others(p), Waiting(p), Crew(p)) /\ Crew(p) \in Nat
          /\ State(p).p = proc[p] /\ Ready(proc[p])
      BY <1>6, LocalView
    <2>2. State(p).p.dying
      BY <1>6, <2>1 DEF Finished
    <2>3. PICK t \in Pump(s) : Becomes(p, t)
      BY <1>6 DEF Finished
    <2>4. /\ Sound(s, Others(p), Waiting(p), Crew(p))
          /\ s.p.closed = State(p).p.closed /\ s.p.jobs = State(p).p.jobs
      BY <2>1, <2>2, EndSound
    <2> HIDE DEF s
    <2>5. s.p.closed => s.p.jobs = <<>>
      BY <2>1, <2>4 DEF Ready
    <2>6. Sound(t, Others(p), Waiting(p), Crew(p)) /\ Ready(t.p)
      BY <2>1, <2>4, <2>5, PumpSound
    <2> QED
      BY <1>6, <2>3, <2>6, Back
  <1>7. ASSUME NEW p \in Processors, Close(p) PROVE ProcessorInv'
    <2> DEFINE s == [State(p) EXCEPT !.p.closed = TRUE]
    <2>1. Sound(State(p), Others(p), Waiting(p), Crew(p)) /\ Crew(p) \in Nat
      BY <1>7, LocalView
    <2>2. Sound(s, Others(p), Waiting(p), Crew(p)) /\ "closed" \in Failure
      BY <2>1, ClosedSound DEF Failure
    <2>3. Becomes(p, FailAll(s, "closed"))
      BY <1>7 DEF Close
    <2> HIDE DEF s
    <2>4. Sound(FailAll(s, "closed"), Others(p), Waiting(p), Crew(p)) /\ Ready(FailAll(s, "closed").p)
      BY <2>1, <2>2, FailAllSound
    <2> QED
      BY <1>7, <2>3, <2>4, Back
  <1>8. CASE UNCHANGED poolVars
    <2>1. UNCHANGED <<proc, pool, leased, answer>>
      BY <1>8 DEF poolVars
    <2> QED
      BY <2>1 DEF ProcessorInv, PoolInv, PoolTypeOK, PoolIsExact, Threads, NothingStranded
  <1> QED
    BY <1>1, <1>2, <1>3, <1>5, <1>6, <1>7, <1>8 DEF PoolNext

\* The pool charges exactly what is in memory, whatever fails, and never more
\* than its limits, for any number of processors and any jobs.
THEOREM PoolStaysExact == PoolSpec => []PoolInv
  <1>1. ProcessorInv => PoolInv
    BY DEF ProcessorInv
  <1> QED
    BY PoolInitInv, PoolNextKeeps, <1>1, PTL DEF PoolSpec

\* No job waits for nothing: whatever order the worker's events, timers and ends
\* of termination come in, a processor with jobs works or awaits an end.
THEOREM NothingIsStranded == PoolSpec => []NothingStranded
  <1>1. ProcessorInv => NothingStranded
    BY DEF ProcessorInv
  <1> QED
    BY PoolInitInv, PoolNextKeeps, <1>1, PTL DEF PoolSpec
===========================================================================
