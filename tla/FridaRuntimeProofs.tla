------------------------- MODULE FridaRuntimeProofs -------------------------
(***************************************************************************)
(* The safety of FridaRuntime for every set of runs, and that it           *)
(* implements MonitorLease.                                                *)
(***************************************************************************)
EXTENDS FridaRuntime, TLAPS

\* The runtime starts inside the invariant.
LEMMA InitInv == Init => FridaInv
  <1> SUFFICES ASSUME Init PROVE FridaInv
    OBVIOUS
  <1>1. rows \in [Runs -> 0..MaxRows]
    BY FridaAssumption DEF Init
  <1>2. TypeOK
    BY <1>1, FridaAssumption DEF Init, TypeOK
  <1> QED
    BY <1>2, FridaAssumption DEF Init, FridaInv, StatusShape, RunShape, InFlight, Attached

\* Every step preserves the invariant: one step per action, then per part.
LEMMA NextKeeps == ASSUME FridaInv, [Next]_vars PROVE FridaInv'
  <1>1. ASSUME NEW r \in Runs, Start(r) PROVE FridaInv'
    <2>1. TypeOK'
      BY <1>1, FridaAssumption DEF FridaInv, TypeOK, InFlight, Attached, Start
    <2>2. StatusShape'
      BY <1>1, FridaAssumption DEF FridaInv, TypeOK, StatusShape, RunShape, InFlight, Attached, Start
    <2>3. RunShape'
      BY <1>1, FridaAssumption DEF FridaInv, TypeOK, StatusShape, RunShape, InFlight, Attached, Start
    <2> QED
      BY <2>1, <2>2, <2>3 DEF FridaInv
  <1>2. ASSUME NEW r \in Runs, Discovered(r) PROVE FridaInv'
    <2>1. TypeOK'
      BY <1>2, FridaAssumption DEF FridaInv, TypeOK, InFlight, Attached, Discovered
    <2>2. StatusShape'
      BY <1>2, FridaAssumption DEF FridaInv, TypeOK, StatusShape, RunShape, InFlight, Attached, Discovered
    <2>3. RunShape'
      BY <1>2, FridaAssumption DEF FridaInv, TypeOK, StatusShape, RunShape, InFlight, Attached, Discovered
    <2> QED
      BY <2>1, <2>2, <2>3 DEF FridaInv
  <1>3. ASSUME NEW r \in Runs, Validated(r) PROVE FridaInv'
    <2>1. TypeOK'
      BY <1>3, FridaAssumption DEF FridaInv, TypeOK, InFlight, Attached, Validated
    <2>2. StatusShape'
      BY <1>3, FridaAssumption DEF FridaInv, TypeOK, StatusShape, RunShape, InFlight, Attached, Validated
    <2>3. RunShape'
      BY <1>3, FridaAssumption DEF FridaInv, TypeOK, StatusShape, RunShape, InFlight, Attached, Validated
    <2> QED
      BY <2>1, <2>2, <2>3 DEF FridaInv
  <1>4. ASSUME NEW r \in Runs, BootFails(r) PROVE FridaInv'
    <2>1. TypeOK'
      BY <1>4, FridaAssumption DEF FridaInv, TypeOK, InFlight, Attached, BootFails
    <2>2. StatusShape'
      BY <1>4, FridaAssumption DEF FridaInv, TypeOK, StatusShape, RunShape, InFlight, Attached, BootFails
    <2>3. RunShape'
      BY <1>4, FridaAssumption DEF FridaInv, TypeOK, StatusShape, RunShape, InFlight, Attached, BootFails
    <2> QED
      BY <2>1, <2>2, <2>3 DEF FridaInv
  <1>5. ASSUME NEW r \in Runs, Spawned(r) PROVE FridaInv'
    <2>1. TypeOK'
      BY <1>5, FridaAssumption DEF FridaInv, TypeOK, InFlight, Attached, Spawned
    <2>2. StatusShape'
      BY <1>5, FridaAssumption DEF FridaInv, TypeOK, StatusShape, RunShape, InFlight, Attached, Spawned
    <2>3. RunShape'
      BY <1>5, FridaAssumption DEF FridaInv, TypeOK, StatusShape, RunShape, InFlight, Attached, Spawned
    <2> QED
      BY <2>1, <2>2, <2>3 DEF FridaInv
  <1>6. ASSUME NEW r \in Runs, Fail(r) PROVE FridaInv'
    <2>1. TypeOK'
      BY <1>6, FridaAssumption DEF FridaInv, TypeOK, InFlight, Attached, Fail
    <2>2. StatusShape'
      BY <1>6, FridaAssumption DEF FridaInv, TypeOK, StatusShape, RunShape, InFlight, Attached, Fail
    <2>3. RunShape'
      BY <1>6, FridaAssumption DEF FridaInv, TypeOK, StatusShape, RunShape, InFlight, Attached, Fail
    <2> QED
      BY <2>1, <2>2, <2>3 DEF FridaInv
  <1>7. ASSUME NEW r \in Runs, Store(r) PROVE FridaInv'
    <2>1. TypeOK'
      BY <1>7, FridaAssumption DEF FridaInv, TypeOK, InFlight, Attached, Store
    <2>2. StatusShape'
      BY <1>7, FridaAssumption DEF FridaInv, TypeOK, StatusShape, RunShape, InFlight, Attached, Store
    <2>3. RunShape'
      BY <1>7, FridaAssumption DEF FridaInv, TypeOK, StatusShape, RunShape, InFlight, Attached, Store
    <2> QED
      BY <2>1, <2>2, <2>3 DEF FridaInv
  <1>8. ASSUME NEW r \in Runs, Close(r) PROVE FridaInv'
    <2>1. TypeOK'
      BY <1>8, FridaAssumption DEF FridaInv, TypeOK, InFlight, Attached, Close
    <2>2. StatusShape'
      BY <1>8, FridaAssumption DEF FridaInv, TypeOK, StatusShape, RunShape, InFlight, Attached, Close
    <2>3. RunShape'
      BY <1>8, FridaAssumption DEF FridaInv, TypeOK, StatusShape, RunShape, InFlight, Attached, Close
    <2> QED
      BY <2>1, <2>2, <2>3 DEF FridaInv
  <1>9. CASE Stop
    <2>1. TypeOK'
      BY <1>9, FridaAssumption DEF FridaInv, TypeOK, InFlight, Attached, Stop
    <2>2. StatusShape'
      BY <1>9, FridaAssumption DEF FridaInv, TypeOK, StatusShape, RunShape, InFlight, Attached, Stop
    <2>3. RunShape'
      BY <1>9, FridaAssumption DEF FridaInv, TypeOK, StatusShape, RunShape, InFlight, Attached, Stop
    <2> QED
      BY <2>1, <2>2, <2>3 DEF FridaInv
  <1>10. CASE StopKills
    <2>1. TypeOK'
      BY <1>10, FridaAssumption DEF FridaInv, TypeOK, InFlight, Attached, StopKills, Finished
    <2>2. StatusShape'
      BY <1>10, FridaAssumption DEF FridaInv, TypeOK, StatusShape, RunShape, InFlight, Attached, StopKills, Finished
    <2>3. RunShape'
      BY <1>10, FridaAssumption DEF FridaInv, TypeOK, StatusShape, RunShape, InFlight, Attached, StopKills, Finished
    <2> QED
      BY <2>1, <2>2, <2>3 DEF FridaInv
  <1>11. CASE KillFails
    <2>1. TypeOK'
      BY <1>11, FridaAssumption DEF FridaInv, TypeOK, InFlight, Attached, KillFails
    <2>2. StatusShape'
      BY <1>11, FridaAssumption DEF FridaInv, TypeOK, StatusShape, RunShape, InFlight, Attached, KillFails
    <2>3. RunShape'
      BY <1>11, FridaAssumption DEF FridaInv, TypeOK, StatusShape, RunShape, InFlight, Attached, KillFails
    <2> QED
      BY <2>1, <2>2, <2>3 DEF FridaInv
  <1>12. CASE StopDone
    <2>1. TypeOK'
      BY <1>12, FridaAssumption DEF FridaInv, TypeOK, InFlight, Attached, StopDone, Finished
    <2>2. StatusShape'
      BY <1>12, FridaAssumption DEF FridaInv, TypeOK, StatusShape, RunShape, InFlight, Attached, StopDone, Finished
    <2>3. RunShape'
      BY <1>12, FridaAssumption DEF FridaInv, TypeOK, StatusShape, RunShape, InFlight, Attached, StopDone, Finished
    <2> QED
      BY <2>1, <2>2, <2>3 DEF FridaInv
  <1>13. CASE StopTimeout
    <2>1. TypeOK'
      BY <1>13, FridaAssumption DEF FridaInv, TypeOK, InFlight, Attached, StopTimeout
    <2>2. StatusShape'
      BY <1>13, FridaAssumption DEF FridaInv, TypeOK, StatusShape, RunShape, InFlight, Attached, StopTimeout
    <2>3. RunShape'
      BY <1>13, FridaAssumption DEF FridaInv, TypeOK, StatusShape, RunShape, InFlight, Attached, StopTimeout
    <2> QED
      BY <2>1, <2>2, <2>3 DEF FridaInv
  <1>14. CASE UNCHANGED vars
    BY <1>14 DEF vars, FridaInv, TypeOK, StatusShape, RunShape, InFlight, Attached
  <1> QED
    BY <1>1, <1>2, <1>3, <1>4, <1>5, <1>6, <1>7, <1>8, <1>9, <1>10, <1>11, <1>12, <1>13, <1>14 DEF Next, Boot, Cleaning

\* FridaInv holds in every reachable state.
THEOREM FridaInvariance == Spec => []FridaInv
  BY InitInv, NextKeeps, PTL DEF Spec

\* Late output of a process is never stored.
THEOREM LateOutputDropped == Spec => RowsWhileShown
  <1>1. FridaInv /\ [Next]_vars => [rows' # rows => running /\ shown /\ ~stopping]_vars
    <2> SUFFICES ASSUME FridaInv, Next, rows' # rows PROVE running /\ shown /\ ~stopping
      OBVIOUS
    <2>1. PICK r \in Runs : Store(r)
      BY DEF Next, Boot, Cleaning, Start, Discovered, Validated, BootFails, Spawned, Fail, Close,
             Stop, StopKills, KillFails, StopDone, StopTimeout
    <2>2. child = r /\ current = r /\ ~stopping /\ ~InFlight(r)
      BY <2>1, FridaAssumption DEF FridaInv, RunShape, Store, Attached, InFlight
    <2> QED
      BY <2>1, <2>2, FridaAssumption DEF FridaInv, TypeOK, StatusShape, RunShape, Store, Attached
  <1> QED
    BY FridaInvariance, <1>1, PTL DEF Spec, RowsWhileShown

\* Who boots or is attached, and which runs are over, as MonitorLease sees it.
Holders == {r \in Runs : InFlight(r) \/ Attached(r)}
Spent   == {r \in Runs : boot[r] = "over" /\ ~Attached(r)}

\* A start takes the lease, for a run that never held it.
LEMMA StartTakes == ASSUME FridaInv, NEW r \in Runs, Start(r) PROVE Lease!Next
  <1>1. /\ \A x \in Runs : ~InFlight(x) /\ ~Attached(x)
        /\ boot \in [Runs -> {"none", "discovering", "validating", "over"}]
    BY FridaAssumption DEF FridaInv, TypeOK, StatusShape, RunShape, Start
  <1>2. /\ boot[r] = "none" /\ process' = process
        /\ \E b \in {"discovering", "validating"} : boot' = [boot EXCEPT ![r] = b]
    BY DEF Start
  <1>3. Holders = {} /\ Holders' = {r}
    BY <1>1, <1>2 DEF Holders, InFlight, Attached
  <1>4. r \notin Spent /\ Spent' = Spent
    BY <1>1, <1>2 DEF Spent, InFlight, Attached
  <1> QED
    BY <1>3, <1>4 DEF Lease!Next, Lease!Take, Holders, Spent

\* A boot that ends without a process drops the lease.
LEMMA BootDrops ==
  ASSUME FridaInv, NEW r \in Runs, InFlight(r), boot' = [boot EXCEPT ![r] = "over"],
         UNCHANGED process
  PROVE  Lease!Next
  <1>1. \A x \in Runs : (InFlight(x) => x = r) /\ ~Attached(x)
    BY FridaAssumption DEF FridaInv, RunShape
  <1>2. boot \in [Runs -> {"none", "discovering", "validating", "over"}] /\ r # NoRun
    BY FridaAssumption DEF FridaInv, TypeOK
  <1>3. Holders = {r} /\ Holders' = {}
    BY <1>1, <1>2 DEF Holders, InFlight, Attached
  <1>4. Spent' = Spent \cup ({r} \ {NoRun})
    BY <1>1, <1>2 DEF Spent, InFlight, Attached
  <1> QED
    BY <1>3, <1>4 DEF Lease!Next, Lease!Drop, Holders, Spent

\* A process that closes drops the lease.
LEMMA CloseDrops == ASSUME FridaInv, NEW r \in Runs, Close(r) PROVE Lease!Next
  <1>1. /\ child = r /\ r # NoRun /\ boot[r] = "over"
        /\ \A x \in Runs : ~InFlight(x) /\ (Attached(x) <=> x = r)
    BY FridaAssumption DEF FridaInv, RunShape, Close, Attached
  <1>2. /\ process' = [process EXCEPT ![r] = "closed"] /\ UNCHANGED boot
        /\ process \in [Runs -> {"none", "spawning", "up", "dying", "closed"}]
    BY DEF FridaInv, TypeOK, Close
  <1>3. Holders = {r} /\ Holders' = {}
    BY <1>1, <1>2 DEF Holders, InFlight, Attached
  <1>4. Spent' = Spent \cup ({r} \ {NoRun})
    BY <1>1, <1>2 DEF Spent, Attached
  <1> QED
    BY <1>3, <1>4 DEF Lease!Next, Lease!Drop, Holders, Spent

\* The other steps leave the lease alone.
LEMMA LeaseFrame ==
  ASSUME FridaInv,
         \/ Stop \/ Cleaning \/ StopTimeout \/ UNCHANGED vars
         \/ \E r \in Runs : Spawned(r) \/ Fail(r) \/ Store(r)
         \/ \E r \in Runs : (Discovered(r) \/ Validated(r)) /\ current = r
  PROVE  UNCHANGED <<Holders, Spent>>
  <1>1. CASE UNCHANGED <<boot, process>>
    BY <1>1 DEF Holders, Spent, InFlight, Attached
  <1>2. CASE StopKills
    <2>1. CASE child = NoRun
      BY <1>1, <1>2, <2>1 DEF StopKills
    <2>2. CASE child # NoRun
      <3>1. /\ child \in Runs /\ Attached(child) /\ process' = [process EXCEPT ![child] = "dying"]
            /\ UNCHANGED boot
            /\ process \in [Runs -> {"none", "spawning", "up", "dying", "closed"}]
        BY <1>2, <2>2 DEF FridaInv, TypeOK, RunShape, StopKills
      <3>2. \A x \in Runs : Attached(x)' <=> Attached(x)
        BY <3>1 DEF Attached
      <3> QED
        BY <3>1, <3>2 DEF Holders, Spent, InFlight
    <2> QED
      BY <2>1, <2>2
  <1>3. ASSUME NEW r \in Runs, Spawned(r) \/ Fail(r) PROVE UNCHANGED <<Holders, Spent>>
    <2>1. /\ Attached(r) /\ UNCHANGED boot
          /\ \E p \in {"spawning", "up", "dying"} : process' = [process EXCEPT ![r] = p]
          /\ process \in [Runs -> {"none", "spawning", "up", "dying", "closed"}]
      BY <1>3 DEF FridaInv, TypeOK, Spawned, Fail, Attached
    <2>2. \A x \in Runs : Attached(x)' <=> Attached(x)
      BY <2>1 DEF Attached
    <2> QED
      BY <2>1, <2>2 DEF Holders, Spent, InFlight
  <1>4. ASSUME NEW r \in Runs, Discovered(r), current = r PROVE UNCHANGED <<Holders, Spent>>
    <2>1. /\ boot' = [boot EXCEPT ![r] = "validating"] /\ boot[r] = "discovering" /\ UNCHANGED process
          /\ boot \in [Runs -> {"none", "discovering", "validating", "over"}]
      BY <1>4 DEF FridaInv, TypeOK, Discovered
    <2> QED
      BY <2>1 DEF Holders, Spent, InFlight, Attached
  <1>5. ASSUME NEW r \in Runs, Validated(r), current = r PROVE UNCHANGED <<Holders, Spent>>
    <2>1. /\ boot' = [boot EXCEPT ![r] = "over"] /\ boot[r] = "validating"
          /\ process' = [process EXCEPT ![r] = "spawning"] /\ process[r] = "none"
          /\ boot \in [Runs -> {"none", "discovering", "validating", "over"}]
          /\ process \in [Runs -> {"none", "spawning", "up", "dying", "closed"}]
      BY <1>5 DEF FridaInv, TypeOK, RunShape, Validated
    <2>2. \A x \in Runs : (InFlight(x) \/ Attached(x))' <=> InFlight(x) \/ Attached(x)
      BY <2>1 DEF InFlight, Attached
    <2>3. \A x \in Runs : (boot[x] = "over" /\ ~Attached(x))' <=> boot[x] = "over" /\ ~Attached(x)
      BY <2>1 DEF Attached
    <2> QED
      BY <2>2, <2>3 DEF Holders, Spent
  <1> QED
    BY <1>1, <1>2, <1>3, <1>4, <1>5 DEF Stop, Cleaning, KillFails, StopDone, StopTimeout, Store, vars

\* FridaRuntime implements MonitorLease: one process at a time, each run once.
THEOREM ImplementsLease == Spec => FridaLease
  <1>1. Init => Lease!Init
    BY DEF Init, Lease!Init, InFlight, Attached
  <1>2. ASSUME FridaInv, [Next]_vars PROVE Lease!Next \/ UNCHANGED <<Holders, Spent>>
    <2>1. ASSUME NEW r \in Runs, Discovered(r) \/ Validated(r), current # r PROVE Lease!Next
      BY <1>2, <2>1, BootDrops DEF Discovered, Validated, InFlight
    <2>2. ASSUME NEW r \in Runs, BootFails(r) PROVE Lease!Next
      BY <1>2, <2>2, BootDrops DEF BootFails
    <2> QED
      BY <1>2, <2>1, <2>2, StartTakes, CloseDrops, LeaseFrame DEF Next, Boot
  <1>3. FridaInv /\ [Next]_vars => [Lease!Next]_<<
            {r \in Runs : InFlight(r) \/ Attached(r)},
            {r \in Runs : boot[r] = "over" /\ ~Attached(r)}>>
    BY <1>2 DEF Holders, Spent
  <1> QED
    BY FridaInvariance, <1>1, <1>3, PTL DEF FridaLease, Lease!Spec, Spec
===========================================================================
