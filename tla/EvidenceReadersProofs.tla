------------------------ MODULE EvidenceReadersProofs ------------------------
(***************************************************************************)
(* The safety of EvidenceReaders for every set of captures: analyses,      *)
(* leases and shutdown, and that only fresh evidence is answered.          *)
(***************************************************************************)
EXTENDS EvidenceReaders, TLAPS

\* The readers start inside the invariant.
LEMMA InitInv == Init => EvidenceInv
  <1> SUFFICES ASSUME Init PROVE EvidenceInv
    OBVIOUS
  <1>1. TypeOK
    BY EvidenceAssumption DEF Init, TypeOK, Idle, IdleRead
  <1> QED
    BY <1>1, EvidenceAssumption DEF Init, EvidenceInv, AnalysisIsFounded, FilesFollowJobs,
       LeasesAreReturned, DrainedIsIdle, WorkHasSource, Idle, IdleRead

\* Every step preserves the invariant: one step per action, then per part.
LEMMA NextKeeps == ASSUME EvidenceInv, [Next]_vars PROVE EvidenceInv'
  <1> USE EvidenceAssumption
  <1>1. ASSUME NEW c \in Captures, Register(c) PROVE EvidenceInv'
    <2>1. TypeOK'
      BY <1>1 DEF EvidenceInv, TypeOK, Register, capture
    <2>2. AnalysisIsFounded'
      BY <1>1 DEF EvidenceInv, TypeOK, AnalysisIsFounded, FilesFollowJobs, DrainedIsIdle,
           Readable, Register, capture
    <2>3. FilesFollowJobs'
      BY <1>1 DEF EvidenceInv, TypeOK, FilesFollowJobs, Register, capture
    <2>4. LeasesAreReturned'
      BY <1>1 DEF EvidenceInv, TypeOK, LeasesAreReturned, Register, capture
    <2>5. DrainedIsIdle'
      BY <1>1 DEF EvidenceInv, TypeOK, DrainedIsIdle, Register, capture
    <2>6. WorkHasSource'
      BY <1>1 DEF EvidenceInv, TypeOK, WorkHasSource, Register, capture
    <2> QED
      BY <2>1, <2>2, <2>3, <2>4, <2>5, <2>6 DEF EvidenceInv
  <1>2. ASSUME NEW c \in Captures, Commit(c) PROVE EvidenceInv'
    <2>1. TypeOK'
      BY <1>2 DEF EvidenceInv, TypeOK, Commit, capture
    <2>2. AnalysisIsFounded'
      BY <1>2 DEF EvidenceInv, TypeOK, AnalysisIsFounded, FilesFollowJobs, DrainedIsIdle,
           Readable, Commit, capture
    <2>3. FilesFollowJobs'
      BY <1>2 DEF EvidenceInv, TypeOK, FilesFollowJobs, Commit, capture
    <2>4. LeasesAreReturned'
      BY <1>2 DEF EvidenceInv, TypeOK, LeasesAreReturned, Commit, capture
    <2>5. DrainedIsIdle'
      BY <1>2 DEF EvidenceInv, TypeOK, DrainedIsIdle, Commit, capture
    <2>6. WorkHasSource'
      BY <1>2 DEF EvidenceInv, TypeOK, WorkHasSource, Commit, capture
    <2> QED
      BY <2>1, <2>2, <2>3, <2>4, <2>5, <2>6 DEF EvidenceInv
  <1>3. ASSUME NEW c \in Captures, Unregister(c) PROVE EvidenceInv'
    <2>1. TypeOK'
      BY <1>3 DEF EvidenceInv, TypeOK, Unregister, capture
    <2>2. AnalysisIsFounded'
      BY <1>3 DEF EvidenceInv, TypeOK, AnalysisIsFounded, FilesFollowJobs, DrainedIsIdle,
           Readable, Unregister, capture
    <2>3. FilesFollowJobs'
      BY <1>3 DEF EvidenceInv, TypeOK, FilesFollowJobs, Unregister, capture
    <2>4. LeasesAreReturned'
      BY <1>3 DEF EvidenceInv, TypeOK, LeasesAreReturned, Unregister, capture
    <2>5. DrainedIsIdle'
      BY <1>3 DEF EvidenceInv, TypeOK, DrainedIsIdle, Unregister, capture
    <2>6. WorkHasSource'
      BY <1>3 DEF EvidenceInv, TypeOK, WorkHasSource, Unregister, capture
    <2> QED
      BY <2>1, <2>2, <2>3, <2>4, <2>5, <2>6 DEF EvidenceInv
  <1>4. ASSUME NEW c \in Captures, RequestDeletion(c) PROVE EvidenceInv'
    <2>1. TypeOK'
      BY <1>4 DEF EvidenceInv, TypeOK, RequestDeletion, capture
    <2>2. AnalysisIsFounded'
      BY <1>4 DEF EvidenceInv, TypeOK, AnalysisIsFounded, FilesFollowJobs, DrainedIsIdle,
           Readable, RequestDeletion, capture
    <2>3. FilesFollowJobs'
      BY <1>4 DEF EvidenceInv, TypeOK, FilesFollowJobs, RequestDeletion, capture
    <2>4. LeasesAreReturned'
      BY <1>4 DEF EvidenceInv, TypeOK, LeasesAreReturned, RequestDeletion, capture
    <2>5. DrainedIsIdle'
      BY <1>4 DEF EvidenceInv, TypeOK, DrainedIsIdle, RequestDeletion, capture
    <2>6. WorkHasSource'
      BY <1>4 DEF EvidenceInv, TypeOK, WorkHasSource, RequestDeletion, capture
    <2> QED
      BY <2>1, <2>2, <2>3, <2>4, <2>5, <2>6 DEF EvidenceInv
  <1>5. ASSUME NEW c \in Captures, NEW by \in {"id", "request"}, Inspect(c, by) PROVE EvidenceInv'
    <2>1. TypeOK'
      BY <1>5 DEF EvidenceInv, TypeOK, Inspect, Source, Readable, capture
    <2>2. AnalysisIsFounded'
      BY <1>5 DEF EvidenceInv, TypeOK, AnalysisIsFounded, FilesFollowJobs, DrainedIsIdle,
           Inspect, Source, Readable, capture
    <2>3. FilesFollowJobs'
      BY <1>5 DEF EvidenceInv, TypeOK, FilesFollowJobs, Inspect, Source, Readable, capture
    <2>4. LeasesAreReturned'
      BY <1>5 DEF EvidenceInv, TypeOK, LeasesAreReturned, Inspect, Source, Readable, capture
    <2>5. DrainedIsIdle'
      BY <1>5 DEF EvidenceInv, TypeOK, DrainedIsIdle, Inspect, Source, Readable, capture
    <2>6. WorkHasSource'
      BY <1>5 DEF EvidenceInv, TypeOK, WorkHasSource, Inspect, Source, Readable, capture
    <2> QED
      BY <2>1, <2>2, <2>3, <2>4, <2>5, <2>6 DEF EvidenceInv
  <1>6. ASSUME NEW c \in Captures, Reparse(c) PROVE EvidenceInv'
    <2>1. TypeOK'
      BY <1>6 DEF EvidenceInv, TypeOK, Reparse, Readable, capture
    <2>2. AnalysisIsFounded'
      BY <1>6 DEF EvidenceInv, TypeOK, AnalysisIsFounded, FilesFollowJobs, DrainedIsIdle,
           Reparse, Readable, capture
    <2>3. FilesFollowJobs'
      BY <1>6 DEF EvidenceInv, TypeOK, FilesFollowJobs, Reparse, Readable, capture
    <2>4. LeasesAreReturned'
      BY <1>6 DEF EvidenceInv, TypeOK, LeasesAreReturned, Reparse, Readable, capture
    <2>5. DrainedIsIdle'
      BY <1>6 DEF EvidenceInv, TypeOK, DrainedIsIdle, Reparse, Readable, capture
    <2>6. WorkHasSource'
      BY <1>6 DEF EvidenceInv, TypeOK, WorkHasSource, Reparse, Readable, capture
    <2> QED
      BY <2>1, <2>2, <2>3, <2>4, <2>5, <2>6 DEF EvidenceInv
  <1>7. ASSUME NEW c \in Captures, Resume(c) PROVE EvidenceInv'
    <2>1. TypeOK'
      BY <1>7 DEF EvidenceInv, TypeOK, Resume, capture
    <2>2. AnalysisIsFounded'
      BY <1>7 DEF EvidenceInv, TypeOK, AnalysisIsFounded, FilesFollowJobs, DrainedIsIdle,
           Readable, Resume, capture
    <2>3. FilesFollowJobs'
      BY <1>7 DEF EvidenceInv, TypeOK, FilesFollowJobs, Resume, capture
    <2>4. LeasesAreReturned'
      BY <1>7 DEF EvidenceInv, TypeOK, LeasesAreReturned, Resume, capture
    <2>5. DrainedIsIdle'
      BY <1>7 DEF EvidenceInv, TypeOK, DrainedIsIdle, Resume, capture
    <2>6. WorkHasSource'
      BY <1>7 DEF EvidenceInv, TypeOK, WorkHasSource, Resume, capture
    <2> QED
      BY <2>1, <2>2, <2>3, <2>4, <2>5, <2>6 DEF EvidenceInv
  <1>8. ASSUME NEW d \in Directions, RemoveFile(d) PROVE EvidenceInv'
    <2>1. TypeOK'
      BY <1>8 DEF EvidenceInv, TypeOK, RemoveFile, capture
    <2>2. AnalysisIsFounded'
      BY <1>8 DEF EvidenceInv, TypeOK, AnalysisIsFounded, FilesFollowJobs, DrainedIsIdle,
           Readable, RemoveFile, capture
    <2>3. FilesFollowJobs'
      BY <1>8 DEF EvidenceInv, TypeOK, FilesFollowJobs, RemoveFile, capture
    <2>4. LeasesAreReturned'
      BY <1>8 DEF EvidenceInv, TypeOK, LeasesAreReturned, RemoveFile, capture
    <2>5. DrainedIsIdle'
      BY <1>8 DEF EvidenceInv, TypeOK, DrainedIsIdle, RemoveFile, capture
    <2>6. WorkHasSource'
      BY <1>8 DEF EvidenceInv, TypeOK, WorkHasSource, RemoveFile, capture
    <2> QED
      BY <2>1, <2>2, <2>3, <2>4, <2>5, <2>6 DEF EvidenceInv
  <1>9. ASSUME DeletionEnds PROVE EvidenceInv'
    <2>1. TypeOK'
      BY <1>9 DEF EvidenceInv, TypeOK, DeletionEnds, capture
    <2>2. AnalysisIsFounded'
      BY <1>9 DEF EvidenceInv, TypeOK, AnalysisIsFounded, FilesFollowJobs, DrainedIsIdle,
           Readable, DeletionEnds, capture
    <2>3. FilesFollowJobs'
      BY <1>9 DEF EvidenceInv, TypeOK, FilesFollowJobs, DeletionEnds, capture
    <2>4. LeasesAreReturned'
      BY <1>9 DEF EvidenceInv, TypeOK, LeasesAreReturned, DeletionEnds, capture
    <2>5. DrainedIsIdle'
      BY <1>9 DEF EvidenceInv, TypeOK, DrainedIsIdle, DeletionEnds, capture
    <2>6. WorkHasSource'
      BY <1>9 DEF EvidenceInv, TypeOK, WorkHasSource, DeletionEnds, capture
    <2> QED
      BY <2>1, <2>2, <2>3, <2>4, <2>5, <2>6 DEF EvidenceInv
  <1>10. ASSUME StateWriteFails PROVE EvidenceInv'
    <2>1. TypeOK'
      BY <1>10 DEF EvidenceInv, TypeOK, StateWriteFails, OpeningFails, IdleRead, Idle, capture
    <2>2. AnalysisIsFounded'
      BY <1>10 DEF EvidenceInv, TypeOK, AnalysisIsFounded, FilesFollowJobs, DrainedIsIdle,
           Readable, StateWriteFails, OpeningFails, IdleRead, Idle, capture
    <2>3. FilesFollowJobs'
      BY <1>10 DEF EvidenceInv, TypeOK, FilesFollowJobs, StateWriteFails, OpeningFails,
           IdleRead, Idle, capture
    <2>4. LeasesAreReturned'
      BY <1>10 DEF EvidenceInv, TypeOK, LeasesAreReturned, StateWriteFails, OpeningFails,
           IdleRead, Idle, capture
    <2>5. DrainedIsIdle'
      BY <1>10 DEF EvidenceInv, TypeOK, DrainedIsIdle, StateWriteFails, OpeningFails, IdleRead,
           Idle, capture
    <2>6. WorkHasSource'
      BY <1>10 DEF EvidenceInv, TypeOK, WorkHasSource, StateWriteFails, OpeningFails, IdleRead,
           Idle, capture
    <2> QED
      BY <2>1, <2>2, <2>3, <2>4, <2>5, <2>6 DEF EvidenceInv
  <1>11. ASSUME OpenStore PROVE EvidenceInv'
    <2>1. TypeOK'
      BY <1>11 DEF EvidenceInv, TypeOK, OpenStore, capture
    <2>2. AnalysisIsFounded'
      BY <1>11 DEF EvidenceInv, TypeOK, AnalysisIsFounded, FilesFollowJobs, DrainedIsIdle,
           Readable, OpenStore, capture
    <2>3. FilesFollowJobs'
      BY <1>11 DEF EvidenceInv, TypeOK, FilesFollowJobs, OpenStore, capture
    <2>4. LeasesAreReturned'
      BY <1>11 DEF EvidenceInv, TypeOK, LeasesAreReturned, OpenStore, capture
    <2>5. DrainedIsIdle'
      BY <1>11 DEF EvidenceInv, TypeOK, DrainedIsIdle, OpenStore, capture
    <2>6. WorkHasSource'
      BY <1>11 DEF EvidenceInv, TypeOK, WorkHasSource, OpenStore, capture
    <2> QED
      BY <2>1, <2>2, <2>3, <2>4, <2>5, <2>6 DEF EvidenceInv
  <1>12. ASSUME StoreOpened PROVE EvidenceInv'
    <2>1. TypeOK'
      BY <1>12 DEF EvidenceInv, TypeOK, StoreOpened, capture
    <2>2. AnalysisIsFounded'
      BY <1>12 DEF EvidenceInv, TypeOK, AnalysisIsFounded, FilesFollowJobs, DrainedIsIdle,
           Readable, StoreOpened, capture
    <2>3. FilesFollowJobs'
      BY <1>12 DEF EvidenceInv, TypeOK, FilesFollowJobs, StoreOpened, capture
    <2>4. LeasesAreReturned'
      BY <1>12 DEF EvidenceInv, TypeOK, LeasesAreReturned, StoreOpened, capture
    <2>5. DrainedIsIdle'
      BY <1>12 DEF EvidenceInv, TypeOK, DrainedIsIdle, StoreOpened, capture
    <2>6. WorkHasSource'
      BY <1>12 DEF EvidenceInv, TypeOK, WorkHasSource, StoreOpened, capture
    <2> QED
      BY <2>1, <2>2, <2>3, <2>4, <2>5, <2>6 DEF EvidenceInv
  <1>13. ASSUME StoreFails PROVE EvidenceInv'
    <2>1. TypeOK'
      BY <1>13 DEF EvidenceInv, TypeOK, StoreFails, OpeningFails, IdleRead, Idle, capture
    <2>2. AnalysisIsFounded'
      BY <1>13 DEF EvidenceInv, TypeOK, AnalysisIsFounded, FilesFollowJobs, DrainedIsIdle,
           Readable, StoreFails, OpeningFails, IdleRead, Idle, capture
    <2>3. FilesFollowJobs'
      BY <1>13 DEF EvidenceInv, TypeOK, FilesFollowJobs, StoreFails, OpeningFails, IdleRead,
           Idle, capture
    <2>4. LeasesAreReturned'
      BY <1>13 DEF EvidenceInv, TypeOK, LeasesAreReturned, StoreFails, OpeningFails, IdleRead,
           Idle, capture
    <2>5. DrainedIsIdle'
      BY <1>13 DEF EvidenceInv, TypeOK, DrainedIsIdle, StoreFails, OpeningFails, IdleRead, Idle,
           capture
    <2>6. WorkHasSource'
      BY <1>13 DEF EvidenceInv, TypeOK, WorkHasSource, StoreFails, OpeningFails, IdleRead, Idle,
           capture
    <2> QED
      BY <2>1, <2>2, <2>3, <2>4, <2>5, <2>6 DEF EvidenceInv
  <1>14. ASSUME ReparseGoesOn PROVE EvidenceInv'
    <2>1. TypeOK'
      BY <1>14 DEF EvidenceInv, TypeOK, DrainedIsIdle, ReparseGoesOn, Following, Idle, Readable,
           capture
    <2>2. AnalysisIsFounded'
      BY <1>14 DEF EvidenceInv, TypeOK, AnalysisIsFounded, FilesFollowJobs, DrainedIsIdle,
           ReparseGoesOn, Following, Idle, Readable, capture
    <2>3. FilesFollowJobs'
      BY <1>14 DEF EvidenceInv, TypeOK, FilesFollowJobs, ReparseGoesOn, Following, Idle,
           Readable, capture
    <2>4. LeasesAreReturned'
      BY <1>14 DEF EvidenceInv, TypeOK, LeasesAreReturned, ReparseGoesOn, Following, Idle,
           Readable, capture
    <2>5. DrainedIsIdle'
      BY <1>14 DEF EvidenceInv, TypeOK, DrainedIsIdle, ReparseGoesOn, Following, Idle, Readable,
           capture
    <2>6. WorkHasSource'
      BY <1>14 DEF EvidenceInv, TypeOK, WorkHasSource, ReparseGoesOn, Following, Idle, Readable,
           capture
    <2> QED
      BY <2>1, <2>2, <2>3, <2>4, <2>5, <2>6 DEF EvidenceInv
  <1>15. ASSUME ReparseCommits PROVE EvidenceInv'
    <2>1. TypeOK'
      BY <1>15 DEF EvidenceInv, TypeOK, DrainedIsIdle, ReparseCommits, Readable, Idle, capture
    <2>2. AnalysisIsFounded'
      BY <1>15 DEF EvidenceInv, TypeOK, AnalysisIsFounded, FilesFollowJobs, DrainedIsIdle,
           ReparseCommits, Readable, Idle, capture
    <2>3. FilesFollowJobs'
      BY <1>15 DEF EvidenceInv, TypeOK, FilesFollowJobs, ReparseCommits, Readable, Idle, capture
    <2>4. LeasesAreReturned'
      BY <1>15 DEF EvidenceInv, TypeOK, LeasesAreReturned, ReparseCommits, Readable, Idle,
           capture
    <2>5. DrainedIsIdle'
      BY <1>15 DEF EvidenceInv, TypeOK, DrainedIsIdle, ReparseCommits, Readable, Idle, capture
    <2>6. WorkHasSource'
      BY <1>15 DEF EvidenceInv, TypeOK, WorkHasSource, ReparseCommits, Readable, Idle, capture
    <2> QED
      BY <2>1, <2>2, <2>3, <2>4, <2>5, <2>6 DEF EvidenceInv
  <1>16. ASSUME ReparseAnswers PROVE EvidenceInv'
    <2>1. TypeOK'
      BY <1>16 DEF EvidenceInv, TypeOK, DrainedIsIdle, ReparseAnswers, Readable, Idle, Answered,
           capture
    <2>2. AnalysisIsFounded'
      BY <1>16 DEF EvidenceInv, TypeOK, AnalysisIsFounded, FilesFollowJobs, DrainedIsIdle,
           ReparseAnswers, Readable, Idle, Answered, capture
    <2>3. FilesFollowJobs'
      BY <1>16 DEF EvidenceInv, TypeOK, FilesFollowJobs, ReparseAnswers, Readable, Idle,
           Answered, capture
    <2>4. LeasesAreReturned'
      BY <1>16 DEF EvidenceInv, TypeOK, LeasesAreReturned, ReparseAnswers, Readable, Idle,
           Answered, capture
    <2>5. DrainedIsIdle'
      BY <1>16 DEF EvidenceInv, TypeOK, DrainedIsIdle, ReparseAnswers, Readable, Idle, Answered,
           capture
    <2>6. WorkHasSource'
      BY <1>16 DEF EvidenceInv, TypeOK, WorkHasSource, ReparseAnswers, Readable, Idle, Answered,
           capture
    <2> QED
      BY <2>1, <2>2, <2>3, <2>4, <2>5, <2>6 DEF EvidenceInv
  <1>17. ASSUME StartWorker PROVE EvidenceInv'
    <2> DEFINE source == Source(codex.capture, codex.by)
    <2>1. /\ codex.stage = "opening" /\ drain' = drain /\ answers' = answers
          /\ UNCHANGED <<live, row, deletion, files, executing, restarts, analysis, store, reparse>>
      BY <1>17 DEF StartWorker, capture
    <2>2. \/ /\ source # "none" /\ drain # "codex"
             /\ codex' = [codex EXCEPT !.stage = "reading", !.source = source]
             /\ leases' = [job |-> leases.job + 1, worker |-> leases.worker + 1]
          \/ codex' = IdleRead /\ leases' = leases
      BY <1>17 DEF StartWorker
    <2>3. source \in {"none", "live", "stored"}
      BY DEF Source
    <2> HIDE DEF source
    <2>4. CASE codex' = IdleRead /\ leases' = leases
      <3>1. TypeOK'
        BY <2>1, <2>4 DEF EvidenceInv, TypeOK, IdleRead
      <3>2. AnalysisIsFounded' /\ FilesFollowJobs'
        BY <2>1 DEF EvidenceInv, AnalysisIsFounded, FilesFollowJobs, Readable
      <3>3. LeasesAreReturned' /\ DrainedIsIdle' /\ WorkHasSource'
        BY <2>1, <2>4 DEF EvidenceInv, TypeOK, LeasesAreReturned, DrainedIsIdle, WorkHasSource, IdleRead
      <3> QED
        BY <3>1, <3>2, <3>3 DEF EvidenceInv
    <2>5. CASE /\ source # "none" /\ drain # "codex"
               /\ codex' = [codex EXCEPT !.stage = "reading", !.source = source]
               /\ leases' = [job |-> leases.job + 1, worker |-> leases.worker + 1]
      <3>1. /\ codex'.stage = "reading" /\ codex'.source = source
            /\ codex'.capture = codex.capture
        BY <2>5 DEF EvidenceInv, TypeOK
      <3>2. codex' \in [stage : {"idle", "opening", "reading", "ending", "failing"},
                        capture : Captures \cup {None}, by : {"id", "request"},
                        source : {"none", "live", "stored"}]
        BY <2>3, <2>5 DEF EvidenceInv, TypeOK
      <3>3. leases = [job |-> 0, worker |-> 0]
        BY <2>1 DEF EvidenceInv, LeasesAreReturned
      <3>4. leases' = [job |-> 1, worker |-> 1]
        BY <2>5, <3>3
      <3>5. TypeOK'
        BY <2>1, <3>2, <3>4 DEF EvidenceInv, TypeOK
      <3>6. AnalysisIsFounded' /\ FilesFollowJobs'
        BY <2>1 DEF EvidenceInv, AnalysisIsFounded, FilesFollowJobs, Readable
      <3>7. LeasesAreReturned' /\ WorkHasSource'
        BY <2>5, <3>1, <3>4 DEF LeasesAreReturned, WorkHasSource
      <3>8. DrainedIsIdle'
        BY <2>1, <3>1 DEF EvidenceInv, DrainedIsIdle
      <3> QED
        BY <3>5, <3>6, <3>7, <3>8 DEF EvidenceInv
    <2> QED
      BY <2>2, <2>4, <2>5
  <1>18. ASSUME WorkerEnds PROVE EvidenceInv'
    <2>1. TypeOK'
      BY <1>18 DEF EvidenceInv, TypeOK, DrainedIsIdle, WorkerEnds, capture
    <2>2. AnalysisIsFounded'
      BY <1>18 DEF EvidenceInv, TypeOK, AnalysisIsFounded, FilesFollowJobs, DrainedIsIdle,
           Readable, WorkerEnds, capture
    <2>3. FilesFollowJobs'
      BY <1>18 DEF EvidenceInv, TypeOK, FilesFollowJobs, WorkerEnds, capture
    <2>4. LeasesAreReturned'
      BY <1>18 DEF EvidenceInv, TypeOK, LeasesAreReturned, WorkerEnds, capture
    <2>5. DrainedIsIdle'
      BY <1>18 DEF EvidenceInv, TypeOK, DrainedIsIdle, WorkerEnds, capture
    <2>6. WorkHasSource'
      BY <1>18 DEF EvidenceInv, TypeOK, WorkHasSource, WorkerEnds, capture
    <2> QED
      BY <2>1, <2>2, <2>3, <2>4, <2>5, <2>6 DEF EvidenceInv
  <1>19. ASSUME InspectionEnds PROVE EvidenceInv'
    <2>1. TypeOK'
      BY <1>19 DEF EvidenceInv, TypeOK, LeasesAreReturned, DrainedIsIdle, InspectionEnds,
           Source, Readable, IdleRead, Answered, Release, capture
    <2>2. AnalysisIsFounded'
      BY <1>19 DEF EvidenceInv, TypeOK, AnalysisIsFounded, FilesFollowJobs, DrainedIsIdle,
           InspectionEnds, Source, Readable, IdleRead, Answered, Release, capture
    <2>3. FilesFollowJobs'
      BY <1>19 DEF EvidenceInv, TypeOK, FilesFollowJobs, InspectionEnds, Source, Readable,
           IdleRead, Answered, Release, capture
    <2>4. LeasesAreReturned'
      BY <1>19 DEF EvidenceInv, TypeOK, LeasesAreReturned, InspectionEnds, Source, Readable,
           IdleRead, Answered, Release, capture
    <2>5. DrainedIsIdle'
      BY <1>19 DEF EvidenceInv, TypeOK, DrainedIsIdle, InspectionEnds, Source, Readable,
           IdleRead, Answered, Release, capture
    <2>6. WorkHasSource'
      BY <1>19 DEF EvidenceInv, TypeOK, WorkHasSource, InspectionEnds, Source, Readable,
           IdleRead, Answered, Release, capture
    <2> QED
      BY <2>1, <2>2, <2>3, <2>4, <2>5, <2>6 DEF EvidenceInv
  <1>20. ASSUME CloseReparser PROVE EvidenceInv'
    <2>1. TypeOK'
      BY <1>20 DEF EvidenceInv, TypeOK, CloseReparser, capture
    <2>2. AnalysisIsFounded'
      BY <1>20 DEF EvidenceInv, TypeOK, AnalysisIsFounded, FilesFollowJobs, DrainedIsIdle,
           Readable, CloseReparser, capture
    <2>3. FilesFollowJobs'
      BY <1>20 DEF EvidenceInv, TypeOK, FilesFollowJobs, CloseReparser, capture
    <2>4. LeasesAreReturned'
      BY <1>20 DEF EvidenceInv, TypeOK, LeasesAreReturned, CloseReparser, capture
    <2>5. DrainedIsIdle'
      BY <1>20 DEF EvidenceInv, TypeOK, DrainedIsIdle, CloseReparser, capture
    <2>6. WorkHasSource'
      BY <1>20 DEF EvidenceInv, TypeOK, WorkHasSource, CloseReparser, capture
    <2> QED
      BY <2>1, <2>2, <2>3, <2>4, <2>5, <2>6 DEF EvidenceInv
  <1>21. ASSUME CloseCodex PROVE EvidenceInv'
    <2>1. TypeOK'
      BY <1>21 DEF EvidenceInv, TypeOK, CloseCodex, capture
    <2>2. AnalysisIsFounded'
      BY <1>21 DEF EvidenceInv, TypeOK, AnalysisIsFounded, FilesFollowJobs, DrainedIsIdle,
           Readable, CloseCodex, capture
    <2>3. FilesFollowJobs'
      BY <1>21 DEF EvidenceInv, TypeOK, FilesFollowJobs, CloseCodex, capture
    <2>4. LeasesAreReturned'
      BY <1>21 DEF EvidenceInv, TypeOK, LeasesAreReturned, CloseCodex, capture
    <2>5. DrainedIsIdle'
      BY <1>21 DEF EvidenceInv, TypeOK, DrainedIsIdle, CloseCodex, capture
    <2>6. WorkHasSource'
      BY <1>21 DEF EvidenceInv, TypeOK, WorkHasSource, CloseCodex, capture
    <2> QED
      BY <2>1, <2>2, <2>3, <2>4, <2>5, <2>6 DEF EvidenceInv
  <1>22. ASSUME Drained PROVE EvidenceInv'
    <2>1. TypeOK'
      BY <1>22 DEF EvidenceInv, TypeOK, Drained, capture
    <2>2. AnalysisIsFounded'
      BY <1>22 DEF EvidenceInv, TypeOK, AnalysisIsFounded, FilesFollowJobs, DrainedIsIdle,
           Readable, Drained, capture
    <2>3. FilesFollowJobs'
      BY <1>22 DEF EvidenceInv, TypeOK, FilesFollowJobs, Drained, capture
    <2>4. LeasesAreReturned'
      BY <1>22 DEF EvidenceInv, TypeOK, LeasesAreReturned, Drained, capture
    <2>5. DrainedIsIdle'
      BY <1>22 DEF EvidenceInv, TypeOK, DrainedIsIdle, Drained, capture
    <2>6. WorkHasSource'
      BY <1>22 DEF EvidenceInv, TypeOK, WorkHasSource, Drained, capture
    <2> QED
      BY <2>1, <2>2, <2>3, <2>4, <2>5, <2>6 DEF EvidenceInv
  <1>23. ASSUME Restart PROVE EvidenceInv'
    <2>1. TypeOK'
      BY <1>23 DEF EvidenceInv, TypeOK, Restart, Idle, IdleRead, capture
    <2>2. AnalysisIsFounded'
      BY <1>23 DEF EvidenceInv, TypeOK, AnalysisIsFounded, FilesFollowJobs, DrainedIsIdle,
           Readable, Restart, Idle, IdleRead, capture
    <2>3. FilesFollowJobs'
      BY <1>23 DEF EvidenceInv, TypeOK, FilesFollowJobs, Restart, Idle, IdleRead, capture
    <2>4. LeasesAreReturned'
      BY <1>23 DEF EvidenceInv, TypeOK, LeasesAreReturned, Restart, Idle, IdleRead, capture
    <2>5. DrainedIsIdle'
      BY <1>23 DEF EvidenceInv, TypeOK, DrainedIsIdle, Restart, Idle, IdleRead, capture
    <2>6. WorkHasSource'
      BY <1>23 DEF EvidenceInv, TypeOK, WorkHasSource, Restart, Idle, IdleRead, capture
    <2> QED
      BY <2>1, <2>2, <2>3, <2>4, <2>5, <2>6 DEF EvidenceInv
  <1>24. CASE UNCHANGED vars
    BY <1>24 DEF vars, EvidenceInv, TypeOK, AnalysisIsFounded, FilesFollowJobs,
       LeasesAreReturned, DrainedIsIdle, WorkHasSource, Readable
  <1> QED
    BY <1>1, <1>2, <1>3, <1>4, <1>5, <1>6, <1>7, <1>8, <1>9, <1>10, <1>11, <1>12, <1>13, <1>14,
         <1>15, <1>16, <1>17, <1>18, <1>19, <1>20, <1>21, <1>22, <1>23, <1>24
       DEF Next, Evidence, Deleting, Reparsing, Inspecting, Draining

\* In every reachable state: an analysis is founded on two originals nobody has
\* asked to delete, files follow the jobs, leases are returned, and what was
\* drained stays idle.
THEOREM EvidenceHolds == Spec => []EvidenceInv
  BY InitInv, NextKeeps, PTL DEF Spec

\* A reparse or an inspection answers only while the originals are there and
\* nobody has asked to delete them, whatever overtook the reading.
THEOREM FreshAnswers == Spec => AnswersAreFresh
  <1> DEFINE Fresh == \A c \in Captures : answers'[c] # answers[c] =>
          /\ deletion[c] = "none" /\ files[c] = Directions
          /\ row[c] = "stored" \/ c \in live
  <1>1. ASSUME EvidenceInv, [Next]_vars PROVE Fresh
    <2> SUFFICES ASSUME NEW c \in Captures, answers'[c] # answers[c]
                 PROVE  /\ deletion[c] = "none" /\ files[c] = Directions
                        /\ row[c] = "stored" \/ c \in live
      OBVIOUS
    <2>1. ReparseAnswers \/ InspectionEnds \/ UNCHANGED answers
      BY <1>1 DEF Next, Evidence, Deleting, Reparsing, Inspecting, Draining, vars, capture, Register,
         Commit, Unregister, RequestDeletion, Reparse, Inspect, Resume, RemoveFile, DeletionEnds,
         StateWriteFails, OpenStore, StoreOpened, StoreFails, ReparseGoesOn, ReparseCommits,
         StartWorker, WorkerEnds, CloseReparser, CloseCodex, Drained, Restart
    <2>2. CASE ReparseAnswers
      <3>1. c = reparse.capture /\ Readable(c) /\ c \in analysis
        BY <1>1, <2>2 DEF ReparseAnswers, Answered, EvidenceInv, TypeOK
      <3> QED
        BY <1>1, <3>1 DEF EvidenceInv, AnalysisIsFounded, Readable
    <2>3. CASE InspectionEnds
      <3>1. /\ c = codex.capture /\ deletion[c] = "none" /\ codex.stage = "ending"
            /\ Source(c, codex.by) = codex.source
        BY <1>1, <2>3 DEF InspectionEnds, Answered, EvidenceInv, TypeOK
      <3>2. c \in live \/ Readable(c)
        BY <1>1, <3>1 DEF Source, EvidenceInv, WorkHasSource
      <3> QED
        BY <1>1, <3>1, <3>2 DEF EvidenceInv, FilesFollowJobs, TypeOK, Readable
    <2> QED
      BY <2>1, <2>2, <2>3
  <1>2. ASSUME EvidenceInv, [Next]_vars PROVE [Fresh]_vars
    BY <1>1, <1>2
  <1> QED
    BY EvidenceHolds, <1>2, PTL DEF Spec, AnswersAreFresh
==============================================================================
