---------------------- MODULE CaptureLifecycleProofs ----------------------
(***************************************************************************)
(* The safety of CaptureLifecycle for every set of captures: its invariants,*)
(* its action properties, and that it implements CaptureLedger.            *)
(*                                                                         *)
(* First, every action preserves the invariant of CaptureInvariant: one    *)
(* lemma per action, one step per part of the invariant, the parts the     *)
(* action leaves alone together in the first.                              *)
(***************************************************************************)
EXTENDS CaptureInvariant, TLAPS

\* A new exchange starts with gated writers and nothing durable.
LEMMA BeginCaptureKeeps == ASSUME IInv, NEW c \in Captures, BeginCapture(c) PROVE IInv'
  <1>1. Shape' /\ Owners' /\ Deleting'
    BY CapturesAssumption DEF IInv, BeginCapture, Shape, Owners, Deleting, diskVars, dbVars,
           procVars, recVars, delVars
  <1>2. TypeOK'
    BY DEF IInv, BeginCapture, TypeOK, Writer, Phase, LivePhase, diskVars, dbVars, procVars,
           recVars, delVars, history
  <1>3. LiveShape'
    BY DEF IInv, BeginCapture, LiveShape, Owners, TypeOK, Fresh, Live, Pre, Settled, Blank,
           diskVars, dbVars, procVars, history
  <1>4. Evidence'
    BY DEF IInv, BeginCapture, Evidence, LiveShape, Fresh, Pre, Settled, diskVars, dbVars,
           history
  <1>5. Whole'
    BY DEF IInv, BeginCapture, Whole, LiveShape, Pre, Backed, NoRefs, Fresh, Blank,
           diskVars, dbVars
  <1>6. Recovering'
    BY DEF IInv, BeginCapture, Recovering, Settled, Backed, diskVars, dbVars, recVars
  <1> QED
    BY <1>1, <1>2, <1>3, <1>4, <1>5, <1>6 DEF IInv

\* The journal takes over what memory says; the admission it grants is backed by it.
LEMMA PersistJournalKeeps == ASSUME IInv, NEW c \in Captures, PersistJournal(c) PROVE IInv'
  <1>1. TypeOK' /\ Shape' /\ Owners' /\ Deleting'
    BY CapturesAssumption DEF IInv, PersistJournal, TypeOK, Shape, Owners, Deleting, dbVars,
           procVars, recVars, delVars, history
  <1>2. LiveShape'
    <2>1. /\ phase[c] \in {"open", "sealing", "indexing", "timing"} /\ Pre(c)
          /\ phase[c] \in {"open", "sealing"} => entry[c].refs = NoRefs
      BY DEF IInv, LiveShape, Pre, PersistJournal
    <2>2. /\ stored \in [Captures -> Entry] /\ stored' = [stored EXCEPT ![c] = entry[c]]
          /\ dirty \in [Captures -> BOOLEAN] /\ dirty' = [dirty EXCEPT ![c] = FALSE]
          /\ journals' = journals \cup {c}
          /\ \A x \in Captures \ {c} : admission'[x] = admission[x]
          /\ UNCHANGED <<phase, entry, writer, file, monitor, shutdown, awaited, rows, tombstones, saves>>
      BY DEF IInv, TypeOK, PersistJournal, dbVars, procVars, history
    <2> QED
      BY <2>1, <2>2 DEF IInv, LiveShape, Live, Pre, Fresh, Settled
  <1>3. Evidence'
    BY DEF IInv, PersistJournal, Evidence, Pre, Settled, dbVars, history
  <1>4. Whole'
    BY DEF IInv, PersistJournal, Whole, LiveShape, Evidence, Pre, Backed, dbVars
  <1>5. Recovering'
    BY DEF IInv, PersistJournal, Recovering, Shape, Owners, LiveShape, Live, LivePhase,
           recVars
  <1> QED
    BY <1>1, <1>2, <1>3, <1>4, <1>5 DEF IInv

\* A failed journal write changes nothing durable.
LEMMA PersistFailsKeeps == ASSUME IInv, NEW c \in Captures, PersistFails(c) PROVE IInv'
  <1>1. TypeOK' /\ Shape' /\ Owners' /\ Deleting'
    BY CapturesAssumption DEF IInv, PersistFails, TypeOK, Shape, Owners, Deleting, diskVars,
           dbVars, procVars, recVars, delVars, history
  <1>2. LiveShape'
    BY DEF IInv, PersistFails, LiveShape, TypeOK, Fresh, Live, Pre, Settled, diskVars,
           dbVars, procVars, history
  <1>3. Evidence'
    BY DEF IInv, PersistFails, Evidence, Pre, Settled, diskVars, dbVars, history
  <1>4. Whole'
    BY DEF IInv, PersistFails, Whole, Pre, Backed, diskVars, dbVars
  <1>5. Recovering'
    BY DEF IInv, PersistFails, Recovering, Settled, Backed, diskVars, dbVars, recVars
  <1> QED
    BY <1>1, <1>2, <1>3, <1>4, <1>5 DEF IInv

\* Response metadata only asks for another journal write.
LEMMA ObserveResponseKeeps == ASSUME IInv, NEW c \in Captures, ObserveResponse(c) PROVE IInv'
  <1>1. TypeOK' /\ Shape' /\ Owners' /\ Deleting'
    BY CapturesAssumption DEF IInv, ObserveResponse, TypeOK, Shape, Owners, Deleting,
           diskVars, dbVars, procVars, recVars, delVars, history
  <1>2. LiveShape'
    BY DEF IInv, ObserveResponse, LiveShape, TypeOK, Fresh, Live, Pre, Settled, diskVars,
           dbVars, procVars, history
  <1>3. Evidence'
    BY DEF IInv, ObserveResponse, Evidence, Pre, Settled, diskVars, dbVars, history
  <1>4. Whole'
    BY DEF IInv, ObserveResponse, Whole, Pre, Backed, diskVars, dbVars
  <1>5. Recovering'
    BY DEF IInv, ObserveResponse, Recovering, Settled, Backed, diskVars, dbVars, recVars
  <1> QED
    BY <1>1, <1>2, <1>3, <1>4, <1>5 DEF IInv

\* A cut exchange gets its outcome before the journal is asked again.
LEMMA CancelKeeps == ASSUME IInv, NEW c \in Captures, Cancel(c) PROVE IInv'
  <1>1. Shape' /\ Owners' /\ Deleting'
    BY CapturesAssumption DEF IInv, Cancel, Shape, Owners, Deleting, diskVars, dbVars,
           procVars, recVars, delVars
  <1>2. TypeOK'
    <2>1. entry \in [Captures -> Entry] /\ entry' = [entry EXCEPT ![c].outcome = "cut"]
      BY DEF IInv, TypeOK, Cancel
    <2>2. entry' \in [Captures -> Entry]
      BY <2>1 DEF Entry, Outcome
    <2> QED
      BY <2>2 DEF IInv, TypeOK, Cancel, Phase, LivePhase, diskVars, dbVars, procVars, recVars,
                  delVars, history
  <1>3. LiveShape'
    BY DEF IInv, Cancel, LiveShape, TypeOK, Fresh, Live, LivePhase, Pre, Settled, diskVars,
           dbVars, procVars, history
  <1>4. Evidence'
    BY DEF IInv, Cancel, Evidence, Pre, Settled, diskVars, dbVars, history
  <1>5. Whole'
    BY DEF IInv, Cancel, Whole, Pre, Backed, diskVars, dbVars
  <1>6. Recovering'
    BY DEF IInv, Cancel, Recovering, Settled, Backed, diskVars, dbVars, recVars
  <1> QED
    BY <1>1, <1>2, <1>3, <1>4, <1>5, <1>6 DEF IInv

\* Finalization moves on once the journal is settled.
LEMMA JournalSettledKeeps == ASSUME IInv, NEW c \in Captures, JournalSettled(c) PROVE IInv'
  <1>1. Shape' /\ Owners' /\ Deleting'
    BY CapturesAssumption DEF IInv, JournalSettled, Shape, Owners, Deleting, diskVars,
           dbVars, procVars, recVars, delVars
  <1>2. TypeOK'
    <2>1. phase' \in [Captures -> Phase] /\ dirty' \in [Captures -> BOOLEAN]
      BY DEF IInv, TypeOK, JournalSettled, Phase, LivePhase
    <2> QED
      BY <2>1 DEF IInv, TypeOK, JournalSettled, diskVars, dbVars, procVars, recVars, delVars,
                  history
  <1>3. LiveShape'
    BY DEF IInv, JournalSettled, LiveShape, TypeOK, Fresh, Live, LivePhase, Pre, Settled,
           diskVars, dbVars, procVars, history
  <1>4. Evidence'
    BY DEF IInv, JournalSettled, Evidence, TypeOK, Pre, Settled, diskVars, dbVars, history
  <1>5. Whole'
    BY DEF IInv, JournalSettled, Whole, TypeOK, LivePhase, Pre, Backed, Deleting, NoRefs,
           diskVars, dbVars, procVars
  <1>6. Recovering'
    BY DEF IInv, JournalSettled, Recovering, Settled, Backed, diskVars, dbVars, recVars
  <1> QED
    BY <1>1, <1>2, <1>3, <1>4, <1>5, <1>6 DEF IInv

\* The refs in memory are those of the finished writers.
LEMMA IndexRefsKeeps == ASSUME IInv, NEW c \in Captures, IndexRefs(c) PROVE IInv'
  <1>1. Shape' /\ Owners' /\ Deleting'
    BY CapturesAssumption DEF IInv, IndexRefs, Shape, Owners, Deleting, diskVars, dbVars,
           procVars, recVars, delVars
  <1>2. TypeOK'
    <2>1. /\ entry \in [Captures -> Entry] /\ entry' = [entry EXCEPT ![c].refs = writer[c]]
          /\ writer[c] \in [Directions -> RefStatus \cup {"none"}]
      BY DEF IndexRefs, IInv, TypeOK
    <2>2. entry' \in [Captures -> Entry]
      BY <2>1 DEF Entry
    <2> QED
      BY <2>2 DEF IInv, TypeOK, IndexRefs, Phase, LivePhase, diskVars, dbVars, procVars, recVars,
                  delVars, history
  <1>3. LiveShape'
    <2>1. entry \in [Captures -> Entry] /\ entry' = [entry EXCEPT ![c].refs = writer[c]]
      BY DEF IInv, TypeOK, IndexRefs
    <2>2. /\ entry'[c].outcome = entry[c].outcome /\ entry'[c].refs = writer[c]
          /\ \A x \in Captures \ {c} : entry'[x] = entry[x]
      BY <2>1 DEF Entry
    <2>3. /\ phase' = [phase EXCEPT ![c] = "indexing"] /\ phase[c] = "finishing"
          /\ dirty' = [dirty EXCEPT ![c] = TRUE]
          /\ \A d \in Directions : writer[c][d] \in RefStatus
      BY DEF IndexRefs
    <2>4. phase \in [Captures -> Phase] /\ dirty \in [Captures -> BOOLEAN]
      BY DEF IInv, TypeOK
    <2>5. \A d \in Directions : stored[c].refs[d] = "none"
      BY <2>3 DEF IInv, LiveShape, NoRefs
    <2>6. UNCHANGED <<stored, file, journals, writer, rows, tombstones, monitor, shutdown, awaited,
                      saves, admission>>
      BY DEF IndexRefs, diskVars, dbVars, procVars, history
    <2> QED
      BY <2>1, <2>2, <2>3, <2>4, <2>5, <2>6
         DEF IInv, LiveShape, Live, LivePhase, Pre, Fresh, Settled, RefStatus
  <1>4. Evidence'
    BY DEF IInv, IndexRefs, Evidence, Pre, Settled, diskVars, dbVars, history
  <1>5. Whole'
    BY DEF IInv, IndexRefs, Whole, Pre, Backed, diskVars, dbVars
  <1>6. Recovering'
    BY DEF IInv, IndexRefs, Recovering, Settled, Backed, diskVars, dbVars, recVars
  <1> QED
    BY <1>1, <1>2, <1>3, <1>4, <1>5, <1>6 DEF IInv

\* The live commit inserts a capture that was not settled before.
LEMMA CommitKeeps == ASSUME IInv, NEW c \in Captures, Commit(c) PROVE IInv'
  <1>1. Shape' /\ Owners' /\ Deleting'
    BY CapturesAssumption DEF IInv, Commit, Shape, Owners, Deleting, diskVars, procVars,
           recVars, delVars
  <1>2. TypeOK'
    <2>1. entry[c] \in Row /\ phase' \in [Captures -> Phase]
      BY DEF IInv, TypeOK, Entry, Row, Commit, Phase, LivePhase
    <2>2. CASE c \in rows
      BY <2>1, <2>2 DEF IInv, TypeOK, Commit, Insert, diskVars, procVars, recVars, delVars
    <2>3. CASE c \notin rows
      <3>1. /\ saves \in [Captures -> Nat] /\ saves' = [saves EXCEPT ![c] = saves[c] + 1]
            /\ rows' = rows \cup {c} /\ saved' = [saved EXCEPT ![c] = entry[c]]
        BY <2>3 DEF IInv, TypeOK, Commit, Insert
      <3>2. saves[c] + 1 \in Nat
        BY <3>1
      <3>3. saves' \in [Captures -> Nat]
        BY <3>1, <3>2
      <3> QED
        BY <2>1, <3>1, <3>3 DEF IInv, TypeOK, Commit, diskVars, procVars, recVars, delVars
    <2> QED
      BY <2>2, <2>3
  <1>3. LiveShape'
    BY DEF IInv, Commit, LiveShape, TypeOK, Fresh, Live, LivePhase, Pre, Settled, Insert,
           diskVars, procVars
  <1>4. Evidence'
    BY DEF IInv, Commit, Evidence, TypeOK, Pre, Settled, Insert, diskVars
  <1>5. Whole'
    BY DEF IInv, Commit, Whole, TypeOK, Pre, Backed, Insert, diskVars
  <1>6. Recovering'
    BY DEF IInv, Commit, Recovering, Shape, Owners, LiveShape, Live, LivePhase, recVars
  <1> QED
    BY <1>1, <1>2, <1>3, <1>4, <1>5, <1>6 DEF IInv

\* A failed commit leaves the journal to recovery.
LEMMA CommitFailsKeeps == ASSUME IInv, NEW c \in Captures, CommitFails(c) PROVE IInv'
  <1>1. Shape' /\ Owners' /\ Deleting'
    BY CapturesAssumption DEF IInv, CommitFails, Shape, Owners, Deleting, diskVars, dbVars,
           procVars, recVars, delVars
  <1>2. TypeOK'
    BY DEF IInv, CommitFails, TypeOK, Phase, diskVars, dbVars, procVars, recVars, delVars,
           history
  <1>3. LiveShape'
    BY DEF IInv, CommitFails, LiveShape, TypeOK, Fresh, Live, LivePhase, Pre, Settled,
           diskVars, dbVars, procVars, history
  <1>4. Evidence'
    BY DEF IInv, CommitFails, Evidence, Pre, Settled, diskVars, dbVars, history
  <1>5. Whole'
    BY DEF IInv, CommitFails, Whole, Pre, Backed, diskVars, dbVars
  <1>6. Recovering'
    BY DEF IInv, CommitFails, Recovering, Settled, Backed, diskVars, dbVars, recVars
  <1> QED
    BY <1>1, <1>2, <1>3, <1>4, <1>5, <1>6 DEF IInv

\* The journal goes only after the commit.
LEMMA RemoveJournalKeeps == ASSUME IInv, NEW c \in Captures, RemoveJournal(c) PROVE IInv'
  <1>1. Owners' /\ Deleting'
    BY DEF IInv, RemoveJournal, Owners, Deleting, dbVars, procVars, recVars, delVars
  <1>2. TypeOK'
    BY DEF IInv, RemoveJournal, TypeOK, Entry, Phase, LivePhase, Blank, NoRefs, dbVars,
           procVars, recVars, delVars, history
  <1>3. Shape'
    BY DEF IInv, RemoveJournal, Shape, Owners, LiveShape, Live, LivePhase, recVars, delVars
  <1>4. LiveShape'
    BY DEF IInv, RemoveJournal, LiveShape, TypeOK, Fresh, Live, LivePhase, Pre, Settled,
           dbVars, procVars, history
  <1>5. Evidence'
    BY DEF IInv, RemoveJournal, Evidence, Pre, Settled, dbVars, history
  <1>6. Whole'
    BY DEF IInv, RemoveJournal, Whole, Pre, Backed, dbVars
  <1>7. Recovering'
    BY DEF IInv, RemoveJournal, Recovering, Evidence, Settled, Backed, dbVars, recVars
  <1> QED
    BY <1>1, <1>2, <1>3, <1>4, <1>5, <1>6, <1>7 DEF IInv

\* A journal that stays behind a committed row is harmless.
LEMMA RemoveFailsKeeps == ASSUME IInv, NEW c \in Captures, RemoveFails(c) PROVE IInv'
  <1>1. Shape' /\ Owners' /\ Deleting'
    BY CapturesAssumption DEF IInv, RemoveFails, Shape, Owners, Deleting, diskVars, dbVars,
           procVars, recVars, delVars
  <1>2. TypeOK'
    BY DEF IInv, RemoveFails, TypeOK, Phase, LivePhase, diskVars, dbVars, procVars, recVars,
           delVars, history
  <1>3. LiveShape'
    BY DEF IInv, RemoveFails, LiveShape, TypeOK, Fresh, Live, LivePhase, Pre, Settled,
           diskVars, dbVars, procVars, history
  <1>4. Evidence'
    BY DEF IInv, RemoveFails, Evidence, Pre, Settled, diskVars, dbVars, history
  <1>5. Whole'
    BY DEF IInv, RemoveFails, Whole, Pre, Backed, diskVars, dbVars
  <1>6. Recovering'
    BY DEF IInv, RemoveFails, Recovering, Settled, Backed, diskVars, dbVars, recVars
  <1> QED
    BY <1>1, <1>2, <1>3, <1>4, <1>5, <1>6 DEF IInv

\* Only a committed capture is announced.
LEMMA NotifyKeeps == ASSUME IInv, NEW c \in Captures, Notify(c) PROVE IInv'
  <1>1. Shape' /\ Owners' /\ Deleting'
    BY CapturesAssumption DEF IInv, Notify, Shape, Owners, Deleting, diskVars, dbVars,
           procVars, recVars, delVars
  <1>2. TypeOK'
    BY DEF IInv, Notify, TypeOK, Phase, diskVars, dbVars, procVars, recVars, delVars
  <1>3. LiveShape'
    BY DEF IInv, Notify, LiveShape, TypeOK, Fresh, Live, LivePhase, Pre, Settled, diskVars,
           dbVars, procVars
  <1>4. Evidence'
    BY DEF IInv, Notify, Evidence, Pre, Settled, diskVars, dbVars
  <1>5. Whole'
    BY DEF IInv, Notify, Whole, Pre, Backed, diskVars, dbVars
  <1>6. Recovering'
    BY DEF IInv, Notify, Recovering, Settled, Backed, diskVars, dbVars, recVars
  <1> QED
    BY <1>1, <1>2, <1>3, <1>4, <1>5, <1>6 DEF IInv

\* Recovery drops what the database knows and recovers the rest.
LEMMA RecoverPickKeeps == ASSUME IInv, NEW c \in Captures, RecoverPick(c) PROVE IInv'
  <1>1. Owners' /\ Deleting'
    BY DEF IInv, RecoverPick, Owners, Deleting, diskVars, dbVars, procVars, delVars
  <1>2. TypeOK'
    BY DEF IInv, RecoverPick, TypeOK, NoRefs, diskVars, dbVars, procVars, delVars, liveVars,
           history
  <1>3. Shape'
    BY CapturesAssumption DEF IInv, RecoverPick, Shape, diskVars, delVars
  <1>4. LiveShape'
    BY DEF IInv, RecoverPick, LiveShape, TypeOK, Fresh, Live, Pre, Settled, diskVars,
           dbVars, procVars, liveVars, history
  <1>5. Evidence'
    BY DEF IInv, RecoverPick, Evidence, Pre, Settled, diskVars, dbVars, liveVars, history
  <1>6. Whole'
    BY DEF IInv, RecoverPick, Whole, Pre, Backed, diskVars, dbVars, liveVars
  <1>7. Recovering'
    BY DEF IInv, RecoverPick, Recovering, Settled, dbVars
  <1> QED
    BY <1>1, <1>2, <1>3, <1>4, <1>5, <1>6, <1>7 DEF IInv

\* Intent and marker are written together.
LEMMA RequestDeletionKeeps == ASSUME IInv, NEW c \in Captures, RequestDeletion(c) PROVE IInv'
  <1>1. TypeOK' /\ Owners'
    BY DEF IInv, RequestDeletion, TypeOK, Owners, diskVars, procVars, recVars, liveVars,
           history
  <1>2. Shape'
    BY CapturesAssumption DEF IInv, RequestDeletion, Shape, diskVars, recVars
  <1>3. LiveShape'
    BY DEF IInv, RequestDeletion, LiveShape, TypeOK, Fresh, Live, Pre, Settled, diskVars,
           liveVars, history
  <1>4. Evidence'
    BY DEF IInv, RequestDeletion, Evidence, Pre, Settled, diskVars, liveVars, history
  <1>5. Whole'
    BY DEF IInv, RequestDeletion, Whole, Pre, Backed, diskVars, liveVars
  <1>6. Recovering'
    BY DEF IInv, RequestDeletion, Recovering, Settled, Backed, diskVars, recVars
  <1>7. Deleting'
    BY DEF IInv, RequestDeletion, Deleting, TypeOK
  <1> QED
    BY <1>1, <1>2, <1>3, <1>4, <1>5, <1>6, <1>7 DEF IInv

\* A pending job is resumed before recovery starts.
LEMMA ResumeDeletionKeeps == ASSUME IInv, NEW c \in Captures, ResumeDeletion(c) PROVE IInv'
  <1>1. TypeOK' /\ Owners'
    BY DEF IInv, ResumeDeletion, TypeOK, Owners, diskVars, dbVars, procVars, recVars,
           liveVars, history
  <1>2. Shape'
    BY CapturesAssumption DEF IInv, ResumeDeletion, Shape, diskVars, recVars
  <1>3. LiveShape'
    BY DEF IInv, ResumeDeletion, LiveShape, TypeOK, Fresh, Live, Pre, Settled, diskVars,
           dbVars, procVars, liveVars, history
  <1>4. Evidence'
    BY DEF IInv, ResumeDeletion, Evidence, Pre, Settled, diskVars, dbVars, liveVars, history
  <1>5. Whole'
    BY DEF IInv, ResumeDeletion, Whole, Pre, Backed, diskVars, dbVars, liveVars
  <1>6. Recovering'
    BY DEF IInv, ResumeDeletion, Recovering, Settled, Backed, diskVars, dbVars, recVars
  <1>7. Deleting'
    BY DEF IInv, ResumeDeletion, Deleting, PendingJobs, dbVars
  <1> QED
    BY <1>1, <1>2, <1>3, <1>4, <1>5, <1>6, <1>7 DEF IInv

\* An original appears only after its journal.
LEMMA OpenOriginalKeeps == ASSUME IInv, NEW c \in Captures, NEW d \in Directions, OpenOriginal(c, d) PROVE IInv'
  <1>1. Shape' /\ Owners'
    BY CapturesAssumption DEF IInv, OpenOriginal, Shape, Owners, procVars, recVars, delVars
  <1>2. TypeOK'
    BY DEF IInv, OpenOriginal, TypeOK, Writer, dbVars, procVars, recVars, delVars, history
  <1>3. LiveShape'
    BY DEF IInv, OpenOriginal, LiveShape, TypeOK, Fresh, Live, Pre, Settled, dbVars,
           procVars, history
  <1>4. Evidence'
    BY DEF IInv, OpenOriginal, Evidence, LiveShape, Pre, Settled, dbVars, history
  <1>5. Whole'
    BY DEF IInv, OpenOriginal, Whole, LiveShape, Evidence, Pre, Backed, NoRefs, dbVars
  <1>6. Recovering'
    BY DEF IInv, OpenOriginal, Recovering, Shape, Owners, LiveShape, Live, LivePhase,
           recVars
  <1>7. Deleting'
    BY DEF IInv, OpenOriginal, Deleting, Shape, LiveShape, Evidence, Pre, Settled, dbVars,
           delVars
  <1> QED
    BY <1>1, <1>2, <1>3, <1>4, <1>5, <1>6, <1>7 DEF IInv

\* A refused admission leaves no file.
LEMMA OpenRefusedKeeps == ASSUME IInv, NEW c \in Captures, NEW d \in Directions, OpenRefused(c, d) PROVE IInv'
  <1>1. Shape' /\ Owners' /\ Deleting'
    BY CapturesAssumption DEF IInv, OpenRefused, Shape, Owners, Deleting, diskVars, dbVars,
           procVars, recVars, delVars
  <1>2. TypeOK'
    BY DEF IInv, OpenRefused, TypeOK, Writer, diskVars, dbVars, procVars, recVars, delVars,
           history
  <1>3. LiveShape'
    BY DEF IInv, OpenRefused, LiveShape, TypeOK, Fresh, Live, Pre, Settled, diskVars,
           dbVars, procVars, history
  <1>4. Evidence'
    BY DEF IInv, OpenRefused, Evidence, Pre, Settled, diskVars, dbVars, history
  <1>5. Whole'
    BY DEF IInv, OpenRefused, Whole, Pre, Backed, diskVars, dbVars
  <1>6. Recovering'
    BY DEF IInv, OpenRefused, Recovering, Settled, Backed, diskVars, dbVars, recVars
  <1> QED
    BY <1>1, <1>2, <1>3, <1>4, <1>5, <1>6 DEF IInv

\* A failed open leaves no file.
LEMMA OpenFailsKeeps == ASSUME IInv, NEW c \in Captures, NEW d \in Directions, OpenFails(c, d) PROVE IInv'
  <1>1. Shape' /\ Owners' /\ Deleting'
    BY CapturesAssumption DEF IInv, OpenFails, Shape, Owners, Deleting, diskVars, dbVars,
           procVars, recVars, delVars
  <1>2. TypeOK'
    BY DEF IInv, OpenFails, TypeOK, Writer, diskVars, dbVars, procVars, recVars, delVars,
           history
  <1>3. LiveShape'
    BY DEF IInv, OpenFails, LiveShape, TypeOK, Fresh, Live, Pre, Settled, diskVars, dbVars,
           procVars, history
  <1>4. Evidence'
    BY DEF IInv, OpenFails, Evidence, Pre, Settled, diskVars, dbVars, history
  <1>5. Whole'
    BY DEF IInv, OpenFails, Whole, Pre, Backed, diskVars, dbVars
  <1>6. Recovering'
    BY DEF IInv, OpenFails, Recovering, Settled, Backed, diskVars, dbVars, recVars
  <1> QED
    BY <1>1, <1>2, <1>3, <1>4, <1>5, <1>6 DEF IInv

\* A failed write damages the writer, not the evidence.
LEMMA WriteFailsKeeps == ASSUME IInv, NEW c \in Captures, NEW d \in Directions, WriteFails(c, d) PROVE IInv'
  <1>1. Shape' /\ Owners' /\ Deleting'
    BY CapturesAssumption DEF IInv, WriteFails, Shape, Owners, Deleting, diskVars, dbVars,
           procVars, recVars, delVars
  <1>2. TypeOK'
    BY DEF IInv, WriteFails, TypeOK, Writer, diskVars, dbVars, procVars, recVars, delVars,
           history
  <1>3. LiveShape'
    BY DEF IInv, WriteFails, LiveShape, TypeOK, Fresh, Live, Pre, Settled, diskVars, dbVars,
           procVars, history
  <1>4. Evidence'
    BY DEF IInv, WriteFails, Evidence, Pre, Settled, diskVars, dbVars, history
  <1>5. Whole'
    BY DEF IInv, WriteFails, Whole, Pre, Backed, diskVars, dbVars
  <1>6. Recovering'
    BY DEF IInv, WriteFails, Recovering, Settled, Backed, diskVars, dbVars, recVars
  <1> QED
    BY <1>1, <1>2, <1>3, <1>4, <1>5, <1>6 DEF IInv

\* The second end settles the exchange.
LEMMA EndDirectionKeeps == ASSUME IInv, NEW c \in Captures, NEW d \in Directions, EndDirection(c, d) PROVE IInv'
  <1>1. Shape' /\ Owners' /\ Deleting'
    BY CapturesAssumption DEF IInv, EndDirection, Shape, Owners, Deleting, diskVars, dbVars,
           procVars, recVars, delVars
  <1>2. TypeOK'
    BY DEF IInv, EndDirection, TypeOK, Entry, Outcome, Phase, LivePhase, diskVars, dbVars,
           procVars, recVars, delVars, history
  <1>3. LiveShape'
    BY DEF IInv, EndDirection, LiveShape, TypeOK, Fresh, Live, LivePhase, Pre, Settled,
           diskVars, dbVars, procVars, history
  <1>4. Evidence'
    BY DEF IInv, EndDirection, Evidence, Pre, Settled, diskVars, dbVars, history
  <1>5. Whole'
    BY DEF IInv, EndDirection, Whole, Pre, Backed, diskVars, dbVars
  <1>6. Recovering'
    BY DEF IInv, EndDirection, Recovering, Settled, Backed, diskVars, dbVars, recVars
  <1> QED
    BY <1>1, <1>2, <1>3, <1>4, <1>5, <1>6 DEF IInv

\* A finished writer has a finished file, and is complete only if the end was seen.
LEMMA FinishWriterKeeps == ASSUME IInv, NEW c \in Captures, NEW d \in Directions, FinishWriter(c, d) PROVE IInv'
  <1>1. Shape' /\ Owners' /\ Deleting'
    BY CapturesAssumption DEF IInv, FinishWriter, Shape, Owners, Deleting, dbVars, procVars,
           recVars, delVars
  <1>2. TypeOK'
    BY DEF IInv, FinishWriter, TypeOK, RefStatus, Writer, dbVars, procVars, recVars,
           delVars, history
  <1>3. LiveShape'
    BY DEF IInv, FinishWriter, LiveShape, TypeOK, Fresh, Live, Pre, Settled, dbVars,
           procVars, history
  <1>4. Evidence'
    BY DEF IInv, FinishWriter, Evidence, Pre, Settled, dbVars, history
  <1>5. Whole'
    BY DEF IInv, FinishWriter, Whole, TypeOK, LiveShape, Pre, Backed, dbVars
  <1>6. Recovering'
    BY DEF IInv, FinishWriter, Recovering, Settled, Backed, dbVars, recVars
  <1> QED
    BY <1>1, <1>2, <1>3, <1>4, <1>5, <1>6 DEF IInv

\* A failed finish promises nothing.
LEMMA FinishFailsKeeps == ASSUME IInv, NEW c \in Captures, NEW d \in Directions, FinishFails(c, d) PROVE IInv'
  <1>1. Shape' /\ Owners' /\ Deleting'
    BY CapturesAssumption DEF IInv, FinishFails, Shape, Owners, Deleting, diskVars, dbVars,
           procVars, recVars, delVars
  <1>2. TypeOK'
    BY DEF IInv, FinishFails, TypeOK, RefStatus, Writer, diskVars, dbVars, procVars,
           recVars, delVars, history
  <1>3. LiveShape'
    BY DEF IInv, FinishFails, LiveShape, TypeOK, Fresh, Live, Pre, Settled, diskVars,
           dbVars, procVars, history
  <1>4. Evidence'
    BY DEF IInv, FinishFails, Evidence, Pre, Settled, diskVars, dbVars, history
  <1>5. Whole'
    BY DEF IInv, FinishFails, Whole, Pre, Backed, diskVars, dbVars
  <1>6. Recovering'
    BY DEF IInv, FinishFails, Recovering, Settled, Backed, diskVars, dbVars, recVars
  <1> QED
    BY <1>1, <1>2, <1>3, <1>4, <1>5, <1>6 DEF IInv

\* Recovery finishes a file and repeats or weakens what the journal says of it.
LEMMA RecoverBodyKeeps == ASSUME IInv, NEW d \in Directions, RecoverBody(d) PROVE IInv'
  <1>1. Owners' /\ Deleting'
    BY DEF IInv, RecoverBody, Owners, Deleting, dbVars, procVars, delVars
  <1>2. TypeOK'
    BY DEF IInv, RecoverBody, TypeOK, Shape, Entry, RefStatus, Directions, BodyRef, dbVars,
           procVars, delVars, liveVars, history
  <1>3. Shape'
    BY DEF IInv, RecoverBody, Shape, Directions, delVars
  <1>4. LiveShape'
    <2>1. recStatus = "running"
      BY DEF IInv, Shape, RecoverBody, Directions
    <2>2. \A x \in Captures : ~Live(x)
      BY <2>1 DEF IInv, Owners, LiveShape
    <2>3. \A x \in Captures, e \in Directions : writer[x][e] # "open"
      BY <2>2 DEF IInv, LiveShape, Live, LivePhase
    <2> QED
      BY <2>2, <2>3 DEF IInv, LiveShape, Live, LivePhase, Pre, Fresh, Settled, RecoverBody, dbVars,
                        procVars, liveVars, history
  <1>5. Evidence'
    BY DEF IInv, RecoverBody, Evidence, Pre, Settled, dbVars, liveVars, history
  <1>6. Whole'
    BY DEF IInv, RecoverBody, Whole, Pre, Backed, dbVars, liveVars
  <1>7. Recovering'
    <2>1. recCur \in Captures /\ recCur \in journals /\ ~Settled(recCur)
      BY DEF IInv, TypeOK, Shape, Recovering, RecoverBody, Directions
    <2>2. /\ recRefs' = [recRefs EXCEPT ![d] = BodyRef(recCur, d)]
          /\ recRefs \in [Directions -> RefStatus \cup {"none"}]
          /\ UNCHANGED <<stored, recCur, rows, tombstones>>
      BY DEF RecoverBody, IInv, TypeOK, dbVars
    <2>3. Backed(recCur, stored[recCur].ended, stored[recCur].refs)
      BY <2>1 DEF IInv, Whole, Settled
    <2>4. \A e \in Directions :
            /\ file[recCur][e] \in {"absent", "part", "body"}
            /\ file'[recCur][e] = IF e = d /\ file[recCur][e] = "part" THEN "body"
                                  ELSE file[recCur][e]
      <3>1. file \in [Captures -> [Directions -> {"absent", "part", "body"}]]
        BY DEF IInv, TypeOK
      <3>2. file' = [file EXCEPT ![recCur][d] =
                        IF file[recCur][d] = "part" THEN "body" ELSE file[recCur][d]]
        BY DEF RecoverBody
      <3> QED
        BY <2>1, <3>1, <3>2
    <2>5. ~Settled(recCur)'
      BY <2>1, <2>2 DEF Settled
    <2>6. stored[recCur].refs[d] \in {"none", BodyRef(recCur, d)}
      <3>1. stored[recCur] \in Entry
        BY <2>1 DEF IInv, TypeOK
      <3>2. stored[recCur].refs[d] \in {"none", "complete", "interrupted", "write_error"}
        BY <3>1 DEF Entry, RefStatus
      <3> QED
        BY <2>3, <2>4, <3>2 DEF Backed, BodyRef
    <2>7. CASE d = "request"
      <3>1. recStep' = "response" /\ recRefs = NoRefs
        BY <2>7 DEF RecoverBody, IInv, Recovering
      <3>2. recRefs'["request"] = BodyRef(recCur, "request") /\ recRefs'["response"] = "none"
        BY <2>2, <2>7, <3>1 DEF NoRefs, Directions
      <3>3. Backed(recCur, stored[recCur].ended, recRefs)'
        BY <2>2, <2>3, <2>4, <2>7, <3>2 DEF Backed, BodyRef, Directions
      <3> QED
        BY <2>2, <2>5, <2>6, <2>7, <3>1, <3>2, <3>3 DEF Recovering, Directions
    <2>8. CASE d = "response"
      <3>1. recStep' = "commit" /\ recStep = "response"
        BY <2>8 DEF RecoverBody
      <3>2. recRefs'["response"] = BodyRef(recCur, "response") /\ recRefs'["request"] = recRefs["request"]
        BY <2>2, <2>8 DEF Directions
      <3>3. Backed(recCur, stored[recCur].ended, recRefs)'
        BY <2>2, <2>3, <2>4, <2>8, <3>1, <3>2 DEF IInv, Recovering, Backed, BodyRef, Directions
      <3> QED
        BY <2>2, <2>5, <2>6, <2>8, <3>1, <3>2, <3>3 DEF IInv, Recovering, Directions
    <2> QED
      BY <2>7, <2>8 DEF Directions
  <1> QED
    BY <1>1, <1>2, <1>3, <1>4, <1>5, <1>6, <1>7 DEF IInv

\* Inspecting an original may finish its file, never remove it.
LEMMA InspectOriginalKeeps == ASSUME IInv, NEW d \in Directions, InspectOriginal(d) PROVE IInv'
  <1>1. Shape' /\ Owners' /\ Deleting'
    BY CapturesAssumption DEF IInv, InspectOriginal, Shape, Owners, Deleting, dbVars,
           procVars, recVars
  <1>2. TypeOK'
    BY DEF IInv, InspectOriginal, TypeOK, Shape, dbVars, procVars, recVars, liveVars,
           history
  <1>3. LiveShape'
    BY DEF IInv, InspectOriginal, LiveShape, TypeOK, Shape, Owners, Fresh, Live, LivePhase,
           Pre, Settled, dbVars, liveVars, history
  <1>4. Evidence'
    BY DEF IInv, InspectOriginal, Evidence, Pre, Settled, dbVars, liveVars, history
  <1>5. Whole'
    BY DEF IInv, InspectOriginal, Whole, Pre, Backed, dbVars, liveVars
  <1>6. Recovering'
    BY DEF IInv, InspectOriginal, Recovering, Settled, Backed, dbVars, recVars
  <1> QED
    BY <1>1, <1>2, <1>3, <1>4, <1>5, <1>6 DEF IInv

\* An original is removed under its marker.
LEMMA RemoveOriginalKeeps == ASSUME IInv, NEW d \in Directions, RemoveOriginal(d) PROVE IInv'
  <1>1. Shape' /\ Owners'
    BY CapturesAssumption DEF IInv, RemoveOriginal, Shape, Owners, procVars, recVars
  <1>2. TypeOK'
    BY DEF IInv, RemoveOriginal, TypeOK, Shape, dbVars, procVars, recVars, liveVars, history
  <1>3. LiveShape'
    BY DEF IInv, RemoveOriginal, LiveShape, TypeOK, Shape, Owners, Fresh, Live, LivePhase,
           Pre, Settled, dbVars, liveVars, history
  <1>4. Evidence'
    BY DEF IInv, RemoveOriginal, Evidence, Pre, Settled, dbVars, liveVars, history
  <1>5. Whole'
    BY DEF IInv, RemoveOriginal, Whole, Shape, Evidence, Pre, Settled, Backed, Deleting,
           dbVars, liveVars
  <1>6. Recovering'
    BY DEF IInv, RemoveOriginal, Recovering, Shape, Owners, recVars
  <1>7. Deleting'
    BY DEF IInv, RemoveOriginal, Deleting, TypeOK, Shape, dbVars
  <1> QED
    BY <1>1, <1>2, <1>3, <1>4, <1>5, <1>6, <1>7 DEF IInv

\* An abandoned recovery keeps the journals.
LEMMA RecoverFailsKeeps == ASSUME IInv, NEW kind \in {"capacity", "failed"}, RecoverFails(kind) PROVE IInv'
  <1>1. Shape' /\ Owners' /\ Recovering' /\ Deleting'
    BY CapturesAssumption DEF IInv, RecoverFails, Shape, Owners, Recovering, Deleting,
           diskVars, dbVars, delVars
  <1>2. TypeOK'
    BY DEF IInv, RecoverFails, TypeOK, NoRefs, diskVars, dbVars, delVars, liveVars, history
  <1>3. LiveShape'
    BY DEF IInv, RecoverFails, LiveShape, TypeOK, Fresh, Live, Pre, Settled, diskVars,
           dbVars, liveVars, history
  <1>4. Evidence'
    BY DEF IInv, RecoverFails, Evidence, Pre, Settled, diskVars, dbVars, liveVars, history
  <1>5. Whole'
    BY DEF IInv, RecoverFails, Whole, Pre, Backed, diskVars, dbVars, liveVars
  <1> QED
    BY <1>1, <1>2, <1>3, <1>4, <1>5 DEF IInv

\* Retention at startup takes a row only in exchange for a marker.
LEMMA ServerStartKeeps == ASSUME IInv, ServerStart PROVE IInv'
  <1>1. Owners' /\ Deleting'
    BY DEF IInv, ServerStart, Owners, Deleting, diskVars, delVars
  <1>2. TypeOK'
    <2>1. rows' \subseteq Captures /\ expired' \subseteq Captures /\ tombstones' \subseteq Captures
      BY DEF IInv, TypeOK, ServerStart, ReadCutoff, Begun
    <2>2. Blank \in Row
      BY DEF Blank, Row, NoRefs
    <2>3. saved' \in [Captures -> Row]
      BY <2>2 DEF IInv, TypeOK, ServerStart
    <2> QED
      BY <2>1, <2>3 DEF IInv, TypeOK, ServerStart, diskVars, delVars, liveVars, history
  <1>3. Shape'
    BY DEF IInv, ServerStart, Shape, Owners, delVars
  <1>4. LiveShape'
    BY DEF IInv, ServerStart, LiveShape, TypeOK, Fresh, Live, Pre, Settled, diskVars,
           liveVars, history
  <1>5. Evidence'
    BY DEF IInv, ServerStart, Evidence, Pre, Settled, diskVars, liveVars, history
  <1>6. Whole'
    BY DEF IInv, ServerStart, Whole, Pre, Backed, diskVars, liveVars
  <1>7. Recovering'
    BY DEF IInv, ServerStart, Recovering, Settled, Backed, diskVars
  <1> QED
    BY <1>1, <1>2, <1>3, <1>4, <1>5, <1>6, <1>7 DEF IInv

\* The store is ready once no job is pending.
LEMMA StoreReadyKeeps == ASSUME IInv, StoreReady PROVE IInv'
  <1>1. TypeOK' /\ Shape' /\ Owners' /\ Deleting'
    BY CapturesAssumption DEF IInv, StoreReady, TypeOK, Shape, Owners, Deleting, diskVars,
           dbVars, recVars, delVars, liveVars, history
  <1>2. LiveShape'
    BY DEF IInv, StoreReady, LiveShape, TypeOK, Fresh, Live, Pre, Settled, diskVars, dbVars,
           liveVars, history
  <1>3. Evidence'
    BY DEF IInv, StoreReady, Evidence, Pre, Settled, diskVars, dbVars, liveVars, history
  <1>4. Whole'
    BY DEF IInv, StoreReady, Whole, Pre, Backed, diskVars, dbVars, liveVars
  <1>5. Recovering'
    BY DEF IInv, StoreReady, Recovering, Settled, Backed, diskVars, dbVars, recVars
  <1> QED
    BY <1>1, <1>2, <1>3, <1>4, <1>5 DEF IInv

\* A start may ask for another recovery.
LEMMA StartMonitorKeeps == ASSUME IInv, StartMonitor PROVE IInv'
  <1>1. TypeOK' /\ Shape' /\ Owners' /\ Deleting'
    BY CapturesAssumption DEF IInv, StartMonitor, TypeOK, Shape, Owners, Deleting, diskVars,
           dbVars, delVars, liveVars, history
  <1>2. LiveShape'
    BY DEF IInv, StartMonitor, LiveShape, TypeOK, Fresh, Live, Pre, Settled, diskVars,
           dbVars, liveVars, history
  <1>3. Evidence'
    BY DEF IInv, StartMonitor, Evidence, Pre, Settled, diskVars, dbVars, liveVars, history
  <1>4. Whole'
    BY DEF IInv, StartMonitor, Whole, Pre, Backed, diskVars, dbVars, liveVars
  <1>5. Recovering'
    BY DEF IInv, StartMonitor, Recovering, Settled, Backed, diskVars, dbVars
  <1> QED
    BY <1>1, <1>2, <1>3, <1>4, <1>5 DEF IInv

\* The monitor runs only after recovery is done.
LEMMA BootMonitorKeeps == ASSUME IInv, BootMonitor PROVE IInv'
  <1>1. TypeOK' /\ Shape' /\ Owners' /\ Deleting'
    BY CapturesAssumption DEF IInv, BootMonitor, TypeOK, Shape, Owners, Deleting, diskVars,
           dbVars, recVars, delVars, liveVars, history
  <1>2. LiveShape'
    BY DEF IInv, BootMonitor, LiveShape, TypeOK, Fresh, Live, Pre, Settled, diskVars,
           dbVars, liveVars, history
  <1>3. Evidence'
    BY DEF IInv, BootMonitor, Evidence, Pre, Settled, diskVars, dbVars, liveVars, history
  <1>4. Whole'
    BY DEF IInv, BootMonitor, Whole, Pre, Backed, diskVars, dbVars, liveVars
  <1>5. Recovering'
    BY DEF IInv, BootMonitor, Recovering, Settled, Backed, diskVars, dbVars, recVars
  <1> QED
    BY <1>1, <1>2, <1>3, <1>4, <1>5 DEF IInv

\* Stopping changes no evidence.
LEMMA StopMonitorKeeps == ASSUME IInv, StopMonitor PROVE IInv'
  <1>1. TypeOK' /\ Shape' /\ Owners' /\ Deleting'
    BY CapturesAssumption DEF IInv, StopMonitor, TypeOK, Shape, Owners, Deleting, diskVars,
           dbVars, recVars, delVars, liveVars, history
  <1>2. LiveShape'
    BY DEF IInv, StopMonitor, LiveShape, TypeOK, Fresh, Pre, Settled, diskVars, dbVars,
           liveVars, history
  <1>3. Evidence'
    BY DEF IInv, StopMonitor, Evidence, Pre, Settled, diskVars, dbVars, liveVars, history
  <1>4. Whole'
    BY DEF IInv, StopMonitor, Whole, Pre, Backed, diskVars, dbVars, liveVars
  <1>5. Recovering'
    BY DEF IInv, StopMonitor, Recovering, Settled, Backed, diskVars, dbVars, recVars
  <1> QED
    BY <1>1, <1>2, <1>3, <1>4, <1>5 DEF IInv

\* The requests that are cut at the end of the grace get their outcome first.
LEMMA EndGraceKeeps == ASSUME IInv, EndGrace PROVE IInv'
  <1> DEFINE Cut(cut) ==
        /\ entry' = [c \in Captures |-> IF c \in cut THEN [entry[c] EXCEPT !.outcome = "cut"] ELSE entry[c]]
        /\ phase' = [c \in Captures |-> IF c \in cut THEN "sealing" ELSE phase[c]]
        /\ dirty' = [c \in Captures |-> c \in cut \/ dirty[c]]
  <1>0. PICK cut \in SUBSET {c \in Captures : phase[c] = "open"} : Cut(cut)
    BY DEF EndGrace
  <1>1. Shape' /\ Owners' /\ Deleting'
    BY CapturesAssumption DEF IInv, EndGrace, Shape, Owners, Deleting, diskVars, dbVars,
           recVars, delVars
  <1>2. /\ phase' \in [Captures -> Phase] /\ dirty' \in [Captures -> BOOLEAN]
        /\ entry' \in [Captures -> Entry]
        /\ \A c \in cut : /\ phase[c] = "open" /\ phase'[c] = "sealing" /\ dirty'[c]
                           /\ entry'[c].outcome = "cut" /\ entry'[c].refs = entry[c].refs
                           /\ entry'[c].ended = entry[c].ended
        /\ \A c \in Captures \ cut : phase'[c] = phase[c] /\ dirty'[c] = dirty[c] /\ entry'[c] = entry[c]
    <2>1. entry \in [Captures -> Entry] /\ phase \in [Captures -> Phase] /\ dirty \in [Captures -> BOOLEAN]
      BY DEF IInv, TypeOK
    <2>2. ASSUME NEW c \in Captures
          PROVE  /\ [entry[c] EXCEPT !.outcome = "cut"] \in Entry
                 /\ [entry[c] EXCEPT !.outcome = "cut"].outcome = "cut"
                 /\ [entry[c] EXCEPT !.outcome = "cut"].refs = entry[c].refs
                 /\ [entry[c] EXCEPT !.outcome = "cut"].ended = entry[c].ended
      BY <2>1 DEF Entry, Outcome
    <2>3. entry' \in [Captures -> Entry]
      BY <1>0, <2>1, <2>2
    <2>4. phase' \in [Captures -> Phase]
      BY <1>0, <2>1 DEF Phase, LivePhase
    <2>5. dirty' \in [Captures -> BOOLEAN]
      BY <1>0, <2>1
    <2>6. \A c \in cut : /\ phase[c] = "open" /\ phase'[c] = "sealing" /\ dirty'[c]
                         /\ entry'[c].outcome = "cut" /\ entry'[c].refs = entry[c].refs
                         /\ entry'[c].ended = entry[c].ended
      BY <1>0, <2>2
    <2>7. ASSUME NEW c \in Captures \ cut
          PROVE  phase'[c] = phase[c] /\ dirty'[c] = dirty[c] /\ entry'[c] = entry[c]
      <3>1. phase'[c] = phase[c] /\ entry'[c] = entry[c]
        BY <1>0
      <3>2. dirty'[c] = (c \in cut \/ dirty[c])
        BY <1>0, Zenon
      <3>3. dirty[c] \in BOOLEAN
        BY <2>1
      <3> QED
        BY <3>1, <3>2, <3>3
    <2> QED
      BY <2>3, <2>4, <2>5, <2>6, <2>7
  <1>3. UNCHANGED <<admission, writer, stored, file, journals, rows, saved, tombstones, job,
                    expired, saves, notified, monitor, awaited>> /\ shutdown' = "sockets"
    BY DEF EndGrace, diskVars, dbVars, history
  <1>4. TypeOK'
    BY <1>2 DEF IInv, TypeOK, EndGrace, diskVars, dbVars, recVars, delVars, history
  <1> HIDE DEF Cut
  <1>5. LiveShape'
    BY <1>2, <1>3 DEF IInv, LiveShape, Fresh, Live, LivePhase, Pre, Settled
  <1>6. Evidence'
    BY <1>2, <1>3 DEF IInv, Evidence, Pre, Settled
  <1>7. Whole'
    BY <1>2, <1>3 DEF IInv, Whole, Pre, Backed
  <1>8. Recovering'
    BY DEF IInv, EndGrace, Recovering, Settled, Backed, diskVars, dbVars, recVars
  <1> QED
    BY <1>1, <1>4, <1>5, <1>6, <1>7, <1>8 DEF IInv

\* The finalizations are counted when no exchange is open any more.
LEMMA SocketsClosedKeeps == ASSUME IInv, SocketsClosed PROVE IInv'
  <1>1. TypeOK' /\ Shape' /\ Owners' /\ Deleting'
    BY CapturesAssumption DEF IInv, SocketsClosed, TypeOK, Shape, Owners, Deleting,
           diskVars, dbVars, recVars, delVars, liveVars, history
  <1>2. LiveShape'
    BY DEF IInv, SocketsClosed, LiveShape, TypeOK, Fresh, Live, Pre, Settled, diskVars,
           dbVars, liveVars, history
  <1>3. Evidence'
    BY DEF IInv, SocketsClosed, Evidence, Pre, Settled, diskVars, dbVars, liveVars, history
  <1>4. Whole'
    BY DEF IInv, SocketsClosed, Whole, Pre, Backed, diskVars, dbVars, liveVars
  <1>5. Recovering'
    BY DEF IInv, SocketsClosed, Recovering, Settled, Backed, diskVars, dbVars, recVars
  <1> QED
    BY <1>1, <1>2, <1>3, <1>4, <1>5 DEF IInv

\* The monitor is idle when no exchange is live.
LEMMA MonitorStoppedKeeps == ASSUME IInv, MonitorStopped PROVE IInv'
  <1>1. TypeOK' /\ Shape' /\ Owners' /\ Deleting'
    BY CapturesAssumption DEF IInv, MonitorStopped, TypeOK, Shape, Owners, Deleting,
           diskVars, dbVars, recVars, delVars, liveVars, history
  <1>2. LiveShape'
    BY DEF IInv, MonitorStopped, LiveShape, TypeOK, Fresh, Live, Pre, Settled, diskVars,
           dbVars, liveVars, history
  <1>3. Evidence'
    BY DEF IInv, MonitorStopped, Evidence, Pre, Settled, diskVars, dbVars, liveVars, history
  <1>4. Whole'
    BY DEF IInv, MonitorStopped, Whole, Pre, Backed, diskVars, dbVars, liveVars
  <1>5. Recovering'
    BY DEF IInv, MonitorStopped, Recovering, Settled, Backed, diskVars, dbVars, recVars
  <1> QED
    BY <1>1, <1>2, <1>3, <1>4, <1>5 DEF IInv

\* A crash forgets every actor and keeps what is durable.
LEMMA CrashKeeps == ASSUME IInv, Crash PROVE IInv'
  <1>1. Shape' /\ Owners' /\ Recovering' /\ Deleting'
    BY CapturesAssumption DEF IInv, Crash, Shape, Owners, Recovering, Deleting
  <1>2. TypeOK'
    BY DEF IInv, Crash, TypeOK, Shape, Entry, Row, RefStatus, Directions, Outcome, Writer,
           Phase, LivePhase, Blank, NoRefs, diskVars, dbVars, history
  <1>3. LiveShape'
    BY DEF IInv, Crash, LiveShape, TypeOK, Fresh, Live, LivePhase, Pre, Settled, diskVars,
           dbVars, history
  <1>4. Evidence'
    BY DEF IInv, Crash, Evidence, Pre, Settled, diskVars, dbVars, history
  <1>5. Whole'
    BY DEF IInv, Crash, Whole, Pre, Backed, diskVars, dbVars
  <1> QED
    BY <1>1, <1>2, <1>3, <1>4, <1>5 DEF IInv

\* Recovery starts on a ready store with the journals it finds.
LEMMA RecoverBeginKeeps == ASSUME IInv, RecoverBegin PROVE IInv'
  <1>1. Shape' /\ Owners' /\ Deleting'
    BY CapturesAssumption DEF IInv, RecoverBegin, Shape, Owners, Deleting, diskVars,
           procVars, delVars
  <1>2. TypeOK'
    BY DEF IInv, RecoverBegin, TypeOK, Begun, ReadCutoff, diskVars, procVars, delVars,
           liveVars, history
  <1>3. LiveShape'
    BY DEF IInv, RecoverBegin, LiveShape, TypeOK, Fresh, Live, Pre, Settled, diskVars,
           procVars, liveVars, history
  <1>4. Evidence'
    BY DEF IInv, RecoverBegin, Evidence, Pre, Settled, diskVars, liveVars, history
  <1>5. Whole'
    BY DEF IInv, RecoverBegin, Whole, Pre, Backed, diskVars, liveVars
  <1>6. Recovering'
    BY DEF IInv, RecoverBegin, Recovering, Settled, Backed, diskVars
  <1> QED
    BY <1>1, <1>2, <1>3, <1>4, <1>5, <1>6 DEF IInv

\* An expired capture is marked, a marked or current one goes on.
LEMMA RecoverExpireKeeps == ASSUME IInv, RecoverExpire PROVE IInv'
  <1>1. TypeOK' /\ Shape' /\ Owners' /\ Deleting'
    BY CapturesAssumption DEF IInv, RecoverExpire, TypeOK, Shape, Owners, Deleting,
           diskVars, procVars, delVars, liveVars, history
  <1>2. LiveShape'
    BY DEF IInv, RecoverExpire, LiveShape, TypeOK, Shape, Fresh, Live, Pre, Settled,
           diskVars, procVars, liveVars, history
  <1>3. Evidence'
    BY DEF IInv, RecoverExpire, Evidence, Shape, Owners, LiveShape, Live, LivePhase, Pre,
           Settled, diskVars, liveVars, history
  <1>4. Whole'
    BY DEF IInv, RecoverExpire, Whole, Pre, Backed, diskVars, liveVars
  <1>5. Recovering'
    BY DEF IInv, RecoverExpire, Recovering, Settled
  <1> QED
    BY <1>1, <1>2, <1>3, <1>4, <1>5 DEF IInv

\* Recovery inserts a capture that was not settled before, with backed refs.
LEMMA RecoverCommitKeeps == ASSUME IInv, RecoverCommit PROVE IInv'
  <1>1. Shape' /\ Owners' /\ Deleting'
    BY CapturesAssumption DEF IInv, RecoverCommit, Shape, Owners, Deleting, diskVars,
           procVars, delVars
  <1>2. TypeOK'
    <2>1. recCur \in Captures /\ recCur \notin rows
      BY DEF IInv, TypeOK, Shape, Recovering, Settled, RecoverCommit
    <2>2. /\ saves \in [Captures -> Nat] /\ saves' = [saves EXCEPT ![recCur] = saves[recCur] + 1]
          /\ rows' = rows \cup {recCur} /\ saved' = [saved EXCEPT ![recCur] = RecoveredRow]
      BY <2>1 DEF IInv, TypeOK, RecoverCommit, Insert
    <2>3. saves' \in [Captures -> Nat]
      <3>1. saves[recCur] + 1 \in Nat
        BY <2>1, <2>2
      <3> QED
        BY <2>1, <2>2, <3>1
    <2>4. RecoveredRow \in Row
      <3>1. stored[recCur] \in Entry /\ recRefs \in [Directions -> RefStatus \cup {"none"}]
        BY <2>1 DEF IInv, TypeOK
      <3> QED
        BY <3>1 DEF Entry, Row, RecoveredRow
    <2> QED
      BY <2>1, <2>2, <2>3, <2>4
         DEF IInv, TypeOK, RecoverCommit, diskVars, procVars, delVars, liveVars
  <1>3. LiveShape'
    BY DEF IInv, RecoverCommit, LiveShape, TypeOK, Shape, Fresh, Live, Pre, Settled, Insert,
           diskVars, procVars, liveVars
  <1>4. Evidence'
    BY DEF IInv, RecoverCommit, Evidence, TypeOK, Shape, Owners, LiveShape, Live, LivePhase,
           Pre, Settled, Recovering, Insert, diskVars, liveVars
  <1>5. Whole'
    <2>1. recCur \in Captures /\ recCur \notin rows /\ saved \in [Captures -> Row]
      BY DEF IInv, TypeOK, Shape, Recovering, Settled, RecoverCommit
    <2>2. Backed(recCur, RecoveredRow.ended, RecoveredRow.refs)
      BY DEF IInv, Recovering, RecoverCommit, RecoveredRow
    <2>3. rows' = rows \cup {recCur} /\ saved' = [saved EXCEPT ![recCur] = RecoveredRow]
      BY <2>1 DEF RecoverCommit, Insert
    <2> QED
      BY <2>1, <2>2, <2>3 DEF IInv, Whole, Backed, Pre, RecoverCommit, diskVars, liveVars
  <1>6. Recovering'
    BY DEF IInv, RecoverCommit, Recovering, Settled, Insert
  <1> QED
    BY <1>1, <1>2, <1>3, <1>4, <1>5, <1>6 DEF IInv

\* Recovery removes the journal of a settled capture.
LEMMA RecoverDropKeeps == ASSUME IInv, RecoverDrop PROVE IInv'
  <1>1. Shape' /\ Owners' /\ Recovering' /\ Deleting'
    BY CapturesAssumption DEF IInv, RecoverDrop, Shape, Owners, Recovering, Deleting,
           dbVars, procVars, delVars
  <1>2. TypeOK'
    BY DEF IInv, RecoverDrop, TypeOK, Shape, Entry, Blank, NoRefs, dbVars, procVars,
           delVars, liveVars, history
  <1>3. LiveShape'
    <2>1. recCur \in Captures /\ phase[recCur] # "new" /\ ~Pre(recCur)
      BY DEF IInv, TypeOK, Shape, Owners, LiveShape, Live, LivePhase, Pre, Recovering, Fresh,
             RecoverDrop
    <2>2. /\ stored \in [Captures -> Entry] /\ journals' = journals \ {recCur}
          /\ stored' = [stored EXCEPT ![recCur] = Blank]
      BY DEF IInv, TypeOK, RecoverDrop
    <2> QED
      BY <2>1, <2>2 DEF IInv, LiveShape, Live, Pre, Fresh, Settled, RecoverDrop, dbVars, procVars,
                        liveVars, history
  <1>4. Evidence'
    BY DEF IInv, RecoverDrop, Evidence, Pre, Settled, Recovering, dbVars, liveVars, history
  <1>5. Whole'
    BY DEF IInv, RecoverDrop, Whole, Pre, Backed, dbVars, liveVars
  <1> QED
    BY <1>1, <1>2, <1>3, <1>4, <1>5 DEF IInv

\* Recovery ends when no journal is left to do.
LEMMA RecoverDoneKeeps == ASSUME IInv, RecoverDone PROVE IInv'
  <1>1. TypeOK' /\ Shape' /\ Owners' /\ Deleting'
    BY CapturesAssumption DEF IInv, RecoverDone, TypeOK, Shape, Owners, Deleting, diskVars,
           dbVars, delVars, liveVars, history
  <1>2. LiveShape'
    BY DEF IInv, RecoverDone, LiveShape, TypeOK, Fresh, Live, Pre, Settled, diskVars,
           dbVars, liveVars, history
  <1>3. Evidence'
    BY DEF IInv, RecoverDone, Evidence, Pre, Settled, diskVars, dbVars, liveVars, history
  <1>4. Whole'
    BY DEF IInv, RecoverDone, Whole, Pre, Backed, diskVars, dbVars, liveVars
  <1>5. Recovering'
    BY DEF IInv, RecoverDone, Recovering, Settled, Backed, diskVars, dbVars
  <1> QED
    BY <1>1, <1>2, <1>3, <1>4, <1>5 DEF IInv

\* The identity of a job is already marked when it is marked again.
LEMMA VerifyDeletionKeeps == ASSUME IInv, VerifyDeletion PROVE IInv'
  <1>1. Shape' /\ Owners' /\ Deleting'
    BY CapturesAssumption DEF IInv, VerifyDeletion, Shape, Owners, Deleting, diskVars,
           procVars, recVars
  <1>2. TypeOK'
    BY DEF IInv, VerifyDeletion, TypeOK, Shape, diskVars, procVars, recVars, liveVars,
           history
  <1>3. LiveShape'
    <2>1. tombstones' = tombstones
      BY DEF IInv, TypeOK, Shape, Evidence, Deleting, VerifyDeletion
    <2> QED
      BY <2>1 DEF IInv, LiveShape, Live, Pre, Fresh, Settled, VerifyDeletion, diskVars, procVars,
                  liveVars, history
  <1>4. Evidence'
    BY DEF IInv, VerifyDeletion, Evidence, Shape, Pre, Settled, Deleting, diskVars,
           liveVars, history
  <1>5. Whole'
    BY DEF IInv, VerifyDeletion, Whole, Pre, Backed, diskVars, liveVars
  <1>6. Recovering'
    BY DEF IInv, VerifyDeletion, Recovering, Shape, Owners, recVars
  <1> QED
    BY <1>1, <1>2, <1>3, <1>4, <1>5, <1>6 DEF IInv

\* Removal starts with both originals still to do.
LEMMA BeginRemovalKeeps == ASSUME IInv, BeginRemoval PROVE IInv'
  <1>1. TypeOK' /\ Shape' /\ Owners' /\ Deleting'
    BY CapturesAssumption DEF IInv, BeginRemoval, TypeOK, Shape, Owners, Deleting, diskVars,
           dbVars, procVars, recVars, liveVars, history
  <1>2. LiveShape'
    BY DEF IInv, BeginRemoval, LiveShape, TypeOK, Fresh, Live, Pre, Settled, diskVars,
           dbVars, procVars, liveVars, history
  <1>3. Evidence'
    BY DEF IInv, BeginRemoval, Evidence, Pre, Settled, diskVars, dbVars, liveVars, history
  <1>4. Whole'
    BY DEF IInv, BeginRemoval, Whole, Pre, Backed, diskVars, dbVars, liveVars
  <1>5. Recovering'
    BY DEF IInv, BeginRemoval, Recovering, Settled, Backed, diskVars, dbVars, recVars
  <1> QED
    BY <1>1, <1>2, <1>3, <1>4, <1>5 DEF IInv

\* A job is complete when both originals are gone.
LEMMA CompleteDeletionKeeps == ASSUME IInv, CompleteDeletion PROVE IInv'
  <1>1. Shape' /\ Owners' /\ Deleting'
    BY CapturesAssumption DEF IInv, CompleteDeletion, Shape, Owners, Deleting, diskVars,
           procVars, recVars
  <1>2. TypeOK'
    BY DEF IInv, CompleteDeletion, TypeOK, Shape, diskVars, procVars, recVars, liveVars,
           history
  <1>3. LiveShape'
    BY DEF IInv, CompleteDeletion, LiveShape, TypeOK, Fresh, Live, Pre, Settled, diskVars,
           procVars, liveVars, history
  <1>4. Evidence'
    BY DEF IInv, CompleteDeletion, Evidence, Shape, Pre, Settled, Deleting, diskVars,
           liveVars, history
  <1>5. Whole'
    BY DEF IInv, CompleteDeletion, Whole, Pre, Backed, diskVars, liveVars
  <1>6. Recovering'
    BY DEF IInv, CompleteDeletion, Recovering, Settled, Backed, diskVars, recVars
  <1> QED
    BY <1>1, <1>2, <1>3, <1>4, <1>5, <1>6 DEF IInv

\* A failing deletion keeps its job.
LEMMA DeletionFailsKeeps == ASSUME IInv, DeletionFails PROVE IInv'
  <1>1. TypeOK' /\ Shape' /\ Owners' /\ Deleting'
    BY CapturesAssumption DEF IInv, DeletionFails, TypeOK, Shape, Owners, Deleting,
           diskVars, dbVars, procVars, recVars, liveVars, history
  <1>2. LiveShape'
    BY DEF IInv, DeletionFails, LiveShape, TypeOK, Fresh, Live, Pre, Settled, diskVars,
           dbVars, procVars, liveVars, history
  <1>3. Evidence'
    BY DEF IInv, DeletionFails, Evidence, Pre, Settled, diskVars, dbVars, liveVars, history
  <1>4. Whole'
    BY DEF IInv, DeletionFails, Whole, Pre, Backed, diskVars, dbVars, liveVars
  <1>5. Recovering'
    BY DEF IInv, DeletionFails, Recovering, Settled, Backed, diskVars, dbVars, recVars
  <1> QED
    BY <1>1, <1>2, <1>3, <1>4, <1>5 DEF IInv

\* A failed job can be run again.
LEMMA RecordFailureKeeps == ASSUME IInv, RecordFailure PROVE IInv'
  <1>1. Shape' /\ Owners' /\ Deleting'
    BY CapturesAssumption DEF IInv, RecordFailure, Shape, Owners, Deleting, diskVars,
           procVars, recVars
  <1>2. TypeOK'
    BY DEF IInv, RecordFailure, TypeOK, Shape, diskVars, procVars, recVars, liveVars,
           history
  <1>3. LiveShape'
    BY DEF IInv, RecordFailure, LiveShape, TypeOK, Fresh, Live, Pre, Settled, diskVars,
           procVars, liveVars, history
  <1>4. Evidence'
    BY DEF IInv, RecordFailure, Evidence, Shape, Pre, Settled, Deleting, diskVars, liveVars,
           history
  <1>5. Whole'
    BY DEF IInv, RecordFailure, Whole, Pre, Backed, diskVars, liveVars
  <1>6. Recovering'
    BY DEF IInv, RecordFailure, Recovering, Settled, Backed, diskVars, recVars
  <1> QED
    BY <1>1, <1>2, <1>3, <1>4, <1>5, <1>6 DEF IInv

\* A job whose failure cannot be written stays pending or failed.
LEMMA RecordFailureFailsKeeps == ASSUME IInv, RecordFailureFails PROVE IInv'
  <1>1. TypeOK' /\ Owners' /\ Deleting'
    BY DEF IInv, RecordFailureFails, TypeOK, Owners, Deleting, diskVars, dbVars, liveVars,
           history
  <1>2. Shape'
    BY DEF IInv, RecordFailureFails, Shape, Owners
  <1>3. LiveShape'
    BY DEF IInv, RecordFailureFails, LiveShape, TypeOK, Fresh, Live, Pre, Settled, diskVars,
           dbVars, liveVars, history
  <1>4. Evidence'
    BY DEF IInv, RecordFailureFails, Evidence, Pre, Settled, diskVars, dbVars, liveVars,
           history
  <1>5. Whole'
    BY DEF IInv, RecordFailureFails, Whole, Pre, Backed, diskVars, dbVars, liveVars
  <1>6. Recovering'
    BY DEF IInv, RecordFailureFails, Recovering, Settled, Backed, diskVars, dbVars
  <1> QED
    BY <1>1, <1>2, <1>3, <1>4, <1>5, <1>6 DEF IInv
---------------------------------------------------------------------------
(* What follows from the invariant: the theorems and what they rest on *)

\* The machine starts inside the invariant.
LEMMA InitInv == Init => IInv
  <1> SUFFICES ASSUME Init PROVE IInv
    OBVIOUS
  <1>1. Blank \in Entry /\ Blank \in Row /\ NoRefs \in [Directions -> RefStatus \cup {"none"}]
    BY DEF Blank, NoRefs, Entry, Row
  <1>2. TypeOK
    BY <1>1 DEF Init, TypeOK, Phase, LivePhase, Writer
  <1>3. Shape /\ Owners
    BY DEF Init, Shape, Owners
  <1>4. LiveShape /\ Evidence /\ Whole
    BY DEF Init, LiveShape, Fresh, Live, LivePhase, Pre, Settled, Evidence, Whole, Backed, Blank, NoRefs
  <1>5. Recovering /\ Deleting
    BY DEF Init, Recovering, Deleting, NoRefs
  <1> QED
    BY <1>2, <1>3, <1>4, <1>5 DEF IInv

\* A step that changes nothing keeps the invariant.
LEMMA StutterKeeps == ASSUME IInv, UNCHANGED vars PROVE IInv'
  BY DEF IInv, TypeOK, Shape, Owners, LiveShape, Evidence, Whole, Recovering, Deleting,
         Live, Pre, Settled, Fresh, Backed, vars, diskVars, dbVars, procVars, recVars, delVars,
         liveVars, history

\* Every step preserves the invariant, by the lemma of its action.
LEMMA NextKeeps == ASSUME IInv, Next PROVE IInv'
  <1>1. ASSUME NEW c \in Captures, CaptureStep(c) PROVE IInv'
    BY <1>1, PersistJournalKeeps, ObserveResponseKeeps, CancelKeeps, JournalSettledKeeps,
       IndexRefsKeeps, CommitKeeps, RemoveJournalKeeps, NotifyKeeps, OpenOriginalKeeps,
       OpenRefusedKeeps, EndDirectionKeeps, FinishWriterKeeps DEF CaptureStep
  <1>2. ASSUME NEW c \in Captures, CaptureFault(c) PROVE IInv'
    BY <1>2, PersistFailsKeeps, CommitFailsKeeps, RemoveFailsKeeps, OpenFailsKeeps,
       WriteFailsKeeps, FinishFailsKeeps DEF CaptureFault
  <1>3. ASSUME RecoveryStep PROVE IInv'
    BY <1>3, StoreReadyKeeps, RecoverBeginKeeps, RecoverExpireKeeps, RecoverCommitKeeps,
       RecoverDropKeeps, RecoverDoneKeeps, RecoverPickKeeps, RecoverBodyKeeps DEF RecoveryStep
  <1>4. ASSUME DeletionStep PROVE IInv'
    BY <1>4, VerifyDeletionKeeps, BeginRemovalKeeps, CompleteDeletionKeeps, RecordFailureKeeps,
       ResumeDeletionKeeps, InspectOriginalKeeps, RemoveOriginalKeeps DEF DeletionStep
  <1>5. ASSUME MonitorStep PROVE IInv'
    BY <1>5, StartMonitorKeeps, BootMonitorKeeps, StopMonitorKeeps, EndGraceKeeps,
       SocketsClosedKeeps, MonitorStoppedKeeps DEF MonitorStep
  <1>6. CASE Step
    BY <1>1, <1>3, <1>4, <1>5, <1>6, ServerStartKeeps, BeginCaptureKeeps, RequestDeletionKeeps
       DEF Step
  <1>7. CASE Fault
    BY <1>2, <1>7, CrashKeeps, DeletionFailsKeeps, RecordFailureFailsKeeps, RecoverFailsKeeps
       DEF Fault
  <1> QED
    BY <1>6, <1>7 DEF Next

\* IInv holds in every reachable state.
THEOREM Invariance == Spec => []IInv
  <1>1. IInv /\ [Next]_vars => IInv'
    BY NextKeeps, StutterKeeps
  <1> QED
    BY InitInv, <1>1, PTL DEF Spec

\* Every variable keeps its type.
THEOREM TypeCorrect == Spec => []TypeOK
  <1>1. IInv => TypeOK
    BY DEF IInv
  <1> QED
    BY Invariance, <1>1, PTL

\* Every original on disk is named by a journal, a row or a marker.
THEOREM Traceable == Spec => []EvidenceTraceable
  <1>1. IInv => EvidenceTraceable
    BY DEF IInv, EvidenceTraceable, Evidence, Settled
  <1> QED
    BY Invariance, <1>1, PTL

\* No capture is inserted twice, whatever is retried, recovered or deleted.
THEOREM InsertedOnce == Spec => []SavedAtMostOnce
  <1>1. IInv => SavedAtMostOnce
    <2> SUFFICES ASSUME IInv, NEW c \in Captures PROVE saves[c] <= 1
      BY DEF SavedAtMostOnce
    <2>1. saves[c] = 0 \/ saves[c] = 1
      BY DEF IInv, Evidence
    <2> QED
      BY <2>1
  <1> QED
    BY Invariance, <1>1, PTL

\* What was announced as saved was committed.
THEOREM AnnouncedAfterCommit == Spec => []NotifiedIsCommitted
  <1>1. IInv => NotifiedIsCommitted
    BY DEF IInv, TypeOK, NotifiedIsCommitted, Evidence, Settled
  <1> QED
    BY Invariance, <1>1, PTL

\* A complete ref was seen to its end and has a finished file.
THEOREM CompleteBodiesAreWhole == Spec => []CompleteIsWhole
  <1>1. IInv => CompleteIsWhole
    BY DEF IInv, TypeOK, CompleteIsWhole, Whole, Backed
  <1> QED
    BY Invariance, <1>1, PTL

\* A deletion reported complete has left no original.
THEOREM CompleteDeletionsAreEmpty == Spec => []CompleteDeletionIsEmpty
  <1>1. IInv => CompleteDeletionIsEmpty
    BY DEF IInv, CompleteDeletionIsEmpty, Evidence
  <1> QED
    BY Invariance, <1>1, PTL

\* Live writers, recovery and deletion never hold the files together.
THEOREM OwnersTakeTurns == Spec => []OwnersExclude
  <1>1. IInv => OwnersExclude
    <2> SUFFICES ASSUME IInv PROVE OwnersExclude
      OBVIOUS
    <2>1. WritersActive => monitor \in {"running", "stopping"}
      BY DEF IInv, LiveShape, WritersActive, Live, LivePhase
    <2> QED
      BY <2>1 DEF IInv, TypeOK, Shape, Owners, OwnersExclude
  <1> QED
    BY Invariance, <1>1, PTL

\* Which captures a step inserts, and from what: only the two commits insert,
\* and recovery's commit repeats what the journal recorded.
LEMMA InsertedBy ==
  ASSUME IInv, Next, NEW c \in Captures, c \notin rows, c \in rows'
  PROVE  Commit(c) \/ (RecoverCommit /\ recCur = c)
  BY DEF Next, Step, Fault, CaptureStep, CaptureFault, RecoveryStep, DeletionStep, MonitorStep,
         BeginCapture, PersistJournal, PersistFails, ObserveResponse, Cancel, JournalSettled,
         IndexRefs, Commit, CommitFails, RemoveJournal, RemoveFails, Notify, RecoverPick,
         RequestDeletion, ResumeDeletion, OpenOriginal, OpenRefused, OpenFails, WriteFails,
         EndDirection, FinishWriter, FinishFails, RecoverBody, InspectOriginal, RemoveOriginal,
         RecoverFails, ServerStart, StoreReady, StartMonitor, BootMonitor, StopMonitor,
         EndGrace, SocketsClosed, MonitorStopped, Crash, RecoverBegin, RecoverExpire, RecoverCommit, RecoverDrop,
         RecoverDone, VerifyDeletion, BeginRemoval, CompleteDeletion, DeletionFails,
         RecordFailure, RecordFailureFails, Insert, dbVars

\* The observed outcome and the finished refs survive into the row unchanged.
THEOREM EvidenceKept == Spec => RecordedEvidenceKept
  <1>1. ASSUME IInv, [Next]_vars, NEW c \in journals, c \in rows' \ rows
        PROVE  /\ stored[c].outcome # "none" => saved'[c].outcome = stored[c].outcome
               /\ \A d \in Directions :
                     stored[c].refs[d] # "none" => saved'[c].refs[d] = stored[c].refs[d]
    <2>1. c \in Captures /\ c \notin rows /\ saved \in [Captures -> Row]
      BY <1>1 DEF IInv, TypeOK
    <2>2. CASE Commit(c)
      <3>1. Pre(c) /\ saved'[c] = entry[c]
        BY <2>1, <2>2 DEF Commit, Insert, Pre
      <3> QED
        BY <1>1, <2>1, <3>1 DEF IInv, LiveShape
    <2>3. CASE RecoverCommit /\ recCur = c
      <3>1. saved'[c] = RecoveredRow /\ recStep = "commit"
        BY <2>1, <2>3 DEF RecoverCommit, Insert
      <3> QED
        BY <1>1, <2>3, <3>1 DEF IInv, Recovering, RecoveredRow
    <2>4. Next
      BY <1>1 DEF vars, dbVars
    <2> QED
      BY <1>1, <2>1, <2>2, <2>3, <2>4, InsertedBy
  <1>2. IInv /\ [Next]_vars =>
          [\A c \in journals : c \in rows' \ rows =>
              /\ stored[c].outcome # "none" => saved'[c].outcome = stored[c].outcome
              /\ \A d \in Directions :
                    stored[c].refs[d] # "none" => saved'[c].refs[d] = stored[c].refs[d]]_vars
    BY <1>1
  <1> QED
    BY Invariance, <1>2, PTL DEF RecordedEvidenceKept, Spec

\* Only the removal step of a deletion unlinks an original.
LEMMA UnlinkedBy ==
  ASSUME IInv, Next, NEW c \in Captures, NEW d \in Directions,
         file[c][d] # "absent", file'[c][d] = "absent"
  PROVE  delStep = "remove" /\ delCur = c
  <1>1. file \in [Captures -> [Directions -> {"absent", "part", "body"}]]
    BY DEF IInv, TypeOK
  <1>2. file' # file
    OBVIOUS
  <1>4. ASSUME NEW x \in Captures, NEW e \in Directions,
               OpenOriginal(x, e) \/ FinishWriter(x, e)
        PROVE  FALSE
    <2>1. file' = [file EXCEPT ![x][e] = IF file[x][e] = "part" THEN "body" ELSE file[x][e]]
          \/ file' = [file EXCEPT ![x][e] = "part"]
      BY <1>4 DEF OpenOriginal, FinishWriter
    <2> QED
      BY <1>1, <2>1
  <1>5. ASSUME NEW x \in Captures, NEW e \in Directions,
               file' = [file EXCEPT ![x][e] = IF file[x][e] = "part" THEN "body" ELSE file[x][e]]
        PROVE  FALSE
    BY <1>1, <1>5
  <1>6. ASSUME NEW e \in Directions, RecoverBody(e) \/ InspectOriginal(e) PROVE FALSE
    <2>1. recCur \in Captures \/ ~RecoverBody(e)
      BY DEF IInv, TypeOK, Shape, RecoverBody, Directions
    <2>2. delCur \in Captures \/ ~InspectOriginal(e)
      BY DEF IInv, TypeOK, Shape, InspectOriginal
    <2> QED
      BY <1>5, <1>6, <2>1, <2>2 DEF RecoverBody, InspectOriginal
  <1>7. ASSUME NEW e \in Directions, RemoveOriginal(e) PROVE delStep = "remove" /\ delCur = c
    <2>1. delStep = "remove" /\ file' = [file EXCEPT ![delCur][e] = "absent"]
      BY <1>7 DEF RemoveOriginal
    <2> QED
      BY <1>1, <2>1
  <1> QED
    BY <1>2, <1>4, <1>6, <1>7
       DEF Next, Step, Fault, CaptureStep, CaptureFault, RecoveryStep, DeletionStep, MonitorStep,
           BeginCapture, PersistJournal, PersistFails, ObserveResponse, Cancel, JournalSettled,
           IndexRefs, Commit, CommitFails, RemoveJournal, RemoveFails, Notify, RecoverPick,
           RequestDeletion, ResumeDeletion, OpenRefused, OpenFails, WriteFails, EndDirection,
           FinishFails, RecoverFails, ServerStart, StoreReady, StartMonitor, BootMonitor,
           StopMonitor, EndGrace, SocketsClosed, MonitorStopped, Crash, RecoverBegin, RecoverExpire, RecoverCommit,
           RecoverDrop, RecoverDone, VerifyDeletion, BeginRemoval, CompleteDeletion,
           DeletionFails, RecordFailure, RecordFailureFails, diskVars

\* An original is unlinked only under a durable intent and marker.
THEOREM RemovalAuthorized == Spec => RemovalIsAuthorized
  <1>1. ASSUME IInv, [Next]_vars, NEW c \in Captures, NEW d \in Directions,
               file[c][d] # "absent", file'[c][d] = "absent"
        PROVE  c \in tombstones /\ job[c] # "none"
    <2>1. Next
      BY <1>1 DEF vars, diskVars
    <2>2. delStep = "remove" /\ delCur = c
      BY <1>1, <2>1, UnlinkedBy
    <2>3. job[c] # "none"
      BY <1>1, <2>2 DEF IInv, Shape, Deleting
    <2> QED
      BY <1>1, <2>3 DEF IInv, Evidence
  <1>2. IInv /\ [Next]_vars =>
          [\A c \in Captures, d \in Directions :
              file[c][d] # "absent" /\ file'[c][d] = "absent"
                  => c \in tombstones /\ job[c] # "none"]_vars
    BY <1>1
  <1> QED
    BY Invariance, <1>2, PTL DEF RemovalIsAuthorized, Spec

\* The fates of all captures, as CaptureLedger sees them.
Fates == [c \in Captures |-> Fate(c)]

\* Journals, rows and markers decide the fates.
LEMMA FatesFrame == ASSUME UNCHANGED <<journals, rows, tombstones>> PROVE Fates' = Fates
  BY DEF Fates, Fate

\* A durable journal entry holds its capture.
LEMMA PersistHolds ==
  ASSUME IInv, NEW c \in Captures, PersistJournal(c) PROVE Ledger!Next \/ Fates' = Fates
  <1>1. c \notin rows /\ c \notin tombstones
    BY DEF IInv, LiveShape, Evidence, Pre, Settled, PersistJournal
  <1>2. journals' = journals \cup {c} /\ rows' = rows /\ tombstones' = tombstones
    BY DEF PersistJournal, dbVars
  <1>3. CASE c \in journals
    BY <1>2, <1>3 DEF Fates, Fate
  <1>4. CASE c \notin journals
    <2>1. Fates[c] = "unknown" /\ Fates' = [Fates EXCEPT ![c] = "held"]
      BY <1>1, <1>2, <1>4 DEF Fates, Fate
    <2> QED
      BY <2>1 DEF Ledger!Next, Ledger!Hold, Fates
  <1> QED
    BY <1>3, <1>4

\* Inserting a capture that is not settled saves it.
LEMMA InsertSaves ==
  ASSUME NEW c \in Captures, ~Settled(c),
         rows' = rows \cup {c}, UNCHANGED <<journals, tombstones>>
  PROVE  Ledger!Next
  <1>1. Fates[c] \in {"unknown", "held"} /\ Fates' = [Fates EXCEPT ![c] = "saved"]
    BY DEF Fates, Fate, Settled
  <1> QED
    BY <1>1 DEF Ledger!Next, Ledger!Save, Fates

\* The live commit and the commit of recovery both save.
LEMMA CommitSaves ==
  ASSUME IInv, NEW c \in Captures, Commit(c) \/ (RecoverCommit /\ recCur = c) PROVE Ledger!Next
  <1>1. ~Settled(c)
    BY DEF IInv, Evidence, Pre, Recovering, Commit, RecoverCommit
  <1>2. rows' = rows \cup {c} /\ UNCHANGED <<journals, tombstones>>
    BY <1>1 DEF Commit, RecoverCommit, Insert, Settled, diskVars
  <1> QED
    BY <1>1, <1>2, InsertSaves

\* Marking captures that are held or saved withdraws them, also when their rows
\* go at the same time.
LEMMA MarkWithdraws ==
  ASSUME NEW S \in SUBSET Captures, S \subseteq journals \cup rows, S \cap tombstones = {},
         tombstones' = tombstones \cup S, journals' = journals,
         rows' \subseteq rows, rows \ rows' \subseteq S \cup tombstones
  PROVE  Ledger!Next
  <1>1. \A c \in S : Fates[c] \in {"held", "saved"}
    BY DEF Fates, Fate
  <1>2. Fates' = [c \in Captures |-> IF c \in S THEN "withdrawn" ELSE Fates[c]]
    BY DEF Fates, Fate
  <1> QED
    BY <1>1, <1>2 DEF Ledger!Next, Ledger!Withdraw, Fates

\* Retention at startup withdraws the expired rows that were not marked before.
LEMMA RetentionWithdraws == ASSUME IInv, ServerStart PROVE Ledger!Next
  <1> DEFINE S == (rows \cap expired') \ tombstones
  <1>1. S \in SUBSET Captures /\ S \subseteq journals \cup rows /\ S \cap tombstones = {}
    BY DEF IInv, TypeOK
  <1>2. /\ tombstones' = tombstones \cup S /\ journals' = journals
        /\ rows' \subseteq rows /\ rows \ rows' \subseteq S \cup tombstones
    BY DEF ServerStart, diskVars
  <1> QED
    BY <1>1, <1>2, MarkWithdraws

\* Recovery withdraws an expired journal, a deletion request withdraws a row.
LEMMA MarkerWithdraws ==
  ASSUME IInv, RecoverExpire \/ (\E c \in Captures : RequestDeletion(c))
  PROVE  Ledger!Next \/ Fates' = Fates
  <1>1. CASE RecoverExpire
    <2>1. recCur \in Captures /\ recCur \in journals
      BY <1>1 DEF IInv, TypeOK, Shape, RecoverExpire
    <2>2. CASE recCur \in expired \ (rows \cup tombstones)
      <3>1. /\ {recCur} \in SUBSET Captures /\ {recCur} \subseteq journals \cup rows
            /\ {recCur} \cap tombstones = {}
        BY <2>1, <2>2
      <3>2. tombstones' = tombstones \cup {recCur} /\ journals' = journals /\ rows' = rows
        BY <1>1, <2>2 DEF RecoverExpire, diskVars
      <3> QED
        BY <3>1, <3>2, MarkWithdraws
    <2>3. CASE recCur \notin expired \ (rows \cup tombstones)
      BY <1>1, <2>3, FatesFrame DEF RecoverExpire, diskVars
    <2> QED
      BY <2>2, <2>3
  <1>2. ASSUME NEW c \in Captures, RequestDeletion(c) PROVE Ledger!Next \/ Fates' = Fates
    <2>1. /\ c \in rows /\ tombstones' = tombstones \cup {c}
          /\ UNCHANGED <<journals, rows>>
      BY <1>2 DEF RequestDeletion, diskVars
    <2>2. CASE c \in tombstones
      BY <2>1, <2>2, FatesFrame
    <2>3. CASE c \notin tombstones
      BY <2>1, <2>3, MarkWithdraws
    <2> QED
      BY <2>2, <2>3
  <1> QED
    BY <1>1, <1>2

\* A journal is removed, and a job's identity marked again, only when the
\* capture is settled: no fate changes.
LEMMA SettledStays ==
  ASSUME IInv, RecoverDrop \/ VerifyDeletion \/ (\E c \in Captures : RemoveJournal(c))
  PROVE  Fates' = Fates
  <1>1. ASSUME NEW c, Settled(c), journals' = journals \ {c}, UNCHANGED <<rows, tombstones>>
        PROVE  Fates' = Fates
    BY <1>1 DEF Fates, Fate, Settled
  <1>2. CASE RecoverDrop
    BY <1>1, <1>2 DEF IInv, Recovering, RecoverDrop, dbVars
  <1>3. CASE VerifyDeletion
    <2>1. tombstones' = tombstones
      BY <1>3 DEF IInv, TypeOK, Shape, Evidence, Deleting, VerifyDeletion
    <2> QED
      BY <1>3, <2>1, FatesFrame DEF VerifyDeletion, diskVars
  <1>4. ASSUME NEW c \in Captures, RemoveJournal(c) PROVE Fates' = Fates
    BY <1>1, <1>4 DEF IInv, Evidence, RemoveJournal, dbVars
  <1> QED
    BY <1>2, <1>3, <1>4

\* Every step of CaptureLifecycle is a step of CaptureLedger or changes no fate.
LEMMA LedgerStep == ASSUME IInv, Next PROVE Ledger!Next \/ Fates' = Fates
  <1>1. CASE \/ \E c \in Captures : PersistJournal(c) \/ Commit(c) \/ RequestDeletion(c) \/ RemoveJournal(c)
             \/ ServerStart \/ RecoverExpire \/ RecoverCommit \/ RecoverDrop \/ VerifyDeletion
    <2>1. RecoverCommit => recCur \in Captures
      BY DEF IInv, TypeOK, Shape, RecoverCommit
    <2>2. ASSUME NEW c \in Captures,
                 PersistJournal(c) \/ Commit(c) \/ RequestDeletion(c) \/ RemoveJournal(c)
          PROVE  Ledger!Next \/ Fates' = Fates
      BY <2>2, PersistHolds, CommitSaves, MarkerWithdraws, SettledStays
    <2>3. ASSUME ServerStart \/ RecoverExpire \/ RecoverCommit \/ RecoverDrop \/ VerifyDeletion
          PROVE  Ledger!Next \/ Fates' = Fates
      BY <2>1, <2>3, CommitSaves, RetentionWithdraws, MarkerWithdraws, SettledStays
    <2> QED
      BY <1>1, <2>1, <2>2, <2>3
  <1>2. CASE ~(\/ \E c \in Captures : PersistJournal(c) \/ Commit(c) \/ RequestDeletion(c) \/ RemoveJournal(c)
               \/ ServerStart \/ RecoverExpire \/ RecoverCommit \/ RecoverDrop \/ VerifyDeletion)
    <2>1. UNCHANGED <<journals, rows, tombstones>>
      BY <1>2 DEF Next, Step, Fault, CaptureStep, CaptureFault, RecoveryStep, DeletionStep,
             MonitorStep, BeginCapture, PersistFails, ObserveResponse, Cancel, JournalSettled,
             IndexRefs, CommitFails, RemoveFails, Notify, RecoverPick, ResumeDeletion,
             OpenOriginal, OpenRefused, OpenFails, WriteFails, EndDirection, FinishWriter,
             FinishFails, RecoverBody, InspectOriginal, RemoveOriginal, RecoverFails,
             StoreReady, StartMonitor, BootMonitor, StopMonitor, EndGrace, SocketsClosed, MonitorStopped, Crash,
             RecoverBegin, RecoverDone, BeginRemoval, CompleteDeletion, DeletionFails,
             RecordFailure, RecordFailureFails, diskVars, dbVars
    <2> QED
      BY <2>1, FatesFrame
  <1> QED
    BY <1>1, <1>2

\* CaptureLifecycle implements CaptureLedger: held evidence is saved or
\* withdrawn, never dropped, and what is withdrawn stays withdrawn.
THEOREM ImplementsLedger == Spec => LedgerSpec
  <1>1. Init => Ledger!Init
    BY DEF Init, Ledger!Init, Fate
  <1>2. IInv /\ [Next]_vars => [Ledger!Next]_([c \in Captures |-> Fate(c)])
    <2> SUFFICES ASSUME IInv, [Next]_vars PROVE Ledger!Next \/ Fates' = Fates
      BY DEF Fates
    <2>1. CASE UNCHANGED vars
      BY <2>1, FatesFrame DEF vars, diskVars, dbVars
    <2> QED
      BY <2>1, LedgerStep
  <1> QED
    BY Invariance, <1>1, <1>2, PTL DEF LedgerSpec, Ledger!Spec, Spec
===========================================================================
