---------------------------- MODULE MetadataLane ----------------------------
(***************************************************************************)
(* The metadata lane of one database (server/proxy/capture-capacity.ts):   *)
(* captures, Claude hooks and telemetry queue here to write.  The head     *)
(* measures the files, and its synchronous write runs in the turn that has *)
(* found the measurement still valid.                                      *)
(*                                                                         *)
(* A module that extends this one gives the tasks: it calls Enqueue, and   *)
(* conjoins the write of a task with Admitted or the refusal with Refused. *)
(* Sizes are in units; the stamp is kept as "has it changed since".        *)
(***************************************************************************)
EXTENDS Integers, Sequences

CONSTANTS
    MaxLane,            \* tasks at once (64)
    MaxSnapshots,       \* measurements of one task (3)
    CombinedAdmission,  \* of both files, for captures and hooks
    WalAdmission,       \* of the write-ahead log, for everybody
    CheckpointAt,       \* the log is checkpointed from here
    MaxMain, MaxWal     \* bounds of the exploration: the sizes of the files

ASSUME LaneAssumption ==
    /\ {MaxLane, MaxSnapshots, CombinedAdmission, WalAdmission, CheckpointAt} \subseteq Nat \ {0}
    /\ {MaxMain, MaxWal} \subseteq Nat

VARIABLES
    files,   \* sizes of the database file and of its log
    lane,    \* the tasks in their order; the first one has its turn
    turn     \* the measurement of the first task, see Turn

laneVars == <<files, lane, turn>>

Files == [main : 0..MaxMain, wal : 0..MaxWal]

\* The second stamp will differ from the first one: somebody has written.
Outdated   == [main |-> -2, wal |-> -2]
Unmeasured == [main |-> -1, wal |-> -1]

\* snapshot: measurements that did not do
Turn == [snapshot : 0..(MaxSnapshots - 1), checkpointed : BOOLEAN,
         measured : Files \cup {Unmeasured, Outdated}]
FirstTurn == [snapshot |-> 0, checkpointed |-> FALSE, measured |-> Unmeasured]

LaneInit == files = [main |-> 0, wal |-> 0] /\ lane = <<>> /\ turn = FirstTurn

---------------------------------------------------------------------------
(* A faulty variant of a definition below; it is part of no step.          *)

\* The stamp misses what another connection commits.
StampMisses(measured) == measured

---------------------------------------------------------------------------
\* Any writer of this connection, or a commit of another one: it moves the stamp.
Grown(m, w) ==
    /\ m \in {files.main, files.main + 1} /\ m <= MaxMain
    /\ w \in {files.wal, files.wal + 1} /\ w <= MaxWal
    /\ files' = [main |-> m, wal |-> w]

Stamped(measured) == IF measured = Unmeasured THEN Unmeasured ELSE Outdated

WriteElsewhere ==
    /\ \E m \in 0..MaxMain, w \in 0..MaxWal : Grown(m, w)
    /\ turn' = [turn EXCEPT !.measured = Stamped(@)]
    /\ UNCHANGED lane

\* checkpointWal: with an active reader it does nothing.
Checkpointed ==
    \/ \E m \in {files.main, files.main + 1} : m <= MaxMain /\ files' = [main |-> m, wal |-> 0]
    \/ UNCHANGED files

\* The synchronous part of withCapacity; a caller sees LaneFull as a refusal.
LaneFull == Len(lane) >= MaxLane
Enqueue(t) == ~LaneFull /\ lane' = Append(lane, t) /\ UNCHANGED <<files, turn>>

\* The first stamp and the stat calls.
Measure ==
    /\ lane # <<>> /\ turn.measured = Unmeasured
    /\ turn' = [turn EXCEPT !.measured = files]
    /\ UNCHANGED <<files, lane>>

StillValid == turn.measured \in Files
Changed    == turn.measured = Outdated
MustCheckpoint == ~turn.checkpointed /\ turn.measured.wal >= CheckpointAt

Limited(walOnly) ==
    \/ turn.measured.wal >= WalAdmission
    \/ ~walOnly /\ turn.measured.main + turn.measured.wal >= CombinedAdmission

\* continue: another measurement, unless this was the last one.
Repeated(checkpointed) ==
    /\ turn.snapshot + 1 < MaxSnapshots
    /\ turn' = [snapshot |-> turn.snapshot + 1, checkpointed |-> checkpointed,
                measured |-> Unmeasured]

Remeasure ==
    /\ lane # <<>>
    /\ \/ Changed /\ UNCHANGED files /\ Repeated(turn.checkpointed)
       \/ StillValid /\ MustCheckpoint /\ Checkpointed /\ Repeated(TRUE)
    /\ UNCHANGED lane

\* The head leaves; the next task starts afresh.
Answered == lane' = Tail(lane) /\ turn' = FirstTurn

\* The write of the head runs, and grows the files.
Admitted(t, walOnly) ==
    /\ lane # <<>> /\ Head(lane) = t
    /\ StillValid /\ ~MustCheckpoint /\ ~Limited(walOnly)
    /\ \E m \in 0..MaxMain, w \in 0..MaxWal : Grown(m, w)
    /\ Answered

\* It is refused: LIMIT, or UNAVAILABLE after the last measurement.
Refused(t, walOnly) ==
    /\ lane # <<>> /\ Head(lane) = t
    /\ \/ StillValid /\ ~MustCheckpoint /\ Limited(walOnly) /\ UNCHANGED files
       \/ /\ turn.snapshot + 1 >= MaxSnapshots
          /\ \/ Changed /\ UNCHANGED files
             \/ StillValid /\ MustCheckpoint /\ Checkpointed
    /\ Answered

\* A file or a stamp cannot be read: UNAVAILABLE too.
Unreadable(t) ==
    /\ lane # <<>> /\ Head(lane) = t
    /\ UNCHANGED files /\ Answered

LaneStep == Measure \/ Remeasure
=============================================================================
