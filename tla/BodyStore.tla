----------------------------- MODULE BodyStore -----------------------------
(***************************************************************************)
(* CaptureBodyStore (server/proxy/body-store.ts): the originals' directory *)
(* with its accounting.  Writers append without waiting, one promise chain *)
(* per body writes behind them, and finish settles what the body is worth. *)
(* Readers, recovery and the removal of originals share the store, and the *)
(* process may die at any point and start again on the same directory.     *)
(*                                                                         *)
(* The bytes offered to a body are numbered 1, 2, 3, ...; hashes, limits on *)
(* names and the file system beyond one file per body are left out.        *)
(***************************************************************************)
EXTENDS Integers, Sequences, FiniteSets

CONSTANTS
    Bodies, NoBody,
    Quota, MaxBody, MaxPending, MaxOperations,   \* CaptureStorageConfig, and 4096
    ChunkSizes, MaxOffered, MaxStreams           \* bounds of the exploration

ASSUME LimitsAssumption ==
    /\ NoBody \notin Bodies /\ IsFiniteSet(Bodies)
    /\ {Quota, MaxBody, MaxPending, MaxOperations, MaxOffered, MaxStreams} \subseteq Nat \ {0}
    /\ ChunkSizes \subseteq Nat \ {0}

VARIABLES
    \* the directory
    file, content,        \* per body: "absent", "part" or "body", and the bytes in it
    \* the store
    usedBytes, pendingBytes, pendingOperations, activeBodies, activeReaders,
    removing, targets,    \* "no", then the steps of removeOriginals; what it unlinks next
    reading, recovering,  \* bodies with an open stream; the body recover works on
    \* one writer per body
    phase,                \* "new", "opening", "open", "unopened", "done"; "lost" in a crash
    status, closed, accepted, queue, writeFailed,
    \* history, read by properties only
    offered,              \* bytes the proxy handed over
    exact                 \* every recount so far succeeded

dirVars   == <<file, content>>
gauges    == <<usedBytes, pendingBytes, pendingOperations, activeBodies, activeReaders>>
modes     == <<removing, targets, reading, recovering>>
writers   == <<phase, status, closed, accepted, queue, writeFailed>>
vars      == <<dirVars, gauges, modes, writers, offered, exact>>

Size(chunk)  == chunk[2] - chunk[1] + 1
Bytes(chunk) == [i \in 1..Size(chunk) |-> chunk[1] + i - 1]
Written(b)   == Len(content[b])
ActiveIn     == {"opening", "open", "unopened"}

\* The bytes in the directory, each named by its body and its place there.
OnDisk    == UNION {{b} \X DOMAIN content[b] : b \in {x \in Bodies : file[x] # "absent"}}
DiskBytes == Cardinality(OnDisk)

Init ==
    /\ file = [b \in Bodies |-> "absent"] /\ content = [b \in Bodies |-> <<>>]
    /\ usedBytes = 0 /\ pendingBytes = 0 /\ pendingOperations = 0
    /\ activeBodies = 0 /\ activeReaders = 0
    /\ removing = "no" /\ targets = {} /\ reading = {} /\ recovering = NoBody
    /\ phase = [b \in Bodies |-> "new"] /\ status = [b \in Bodies |-> "complete"]
    /\ closed = [b \in Bodies |-> FALSE] /\ accepted = [b \in Bodies |-> 0]
    /\ queue = [b \in Bodies |-> <<>>] /\ writeFailed = [b \in Bodies |-> FALSE]
    /\ offered = [b \in Bodies |-> 0] /\ exact = TRUE

---------------------------------------------------------------------------
(* Faulty variants of the actions below, one plausible mistake each; none  *)
(* is part of Next.                                                        *)

BeginDuringRemoval(b) ==
    /\ phase[b] = "new" /\ recovering = NoBody
    /\ phase' = [phase EXCEPT ![b] = "opening"]
    /\ activeBodies' = activeBodies + 1
    /\ UNCHANGED <<dirVars, usedBytes, pendingBytes, pendingOperations, activeReaders, modes,
                   status, closed, accepted, queue, writeFailed, offered, exact>>

SkipKeepsReservation(b) ==
    /\ queue[b] # <<>> /\ (writeFailed[b] \/ phase[b] = "unopened")
    /\ queue' = [queue EXCEPT ![b] = Tail(@)]
    /\ UNCHANGED <<dirVars, gauges, modes, phase, status, closed, accepted, writeFailed,
                   offered, exact>>

SkipOnlyUnopened(b) ==
    /\ queue[b] # <<>> /\ phase[b] = "unopened"
    /\ queue' = [queue EXCEPT ![b] = Tail(@)]
    /\ pendingBytes' = pendingBytes - Size(Head(queue[b]))
    /\ pendingOperations' = pendingOperations - 1
    /\ UNCHANGED <<dirVars, usedBytes, activeBodies, activeReaders, modes, phase, status, closed,
                   accepted, writeFailed, offered, exact>>

SealHidesError(b) ==
    /\ closed[b] /\ queue[b] = <<>> /\ phase[b] = "open"
    /\ file' \in {file, [file EXCEPT ![b] = "body"]}
    /\ usedBytes' = usedBytes - (accepted[b] - Written(b))
    /\ activeBodies' = activeBodies - 1
    /\ phase' = [phase EXCEPT ![b] = "done"]
    /\ UNCHANGED <<content, pendingBytes, pendingOperations, activeReaders, modes, status, closed,
                   accepted, queue, writeFailed, offered, exact>>

---------------------------------------------------------------------------
(* A writer *)

\* begin: the caller creates writers only once startup recovery is over.
Begin(b) ==
    /\ removing = "no" /\ recovering = NoBody /\ phase[b] = "new"
    /\ phase' = [phase EXCEPT ![b] = "opening"]
    /\ activeBodies' = activeBodies + 1
    /\ UNCHANGED <<dirVars, usedBytes, pendingBytes, pendingOperations, activeReaders, modes,
                   status, closed, accepted, queue, writeFailed, offered, exact>>

Opened(b) ==
    /\ phase[b] = "opening"
    /\ file' = [file EXCEPT ![b] = "part"]
    /\ phase' = [phase EXCEPT ![b] = "open"]
    /\ UNCHANGED <<content, gauges, modes, status, closed, accepted, queue, writeFailed,
                   offered, exact>>

\* The admission is refused or open fails: fail, and no handle.
OpenFails(b) ==
    /\ phase[b] = "opening"
    /\ phase' = [phase EXCEPT ![b] = "unopened"]
    /\ status' = [status EXCEPT ![b] = "write_error"]
    /\ writeFailed' = [writeFailed EXCEPT ![b] = TRUE]
    /\ UNCHANGED <<dirVars, gauges, modes, closed, accepted, queue, offered, exact>>

\* The limits, in the order append tests them; the first that refuses a chunk
\* names what the body lacks from then on.
Refusal(b, n) ==
    IF accepted[b] + n > MaxBody THEN "body_limit"
    ELSE IF usedBytes + n > Quota THEN "quota_exceeded"
    ELSE IF pendingBytes + n > MaxPending \/ pendingOperations >= MaxOperations THEN "queue_full"
    ELSE "complete"

AppendChunk(b, n) ==
    /\ phase[b] \in ActiveIn /\ ~closed[b] /\ offered[b] + n <= MaxOffered
    /\ offered' = [offered EXCEPT ![b] = @ + n]
    /\ IF status[b] # "complete"
       THEN UNCHANGED <<status, accepted, queue, usedBytes, pendingBytes, pendingOperations>>
       ELSE /\ status' = [status EXCEPT ![b] = Refusal(b, n)]
            /\ IF Refusal(b, n) # "complete"
               THEN UNCHANGED <<accepted, queue, usedBytes, pendingBytes, pendingOperations>>
               ELSE /\ accepted' = [accepted EXCEPT ![b] = @ + n]
                    /\ queue' = [queue EXCEPT ![b] = Append(@, <<offered[b] + 1, offered[b] + n>>)]
                    /\ usedBytes' = usedBytes + n
                    /\ pendingBytes' = pendingBytes + n
                    /\ pendingOperations' = pendingOperations + 1
    /\ UNCHANGED <<dirVars, activeBodies, activeReaders, modes, phase, closed, writeFailed, exact>>

\* One link of the chain: the queued chunk is written.
WriteChunk(b) ==
    /\ queue[b] # <<>> /\ phase[b] = "open" /\ ~writeFailed[b]
    /\ content' = [content EXCEPT ![b] = @ \o Bytes(Head(queue[b]))]
    /\ queue' = [queue EXCEPT ![b] = Tail(@)]
    /\ pendingBytes' = pendingBytes - Size(Head(queue[b]))
    /\ pendingOperations' = pendingOperations - 1
    /\ UNCHANGED <<file, usedBytes, activeBodies, activeReaders, modes, phase, status, closed,
                   accepted, writeFailed, offered, exact>>

\* write throws or returns zero after k bytes of the chunk.
WriteFails(b, k) ==
    /\ queue[b] # <<>> /\ phase[b] = "open" /\ ~writeFailed[b] /\ k < Size(Head(queue[b]))
    /\ content' = [content EXCEPT ![b] = @ \o SubSeq(Bytes(Head(queue[b])), 1, k)]
    /\ status' = [status EXCEPT ![b] = "write_error"]
    /\ writeFailed' = [writeFailed EXCEPT ![b] = TRUE]
    /\ queue' = [queue EXCEPT ![b] = Tail(@)]
    /\ pendingBytes' = pendingBytes - Size(Head(queue[b]))
    /\ pendingOperations' = pendingOperations - 1
    /\ UNCHANGED <<file, usedBytes, activeBodies, activeReaders, modes, phase, closed, accepted,
                   offered, exact>>

\* After a failure the rest of the chain only releases what it had reserved.
SkipChunk(b) ==
    /\ queue[b] # <<>> /\ phase[b] \in {"open", "unopened"} /\ writeFailed[b]
    /\ queue' = [queue EXCEPT ![b] = Tail(@)]
    /\ pendingBytes' = pendingBytes - Size(Head(queue[b]))
    /\ pendingOperations' = pendingOperations - 1
    /\ UNCHANGED <<dirVars, usedBytes, activeBodies, activeReaders, modes, phase, status, closed,
                   accepted, writeFailed, offered, exact>>

\* finish, up to its await: later chunks are refused.
Finish(b, interrupted) ==
    /\ phase[b] \in ActiveIn /\ ~closed[b]
    /\ closed' = [closed EXCEPT ![b] = TRUE]
    /\ status' = [status EXCEPT ![b] = IF interrupted /\ @ = "complete" THEN "interrupted" ELSE @]
    /\ UNCHANGED <<dirVars, gauges, modes, phase, accepted, queue, writeFailed, offered, exact>>

\* finish, after the chain: what was accepted and not written is released.
Settle(b) ==
    /\ closed[b] /\ queue[b] = <<>>
    /\ usedBytes' = usedBytes - (accepted[b] - Written(b))
    /\ activeBodies' = activeBodies - 1
    /\ phase' = [phase EXCEPT ![b] = "done"]
    /\ UNCHANGED <<content, pendingBytes, pendingOperations, activeReaders, modes, closed,
                   accepted, queue, writeFailed, offered, exact>>

Seal(b) ==
    /\ phase[b] \in {"open", "unopened"} /\ Settle(b)
    /\ file' = [file EXCEPT ![b] = IF phase[b] = "open" THEN "body" ELSE @]
    /\ UNCHANGED status

\* sync, close or rename fails; only rename decides the name.
SealFails(b) ==
    /\ phase[b] = "open" /\ Settle(b)
    /\ file' \in {file, [file EXCEPT ![b] = "body"]}
    /\ status' = [status EXCEPT ![b] = "write_error"]

---------------------------------------------------------------------------
(* Readers, recovery and removal *)

\* A stream of a sealed body; Bound: at most MaxStreams at a time.
OpenRead(b) ==
    /\ removing = "no" /\ file[b] = "body" /\ b \notin reading
    /\ Cardinality(reading) < MaxStreams
    /\ reading' = reading \cup {b} /\ activeReaders' = activeReaders + 1
    /\ UNCHANGED <<dirVars, usedBytes, pendingBytes, pendingOperations, activeBodies, removing,
                   targets, recovering, writers, offered, exact>>

CloseRead(b) ==
    /\ b \in reading
    /\ reading' = reading \ {b} /\ activeReaders' = activeReaders - 1
    /\ UNCHANGED <<dirVars, usedBytes, pendingBytes, pendingOperations, activeBodies, removing,
                   targets, recovering, writers, offered, exact>>

\* recover: its callers (startup recovery, the deletion queue) run one at a
\* time, while the monitor is off.
Recover(b) ==
    /\ removing = "no" /\ recovering = NoBody /\ \A x \in Bodies : phase[x] \notin ActiveIn
    /\ phase[b] \in {"done", "lost"}
    /\ recovering' = b /\ activeReaders' = activeReaders + 1
    /\ UNCHANGED <<dirVars, usedBytes, pendingBytes, pendingOperations, activeBodies, removing,
                   targets, reading, writers, offered, exact>>

\* It renames a .part, or fails before it does.
Recovered ==
    /\ recovering # NoBody
    /\ file' \in {file, [file EXCEPT ![recovering] = IF @ = "part" THEN "body" ELSE @]}
    /\ recovering' = NoBody /\ activeReaders' = activeReaders - 1
    /\ UNCHANGED <<content, usedBytes, pendingBytes, pendingOperations, activeBodies, removing,
                   targets, reading, writers, offered, exact>>

\* removeOriginals: refused while anyone holds the store; one or two ids.
RemoveOriginals(ids) ==
    /\ removing = "no" /\ activeBodies = 0 /\ activeReaders = 0
    /\ removing' = "check" /\ targets' = ids
    /\ UNCHANGED <<dirVars, gauges, reading, recovering, writers, offered, exact>>

\* Every path is inspected before the first unlink; a conflict skips to the recount.
Checked ==
    /\ removing = "check"
    /\ \/ removing' = "unlink" /\ UNCHANGED targets
       \/ removing' = "count" /\ targets' = {}
    /\ UNCHANGED <<dirVars, gauges, reading, recovering, writers, offered, exact>>

Unlink(b) ==
    /\ removing = "unlink" /\ b \in targets
    /\ file' = [file EXCEPT ![b] = "absent"]
    /\ targets' = targets \ {b}
    /\ UNCHANGED <<content, gauges, removing, reading, recovering, writers, offered, exact>>

\* Nothing is left to unlink, or an unlink failed.
Unlinked ==
    /\ removing = "unlink"
    /\ removing' = "count" /\ targets' = {}
    /\ UNCHANGED <<dirVars, gauges, reading, recovering, writers, offered, exact>>

Recount ==
    /\ removing = "count"
    /\ usedBytes' = DiskBytes /\ exact' = TRUE
    /\ removing' = "no"
    /\ UNCHANGED <<dirVars, pendingBytes, pendingOperations, activeBodies, activeReaders,
                   targets, reading, recovering, writers, offered>>

RecountFails ==
    /\ removing = "count"
    /\ exact' = FALSE /\ removing' = "no"
    /\ UNCHANGED <<dirVars, gauges, targets, reading, recovering, writers, offered>>

\* The process dies; create() of the next one counts what it finds.
Restart ==
    /\ usedBytes' = DiskBytes /\ exact' = TRUE
    /\ pendingBytes' = 0 /\ pendingOperations' = 0 /\ activeBodies' = 0 /\ activeReaders' = 0
    /\ removing' = "no" /\ targets' = {} /\ reading' = {} /\ recovering' = NoBody
    /\ phase' = [b \in Bodies |-> IF phase[b] \in ActiveIn THEN "lost" ELSE phase[b]]
    /\ queue' = [b \in Bodies |-> <<>>]
    /\ UNCHANGED <<dirVars, status, closed, accepted, writeFailed, offered>>

---------------------------------------------------------------------------
Chain(b) ==
    \/ Opened(b) \/ OpenFails(b) \/ WriteChunk(b) \/ SkipChunk(b) \/ Seal(b) \/ SealFails(b)
    \/ \E k \in 0..(MaxBody - 1) : WriteFails(b, k)

Next ==
    \/ \E b \in Bodies :
        \/ Begin(b) \/ Chain(b) \/ OpenRead(b) \/ CloseRead(b) \/ Recover(b) \/ Unlink(b)
        \/ \E n \in ChunkSizes : AppendChunk(b, n)
        \/ \E interrupted \in BOOLEAN : Finish(b, interrupted)
    \/ \E ids \in SUBSET Bodies : ids # {} /\ RemoveOriginals(ids)
    \/ Recovered \/ Checked \/ Unlinked \/ Recount \/ RecountFails \/ Restart

Spec == Init /\ [][Next]_vars

\* A started file operation ends, well or badly.
FairSpec == Spec /\ \A b \in Bodies : WF_vars(Chain(b))

---------------------------------------------------------------------------
(* Properties *)

TypeOK ==
    /\ file \in [Bodies -> {"absent", "part", "body"}]
    /\ content \in [Bodies -> Seq(Nat)] /\ queue \in [Bodies -> Seq(Nat \X Nat)]
    /\ {usedBytes, pendingBytes, pendingOperations, activeBodies, activeReaders} \subseteq Nat
    /\ removing \in {"no", "check", "unlink", "count"} /\ targets \subseteq Bodies
    /\ reading \subseteq Bodies /\ recovering \in Bodies \cup {NoBody}
    /\ phase \in [Bodies -> ActiveIn \cup {"new", "done", "lost"}]
    /\ status \in [Bodies -> {"complete", "interrupted", "write_error", "body_limit",
                              "quota_exceeded", "queue_full"}]
    /\ closed \in [Bodies -> BOOLEAN] /\ writeFailed \in [Bodies -> BOOLEAN]
    /\ accepted \in [Bodies -> Nat] /\ offered \in [Bodies -> Nat] /\ exact \in BOOLEAN

\* The bytes a writer has reserved: accepted by append and not on disk yet.
Reserved ==
    UNION {{b} \X ((Written(b) + 1)..accepted[b]) : b \in {x \in Bodies : phase[x] \in ActiveIn}}

\* usedBytes is what the directory holds plus what the writers have reserved,
\* through failed writes, refused opens and crashes.  Only a removal whose
\* recount is outstanding or failed leaves it too high; it is never too low.
UsedIsAccounted ==
    LET held == Cardinality(OnDisk \cup Reserved)
    IN  usedBytes >= held /\ (exact /\ removing = "no" => usedBytes = held)

\* The chunks still queued, and the bytes in them.
QueuedChunks == UNION {{b} \X DOMAIN queue[b] : b \in Bodies}
QueuedBytes  == UNION {{x[1]} \X (queue[x[1]][x[2]][1]..queue[x[1]][x[2]][2]) : x \in QueuedChunks}

\* The two queue gauges are exactly the chunks still queued, so a failed chain
\* cannot exhaust the limits shared by all bodies.
PendingIsQueued ==
    pendingOperations = Cardinality(QueuedChunks) /\ pendingBytes = Cardinality(QueuedBytes)

\* The two gauges removeOriginals looks at count the writers, and the streams
\* with the recovery.
HoldersAreCounted ==
    /\ activeBodies = Cardinality({b \in Bodies : phase[b] \in ActiveIn})
    /\ activeReaders = Cardinality(reading) + (IF recovering = NoBody THEN 0 ELSE 1)

\* The originals never outgrow the quota, nor the queues their limits.
LimitsHold ==
    /\ DiskBytes <= Quota /\ usedBytes <= Quota
    /\ pendingBytes <= MaxPending /\ pendingOperations <= MaxOperations

\* The limits shared by all bodies are charged exactly and never overrun.
AccountingIsExact ==
    TypeOK /\ UsedIsAccounted /\ PendingIsQueued /\ HoldersAreCounted /\ LimitsHold

\* The chunks on a chain follow each other up to the last byte.
IsChain(q, last) ==
    /\ \A i \in DOMAIN q : 1 <= q[i][1] /\ q[i][1] <= q[i][2] /\ q[i][2] <= last
    /\ \A i, j \in DOMAIN q : i < j => q[i][2] < q[j][1]
    /\ \A i \in DOMAIN q : i < Len(q) => q[i + 1][1] = q[i][2] + 1
    /\ q # <<>> => q[Len(q)][2] = last

\* A writer: what it wrote, accepted and was offered; the file it has; and, until
\* something fails, a chain that goes on where the file ends.
WriterIsSound(b) ==
    /\ Written(b) <= accepted[b] /\ accepted[b] <= offered[b] /\ accepted[b] <= MaxBody
    /\ IsChain(queue[b], accepted[b]) /\ (phase[b] \notin ActiveIn => queue[b] = <<>>)
    /\ phase[b] = "new" => offered[b] = 0 /\ status[b] = "complete"
    /\ phase[b] \in {"new", "opening"} => ~writeFailed[b]
    /\ phase[b] \in {"new", "opening", "unopened"} => file[b] = "absent" /\ Written(b) = 0
    /\ phase[b] = "open" => file[b] = "part"
    /\ phase[b] = "unopened" => writeFailed[b]
    /\ phase[b] \in ActiveIn /\ status[b] = "complete" => accepted[b] = offered[b] /\ ~writeFailed[b]
    /\ phase[b] \in ActiveIn /\ ~writeFailed[b] =>
          IF queue[b] = <<>> THEN Written(b) = accepted[b] ELSE queue[b][1][1] = Written(b) + 1

\* A file holds a prefix of what was offered: no hole, no repeated chunk,
\* whatever limit or failure stopped the collection.
StoredIsPrefix ==
    \A b \in Bodies : Written(b) <= offered[b] /\ \A i \in 1..Written(b) : content[b][i] = i

\* A body reported complete holds every byte offered, in a .body file.
CompleteIsAll ==
    \A b \in Bodies : phase[b] = "done" /\ status[b] = "complete" =>
        Written(b) = offered[b] /\ file[b] # "part"

\* What the store says of a body is what its file holds, with what makes it
\* inductive.
StoredIsFaithful == StoredIsPrefix /\ CompleteIsAll /\ \A b \in Bodies : WriterIsSound(b)

\* No original is unlinked under a writer, a reader or a recovery, and none is
\* renamed by a recovery under a writer.
RemovalIsExclusive ==
    /\ removing # "no" => reading = {} /\ recovering = NoBody
    /\ removing # "no" \/ recovering # NoBody => \A b \in Bodies : phase[b] \notin ActiveIn

\* finish always answers, whether the file could be opened and written or not.
FinishAnswers == \A b \in Bodies : closed[b] ~> phase[b] \in {"done", "lost"}
===========================================================================
