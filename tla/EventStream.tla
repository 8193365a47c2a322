---------------------------- MODULE EventStream ----------------------------
(***************************************************************************)
(* The metadata feed: the bus (server/realtime/event-bus.ts), the bounded  *)
(* replay log (replay-log.ts) and the SSE clients (sse.ts), with the       *)
(* EventSource of a browser and its App.tsx at the other end of the wire.  *)
(*                                                                         *)
(* An event is its sequence number; an epoch is the life of one log, which *)
(* ends with the process or when the broadcaster closes.  Events without a *)
(* cursor (chunks, source hints), the feed of a single request, and the    *)
(* limit of 64 clients are left out.                                       *)
(***************************************************************************)
EXTENDS Integers, Sequences

CONSTANTS
    Clients,
    MaxFrames,              \* MAX_FRAMES; bytes and age prune fewer frames as well
    MaxWire,                \* what may wait on a socket (1 MB)
    MaxEvents, MaxEpochs    \* bounds of the exploration

\* A whole replay fits on a socket (MAX_BYTES is half of the write limit).
ASSUME StreamAssumption ==
    /\ {MaxFrames, MaxWire, MaxEvents, MaxEpochs} \subseteq Nat \ {0}
    /\ MaxWire >= MaxFrames + 2

VARIABLES
    epoch, sequence, floor, frames,   \* MetadataReplayLog
    online,    \* clients the server writes to (cleanups)
    wire,      \* per client: messages written and not read yet, oldest first
    lastId,    \* per browser: last event ID, NoId if it has none
    base,      \* per browser: the id its knowledge starts from
    applied    \* per browser: ids of the events it has handled

logVars     == <<epoch, sequence, floor, frames>>
browserVars == <<lastId, base, applied>>
vars        == <<logVars, online, wire, browserVars>>

NoId == <<0, 0>>

Before(x, y) == x[1] < y[1] \/ (x[1] = y[1] /\ x[2] < y[2])

Init ==
    /\ epoch = 1 /\ sequence = 0 /\ floor = 0 /\ frames = <<>>
    /\ online = {} /\ wire = [c \in Clients |-> <<>>]
    /\ lastId = [c \in Clients |-> NoId] /\ base = [c \in Clients |-> NoId]
    /\ applied = [c \in Clients |-> {}]

---------------------------------------------------------------------------
(* Faulty variants of the definitions below, one plausible mistake each;   *)
(* none is part of Next.                                                   *)

ResumeIgnoresFloor(id, low) ==
    IF id = NoId THEN "fresh"
    ELSE IF id[1] = epoch /\ id[2] <= sequence THEN "replayed"
    ELSE "reset"

ReplayRepeats(id, resume, fs) ==
    LET missed == IF resume = "replayed" THEN fs ELSE <<>>
    IN  <<[kind |-> resume, id |-> <<epoch, sequence>>]>>
        \o [i \in DOMAIN missed |-> [kind |-> "event", id |-> <<epoch, missed[i]>>]]
        \o <<[kind |-> "id", id |-> <<epoch, sequence>>]>>

---------------------------------------------------------------------------
(* The replay log *)

\* prune: the k oldest frames leave, for their number, their bytes or their age.
Pruned(fs, k) == SubSeq(fs, k + 1, Len(fs))
PrunedFloor(fs, k) == IF k = 0 THEN floor ELSE fs[k]

\* resume, with the log as pruned
Resume(id, low) ==
    IF id = NoId THEN "fresh"
    ELSE IF id[1] = epoch /\ id[2] \in low..sequence THEN "replayed"
    ELSE "reset"

\* The filter of resume: frames are recorded in order, so those after n are what
\* is left without the k that are not.
After(fs, n) ==
    LET k == CHOOSE k \in 0..Len(fs) : \A i \in DOMAIN fs : fs[i] > n <=> i > k
    IN  Pruned(fs, k)

\* What addSseClient writes: connected, which has no id of its own, the frames
\* after the client's id, and the id the replay ends with.
Greeting(id, resume, fs) ==
    LET missed == IF resume = "replayed" THEN After(fs, id[2]) ELSE <<>>
    IN  <<[kind |-> resume, id |-> <<epoch, sequence>>]>>
        \o [i \in DOMAIN missed |-> [kind |-> "event", id |-> <<epoch, missed[i]>>]]
        \o <<[kind |-> "id", id |-> <<epoch, sequence>>]>>

---------------------------------------------------------------------------
(* The server *)

\* emit: the event is recorded first and then written to every client; one
\* whose socket is full is cut off instead.
Emit(k) ==
    LET fs   == Append(frames, sequence + 1)
        slow == {c \in online : Len(wire[c]) >= MaxWire}
    IN  /\ sequence < MaxEvents
        /\ k <= Len(fs) /\ Len(fs) - k <= MaxFrames
        /\ sequence' = sequence + 1
        /\ frames' = Pruned(fs, k) /\ floor' = PrunedFloor(fs, k)
        /\ online' = online \ slow
        /\ wire' = [c \in Clients |->
              IF c \in online \ slow
              THEN Append(wire[c], [kind |-> "event", id |-> <<epoch, sequence + 1>>])
              ELSE wire[c]]
        /\ UNCHANGED <<epoch, browserVars>>

\* An event too large for a frame empties the log and cuts every client off.
EmitOversize ==
    /\ sequence < MaxEvents
    /\ sequence' = sequence + 1
    /\ frames' = <<>> /\ floor' = sequence + 1
    /\ online' = {}
    /\ UNCHANGED <<epoch, wire, browserVars>>

\* addSseClient, in one turn of the event loop: resume (which prunes first),
\* the greeting and the subscriptions.
Connect(c, k) ==
    /\ c \notin online /\ wire[c] = <<>> /\ k <= Len(frames)
    /\ frames' = Pruned(frames, k) /\ floor' = PrunedFloor(frames, k)
    /\ wire' = [wire EXCEPT ![c] =
          Greeting(lastId[c], Resume(lastId[c], PrunedFloor(frames, k)), Pruned(frames, k))]
    /\ online' = online \cup {c}
    /\ UNCHANGED <<epoch, sequence, browserVars>>

\* closeSseBroadcaster, or a new process: clients are closed, and the log has a
\* new epoch.
Restart ==
    /\ epoch < MaxEpochs
    /\ epoch' = epoch + 1 /\ sequence' = 0 /\ floor' = 0 /\ frames' = <<>>
    /\ online' = {}
    /\ UNCHANGED <<wire, browserVars>>

---------------------------------------------------------------------------
(* The connection and the browser, modelled from their use *)

\* The connection breaks, and what is on the wire is lost.
Disconnect(c) ==
    /\ c \in online \/ wire[c] # <<>>
    /\ online' = online \ {c} /\ wire' = [wire EXCEPT ![c] = <<>>]
    /\ UNCHANGED <<logVars, browserVars>>

\* The page is opened anew.
Reload(c) ==
    /\ c \notin online /\ wire[c] = <<>> /\ lastId[c] # NoId
    /\ lastId' = [lastId EXCEPT ![c] = NoId]
    /\ base' = [base EXCEPT ![c] = NoId] /\ applied' = [applied EXCEPT ![c] = {}]
    /\ UNCHANGED <<logVars, online, wire>>

\* One message is read.  On a reset App.tsx drops what it knows and loads it
\* again, which is at least as new as the id in the message.
Receive(c) ==
    LET m == Head(wire[c])
    IN  /\ wire[c] # <<>>
        /\ wire' = [wire EXCEPT ![c] = Tail(@)]
        /\ lastId' = IF m.kind \in {"event", "id"} THEN [lastId EXCEPT ![c] = m.id] ELSE lastId
        /\ base' = IF m.kind = "reset" \/ (m.kind = "id" /\ lastId[c] = NoId)
                   THEN [base EXCEPT ![c] = m.id] ELSE base
        /\ applied' = IF m.kind = "reset" THEN [applied EXCEPT ![c] = {}]
                      ELSE IF m.kind = "event" THEN [applied EXCEPT ![c] = @ \cup {m.id}]
                      ELSE applied
        /\ UNCHANGED <<logVars, online>>

Next ==
    \/ \E k \in 0..(MaxFrames + 1) : Emit(k) \/ \E c \in Clients : Connect(c, k)
    \/ EmitOversize \/ Restart
    \/ \E c \in Clients : Disconnect(c) \/ Reload(c) \/ Receive(c)

Spec == Init /\ [][Next]_vars

---------------------------------------------------------------------------
(* Properties *)

Id == {NoId} \cup ((1..MaxEpochs) \X (0..MaxEvents))
Message == [kind : {"fresh", "replayed", "reset", "event", "id"}, id : Id]

TypeOK ==
    /\ epoch \in 1..MaxEpochs /\ sequence \in 0..MaxEvents /\ floor \in 0..sequence
    /\ frames \in Seq(1..MaxEvents) /\ Len(frames) <= MaxFrames
    /\ online \subseteq Clients
    /\ wire \in [Clients -> Seq(Message)] /\ \A c \in Clients : Len(wire[c]) <= MaxWire
    /\ lastId \in [Clients -> Id] /\ base \in [Clients -> Id]
    /\ applied \in [Clients -> SUBSET Id]

\* A browser never misses an event without knowing: it has handled every event
\* between its base (its first id, or the last reset) and its last id, or it
\* holds an id of an epoch that is over, which makes its next connection a reset
\* (replay-log.ts: no replay may bridge a missing frame).
NoSilentGap ==
    \A c \in Clients : lastId[c] # NoId =>
        \/ base[c][1] > lastId[c][1]
        \/ /\ base[c][1] = lastId[c][1]
           /\ \A n \in (base[c][2] + 1)..lastId[c][2] : <<lastId[c][1], n>> \in applied[c]

\* The log holds every event after its floor, in order.
LogIsWhole == frames = [i \in 1..(sequence - floor) |-> floor + i]

\* The id a browser will hold when it has read the first i messages on its wire.
Reached(c, i) ==
    IF i > 0 /\ wire[c][i].kind \in {"event", "id"} THEN wire[c][i].id ELSE lastId[c]

\* What is on a wire follows what the browser holds, without a gap or a repeat: a
\* greeting comes first; an event is the next after the id before it; an id states
\* where the browser is, or, after a fresh start or a reset, where it starts.
Follows(c, i) ==
    LET m == wire[c][i]
        at == Reached(c, i - 1)
    IN  /\ m.kind = "fresh" => i = 1 /\ lastId[c] = NoId
        /\ m.kind = "replayed" => i = 1
        /\ m.kind = "reset" => i = 1 /\ Before(lastId[c], m.id)
        /\ m.kind = "event" => at[1] = m.id[1] /\ at[2] + 1 = m.id[2]
        /\ m.kind = "id" =>
              \/ at = m.id \/ at = NoId
              \/ /\ Before(at, m.id)
                 /\ IF i = 1 THEN base[c] = m.id
                    ELSE i = 2 /\ wire[c][1].kind = "reset" /\ wire[c][1].id = m.id

WireFollows == \A c \in Clients : \A i \in DOMAIN wire[c] : Follows(c, i)

\* Nobody is ahead of the log, and what is written to a client ends where it is.
Past(id) == id[1] < epoch \/ (id[1] = epoch /\ id[2] <= sequence)

LogIsAhead ==
    /\ \A c \in Clients : Past(lastId[c])
    /\ \A c \in Clients : \A i \in DOMAIN wire[c] : wire[c][i].id[1] > 0 /\ Past(wire[c][i].id)
    /\ \A c \in online :
          /\ Reached(c, Len(wire[c])) = <<epoch, sequence>>
          /\ wire[c] # <<>> => wire[c][Len(wire[c])].kind \in {"event", "id"}

\* NoSilentGap with what makes it inductive.
FeedInv == TypeOK /\ NoSilentGap /\ LogIsWhole /\ WireFollows /\ LogIsAhead

\* No event is handled twice or out of order: until the page is opened anew, its
\* last id only moves on, and every event read is later than it (the replay and
\* the live feed meet without overlap, across reconnections and epochs).
FeedMovesOn ==
    [][\A c \in Clients :
          /\ lastId'[c] \notin {lastId[c], NoId} => Before(lastId[c], lastId'[c])
          /\ wire[c] # <<>> /\ wire'[c] = Tail(wire[c]) /\ Head(wire[c]).kind = "event"
                => Before(lastId[c], Head(wire[c]).id)]_vars
===========================================================================
