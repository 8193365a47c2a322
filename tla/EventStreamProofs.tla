------------------------- MODULE EventStreamProofs -------------------------
(***************************************************************************)
(* The safety of EventStream for every set of browsers, every bound on the *)
(* log and on a socket, and every number of events and epochs: no browser  *)
(* misses an event unknowingly, and none is handed one twice.              *)
(***************************************************************************)
EXTENDS EventStream, TLAPS

---------------------------------------------------------------------------
(* The operators on the log *)

\* A log from low to high without its k oldest frames is the log from low + k.
LEMMA PrunedLog ==
  ASSUME NEW low \in Nat, NEW high \in Nat, low <= high, NEW k \in 0..(high - low)
  PROVE  Pruned([i \in 1..(high - low) |-> low + i], k)
           = [i \in 1..(high - (low + k)) |-> (low + k) + i]
  <1> DEFINE fs == [i \in 1..(high - low) |-> low + i]
  <1>1. fs \in Seq(Nat) /\ Len(fs) = high - low
    OBVIOUS
  <1>2. Pruned(fs, k) = [i \in 1..(Len(fs) - (k + 1) + 1) |-> fs[(k + 1) + i - 1]]
    BY <1>1 DEF Pruned
  <1>3. Len(fs) - (k + 1) + 1 = high - (low + k)
    BY <1>1
  <1>4. \A i \in 1..(high - (low + k)) : (k + 1) + i - 1 \in 1..(high - low) /\ fs[(k + 1) + i - 1] = (low + k) + i
    OBVIOUS
  <1> HIDE DEF fs
  <1>5. Pruned(fs, k) = [i \in 1..(high - (low + k)) |-> (low + k) + i]
    BY <1>2, <1>3, <1>4
  <1> QED
    BY <1>5 DEF fs

\* Filtering the log by an id it reaches back to leaves the log from that id.
LEMMA AfterLog ==
  ASSUME NEW low \in Nat, NEW high \in Nat, NEW n \in low..high
  PROVE  After([i \in 1..(high - low) |-> low + i], n) = [i \in 1..(high - n) |-> n + i]
  <1> DEFINE fs == [i \in 1..(high - low) |-> low + i]
             P(k) == \A i \in DOMAIN fs : fs[i] > n <=> i > k
             drop == CHOOSE k \in 0..Len(fs) : P(k)
  <1>1. /\ low <= high /\ n - low \in 0..(high - low) /\ Len(fs) = high - low
        /\ DOMAIN fs = 1..(high - low) /\ \A i \in DOMAIN fs : fs[i] = low + i
    OBVIOUS
  <1>2. n - low \in 0..Len(fs) /\ P(n - low)
    BY <1>1
  <1>3. drop \in 0..Len(fs) /\ P(drop)
    BY <1>2
  <1>4. After(fs, n) = Pruned(fs, drop)
    BY DEF After
  <1>5. Pruned(fs, n - low) = [i \in 1..(high - (low + (n - low))) |-> (low + (n - low)) + i]
    BY <1>1, PrunedLog
  <1> HIDE DEF drop, fs
  <1>6. drop = n - low
    <2>1. CASE drop > n - low
      <3>1. drop \in DOMAIN fs /\ fs[drop] > n
        BY <1>1, <1>3, <2>1
      <3> QED
        BY <3>1, <1>3
    <2>2. CASE drop < n - low
      <3>1. drop + 1 \in DOMAIN fs /\ ~(fs[drop + 1] > n)
        BY <1>1, <1>3, <2>2
      <3> QED
        BY <3>1, <1>3
    <2> QED
      BY <1>1, <1>3, <2>1, <2>2
  <1>7. low + (n - low) = n
    OBVIOUS
  <1>8. After(fs, n) = [i \in 1..(high - n) |-> n + i]
    BY <1>4, <1>5, <1>6, <1>7
  <1> QED
    BY <1>8 DEF fs

\* The log after a prune: whole from the new floor.
LEMMA PrunedFacts ==
  ASSUME FeedInv, NEW k \in 0..Len(frames)
  PROVE  /\ PrunedFloor(frames, k) \in floor..sequence
         /\ Pruned(frames, k) = [i \in 1..(sequence - PrunedFloor(frames, k)) |-> PrunedFloor(frames, k) + i]
         /\ sequence - PrunedFloor(frames, k) <= Len(frames)
  <1>1. /\ floor \in Nat /\ sequence \in Nat /\ floor <= sequence
        /\ frames = [i \in 1..(sequence - floor) |-> floor + i]
    BY StreamAssumption DEF FeedInv, TypeOK, LogIsWhole
  <1>2. Len(frames) = sequence - floor /\ k \in 0..(sequence - floor)
    BY <1>1
  <1>3. PrunedFloor(frames, k) = floor + k
    BY <1>1, <1>2 DEF PrunedFloor
  <1>4. Pruned([i \in 1..(sequence - floor) |-> floor + i], k)
          = [i \in 1..(sequence - (floor + k)) |-> (floor + k) + i]
    BY <1>1, <1>2, PrunedLog
  <1>5. Pruned(frames, k) = [i \in 1..(sequence - (floor + k)) |-> (floor + k) + i]
    BY <1>1, <1>4
  <1>6. floor + k \in floor..sequence /\ sequence - (floor + k) <= sequence - floor
    BY <1>1, <1>2
  <1> QED
    BY <1>2, <1>3, <1>5, <1>6

\* What a client is greeted with: connected, the events from its id to the
\* cursor if the log reaches back that far, and the cursor.
LEMMA GreetingFacts ==
  ASSUME FeedInv, NEW c \in Clients, NEW low \in floor..sequence, sequence - low <= MaxFrames
  PROVE  LET at == lastId[c]
             r == Resume(at, low)
             g == Greeting(at, r, [i \in 1..(sequence - low) |-> low + i])
             n == IF r = "replayed" THEN sequence - at[2] ELSE 0
         IN  /\ r \in {"fresh", "replayed", "reset"} /\ (r = "fresh" => at = NoId)
             /\ r = "replayed" => at[1] = epoch /\ at[2] \in low..sequence
             /\ r = "reset" => Before(at, <<epoch, sequence>>)
             /\ n \in 0..MaxFrames /\ g \in Seq(Message) /\ Len(g) = n + 2
             /\ g[1] = [kind |-> r, id |-> <<epoch, sequence>>]
             /\ \A i \in 1..n : g[i + 1] = [kind |-> "event", id |-> <<epoch, at[2] + i>>]
             /\ g[n + 2] = [kind |-> "id", id |-> <<epoch, sequence>>]
  <1> DEFINE at == lastId[c]
             r == Resume(at, low)
             fs == [i \in 1..(sequence - low) |-> low + i]
             g == Greeting(at, r, fs)
             n == IF r = "replayed" THEN sequence - at[2] ELSE 0
             missed == [i \in 1..n |-> at[2] + i]
             events == [i \in 1..n |-> [kind |-> "event", id |-> <<epoch, missed[i]>>]]
  <1>1. /\ floor \in Nat /\ sequence \in 0..MaxEvents /\ floor <= sequence /\ low \in Nat
        /\ epoch \in 1..MaxEpochs /\ MaxFrames \in Nat
        /\ at \in Id /\ Past(at)
    BY StreamAssumption DEF FeedInv, TypeOK, LogIsAhead
  <1>2. at[1] \in Nat /\ at[2] \in Nat /\ at = <<at[1], at[2]>>
    BY <1>1, StreamAssumption DEF Id, NoId
  <1>3. /\ r \in {"fresh", "replayed", "reset"} /\ (r = "fresh" => at = NoId)
        /\ r = "replayed" => at[1] = epoch /\ at[2] \in low..sequence
        /\ r = "reset" => Before(at, <<epoch, sequence>>)
    BY <1>1, <1>2 DEF Resume, Before, Past
  <1>4. n \in 0..MaxFrames
    BY <1>1, <1>2, <1>3
  <1>5. (IF r = "replayed" THEN After(fs, at[2]) ELSE <<>>) = missed
    <2>1. CASE r = "replayed"
      <3>1. After(fs, at[2]) = [i \in 1..(sequence - at[2]) |-> at[2] + i]
        <4>1. low \in Nat /\ sequence \in Nat /\ at[2] \in low..sequence
          BY <1>1, <1>3, <2>1
        <4> HIDE DEF at
        <4> QED
          BY <4>1, AfterLog
      <3> QED
        BY <3>1, <2>1
    <2>2. CASE r # "replayed"
      BY <2>2
    <2> QED
      BY <2>1, <2>2
  <1> HIDE DEF r, at, fs, n
  <1>6. DOMAIN missed = 1..n
    OBVIOUS
  <1>7. g = <<[kind |-> r, id |-> <<epoch, sequence>>]>> \o events
              \o <<[kind |-> "id", id |-> <<epoch, sequence>>]>>
    BY <1>5, <1>6 DEF Greeting
  <1>8. ASSUME NEW i \in 1..n
        PROVE  [kind |-> "event", id |-> <<epoch, at[2] + i>>] \in Message
    <2>1. at[2] + i \in 0..MaxEvents
      BY <1>1, <1>2, <1>3, StreamAssumption DEF n
    <2> QED
      BY <2>1, <1>1 DEF Message, Id
  <1>9. events \in Seq(Message) /\ Len(events) = n
        /\ \A i \in 1..n : events[i] = [kind |-> "event", id |-> <<epoch, at[2] + i>>]
    BY <1>4, <1>8
  <1>10. /\ [kind |-> r, id |-> <<epoch, sequence>>] \in Message
         /\ [kind |-> "id", id |-> <<epoch, sequence>>] \in Message
    BY <1>1, <1>3 DEF Message, Id
  <1> HIDE DEF events, g
  <1>11. /\ g \in Seq(Message) /\ Len(g) = n + 2
         /\ g[1] = [kind |-> r, id |-> <<epoch, sequence>>]
         /\ \A i \in 1..n : g[i + 1] = events[i]
         /\ g[n + 2] = [kind |-> "id", id |-> <<epoch, sequence>>]
    BY <1>4, <1>7, <1>9, <1>10
  <1> QED
    BY <1>3, <1>4, <1>9, <1>11 DEF r, at, fs, n, g

---------------------------------------------------------------------------
(* The wires *)

\* A message keeps its place as long as what is before it and the browser do.
LEMMA SameFollows ==
  ASSUME NEW c \in Clients, NEW i \in Nat, i > 0, Follows(c, i),
         \A j \in 1..i : wire'[c][j] = wire[c][j],
         lastId'[c] = lastId[c], base'[c] = base[c]
  PROVE  Follows(c, i)'
  <1>1. wire'[c][i] = wire[c][i] /\ wire'[c][1] = wire[c][1]
    OBVIOUS
  <1>2. Reached(c, i - 1)' = Reached(c, i - 1)
    <2>1. i - 1 > 0 => wire'[c][i - 1] = wire[c][i - 1]
      OBVIOUS
    <2> QED
      BY <2>1 DEF Reached
  <1> QED
    BY <1>1, <1>2 DEF Follows

\* A client nothing happens to, while the log only moves on.
LEMMA SameClient ==
  ASSUME FeedInv, NEW c \in Clients, wire'[c] = wire[c], lastId'[c] = lastId[c], base'[c] = base[c]
  PROVE  \A i \in DOMAIN wire'[c] : Follows(c, i)'
  <1>1. wire[c] \in Seq(Message) /\ \A i \in DOMAIN wire[c] : Follows(c, i)
    BY DEF FeedInv, TypeOK, WireFollows
  <1> SUFFICES ASSUME NEW i \in DOMAIN wire'[c] PROVE Follows(c, i)'
    OBVIOUS
  <1>2. i \in Nat /\ i > 0 /\ Follows(c, i)
    BY <1>1
  <1> QED
    BY <1>2, SameFollows

\* The ids there are, taken apart.
LEMMA IdFacts ==
  ASSUME NEW id \in Id
  PROVE  id[1] \in Nat /\ id[2] \in Nat /\ id = <<id[1], id[2]>> /\ (id[1] > 0 => id # NoId)
  BY StreamAssumption DEF Id, NoId

\* The bounds, one by one.
LEMMA Bounds ==
    /\ MaxFrames \in Nat /\ MaxWire \in Nat /\ MaxEvents \in Nat /\ MaxEpochs \in Nat
    /\ MaxWire >= MaxFrames + 2
  BY StreamAssumption

LEMMA AppendFacts ==
  ASSUME NEW s \in Seq(Message), NEW m \in Message
  PROVE  /\ Append(s, m) \in Seq(Message) /\ Len(s) \in Nat
         /\ Len(Append(s, m)) = Len(s) + 1 /\ Append(s, m)[Len(s) + 1] = m
         /\ \A j \in 1..Len(s) : Append(s, m)[j] = s[j]
         /\ DOMAIN s = 1..Len(s) /\ DOMAIN Append(s, m) = 1..(Len(s) + 1)
  OBVIOUS

\* One more event makes the log one longer.
LEMMA AppendLog ==
  ASSUME NEW low \in Nat, NEW high \in Nat, low <= high
  PROVE  Append([i \in 1..(high - low) |-> low + i], high + 1)
           = [i \in 1..((high + 1) - low) |-> low + i]
  <1> DEFINE fs == [i \in 1..(high - low) |-> low + i]
             gs == Append(fs, high + 1)
  <1>1. fs \in Seq(Nat) /\ Len(fs) = high - low /\ \A i \in 1..(high - low) : fs[i] = low + i
    OBVIOUS
  <1> HIDE DEF fs
  <1>2. gs \in Seq(Nat) /\ Len(gs) = (high - low) + 1 /\ gs[(high - low) + 1] = high + 1
        /\ \A i \in 1..(high - low) : gs[i] = fs[i]
    BY <1>1
  <1>3. (high - low) + 1 = (high + 1) - low /\ low + ((high - low) + 1) = high + 1
    OBVIOUS
  <1> HIDE DEF gs
  <1>4. ASSUME NEW i \in 1..((high + 1) - low) PROVE gs[i] = low + i
    <2>1. CASE i \in 1..(high - low)
      BY <2>1, <1>1, <1>2
    <2>2. CASE i = (high - low) + 1
      BY <2>2, <1>2, <1>3
    <2>3. i \in 1..(high - low) \/ i = (high - low) + 1
      OBVIOUS
    <2> QED
      BY <2>1, <2>2, <2>3
  <1>5. gs = [i \in 1..((high + 1) - low) |-> low + i]
    BY <1>2, <1>3, <1>4
  <1> QED
    BY <1>5 DEF gs, fs

\* A log of known length is a sequence of event numbers.
LEMMA LogType ==
  ASSUME NEW low \in Nat, NEW high \in 0..MaxEvents, low <= high, MaxEvents \in Nat
  PROVE  /\ [i \in 1..(high - low) |-> low + i] \in Seq(1..MaxEvents)
         /\ Len([i \in 1..(high - low) |-> low + i]) = high - low
  <1>1. high - low \in Nat /\ \A i \in 1..(high - low) : low + i \in 1..MaxEvents
    OBVIOUS
  <1> QED
    BY <1>1

\* The event that is emitted: whoever keeps up has it next on the wire.
LEMMA EmitKeeps ==
  ASSUME FeedInv, NEW k \in 0..(MaxFrames + 1), Emit(k)
  PROVE  FeedInv'
  <1> DEFINE high == sequence + 1
             fs   == Append(frames, high)
             slow == {c \in online : Len(wire[c]) >= MaxWire}
             fast == online \ slow
             m    == [kind |-> "event", id |-> <<epoch, high>>]
  <1>1. /\ sequence < MaxEvents /\ k <= Len(fs) /\ Len(fs) - k <= MaxFrames
        /\ sequence' = high /\ frames' = Pruned(fs, k) /\ floor' = IF k = 0 THEN floor ELSE fs[k]
        /\ online' = fast /\ UNCHANGED <<epoch, lastId, base, applied>>
        /\ wire' = [c \in Clients |-> IF c \in fast THEN Append(wire[c], m) ELSE wire[c]]
    BY DEF Emit, browserVars, PrunedFloor
  <1>2. /\ floor \in Nat /\ sequence \in Nat /\ floor <= sequence /\ epoch \in 1..MaxEpochs
        /\ high \in 0..MaxEvents /\ high \in Nat /\ floor <= high /\ high = sequence + 1
        /\ frames = [i \in 1..(sequence - floor) |-> floor + i] /\ online \subseteq Clients
        /\ wire \in [Clients -> Seq(Message)] /\ \A c \in Clients : Len(wire[c]) <= MaxWire
    BY <1>1, Bounds DEF FeedInv, TypeOK, LogIsWhole
  <1>3. m \in Message /\ m.kind = "event" /\ m.id = <<epoch, high>>
    BY <1>2 DEF Message, Id
  <1>4. fs = [i \in 1..(high - floor) |-> floor + i]
    BY <1>2, AppendLog
  <1>5. fast \subseteq online /\ \A c \in fast : Len(wire[c]) < MaxWire
    <2>1. ASSUME NEW c \in fast PROVE Len(wire[c]) < MaxWire
      <3>1. c \in Clients /\ ~(Len(wire[c]) >= MaxWire)
        BY <1>2
      <3>2. wire[c] \in Seq(Message)
        BY <1>2, <3>1
      <3>3. Len(wire[c]) \in Nat
        BY <3>2
      <3> QED
        BY <3>1, <3>3, Bounds
    <2> QED
      BY <2>1
  <1> HIDE DEF fs, m, slow, fast, high
  <1>6. k \in 0..(high - floor) /\ floor' = floor + k /\ high - (floor + k) <= MaxFrames
        /\ floor + k \in 0..high
    <2>1. Len(fs) = high - floor
      BY <1>2, <1>4
    <2>2. k \in Nat
      OBVIOUS
    <2> QED
      BY <1>1, <1>2, <1>4, <2>1, <2>2
  <1>7. frames' = [i \in 1..(high - (floor + k)) |-> (floor + k) + i]
    <2>1. Pruned([i \in 1..(high - floor) |-> floor + i], k)
            = [i \in 1..(high - (floor + k)) |-> (floor + k) + i]
      BY <1>2, <1>6, PrunedLog
    <2> QED
      BY <1>1, <1>4, <2>1
  <1>8. LogIsWhole'
    BY <1>1, <1>6, <1>7 DEF LogIsWhole
  <1>9. ASSUME NEW c \in fast
        PROVE  /\ wire[c] \in Seq(Message) /\ wire'[c] \in Seq(Message)
               /\ Len(wire[c]) \in Nat /\ Len(wire'[c]) = Len(wire[c]) + 1
               /\ wire'[c][Len(wire[c]) + 1] = m
               /\ \A j \in 1..Len(wire[c]) : wire'[c][j] = wire[c][j]
               /\ DOMAIN wire[c] = 1..Len(wire[c]) /\ DOMAIN wire'[c] = 1..(Len(wire[c]) + 1)
               /\ Reached(c, Len(wire[c])) = <<epoch, sequence>> /\ c \in Clients
    <2>1. c \in Clients /\ wire[c] \in Seq(Message) /\ wire'[c] = Append(wire[c], m)
      BY <1>1, <1>2, <1>5
    <2>2. Reached(c, Len(wire[c])) = <<epoch, sequence>>
      BY <1>5 DEF FeedInv, LogIsAhead
    <2> QED
      BY <2>1, <2>2, <1>3, AppendFacts
  <1>10. TypeOK'
    <2>1. wire' \in [Clients -> Seq(Message)] /\ \A c \in Clients : Len(wire'[c]) <= MaxWire
      <3>1. ASSUME NEW c \in Clients PROVE wire'[c] \in Seq(Message) /\ Len(wire'[c]) <= MaxWire
        <4>1. CASE c \in fast
          BY <4>1, <1>5, <1>9, Bounds
        <4>2. CASE c \notin fast
          BY <4>2, <1>1, <1>2
        <4> QED
          BY <4>1, <4>2
      <3> QED
        BY <3>1, <1>1
    <2>2. frames' \in Seq(1..MaxEvents) /\ Len(frames') <= MaxFrames
      <3>1. /\ [i \in 1..(high - (floor + k)) |-> (floor + k) + i] \in Seq(1..MaxEvents)
            /\ Len([i \in 1..(high - (floor + k)) |-> (floor + k) + i]) = high - (floor + k)
        BY <1>2, <1>6, Bounds, LogType
      <3> QED
        BY <3>1, <1>6, <1>7
    <2> QED
      BY <1>1, <1>2, <1>5, <1>6, <2>1, <2>2 DEF FeedInv, TypeOK
  <1>11. NoSilentGap'
    BY <1>1 DEF FeedInv, NoSilentGap
  <1>12. WireFollows'
    <2> SUFFICES ASSUME NEW c \in Clients, NEW i \in DOMAIN wire'[c] PROVE Follows(c, i)'
      BY DEF WireFollows
    <2>1. CASE c \notin fast
      BY <1>1, <2>1, SameClient
    <2>2. CASE c \in fast /\ i \in 1..Len(wire[c])
      <3>1. i \in Nat /\ i > 0 /\ i \in DOMAIN wire[c] /\ \A j \in 1..i : j \in 1..Len(wire[c])
        BY <1>9, <2>2
      <3>2. Follows(c, i)
        BY <3>1 DEF FeedInv, WireFollows
      <3>3. \A j \in 1..i : wire'[c][j] = wire[c][j]
        BY <1>9, <2>2, <3>1
      <3> QED
        BY <1>1, <3>1, <3>2, <3>3, SameFollows
    <2>3. CASE c \in fast /\ i = Len(wire[c]) + 1
      <3>1. wire'[c][i] = m /\ Len(wire[c]) \in Nat /\ i - 1 = Len(wire[c])
        BY <1>9, <2>3
      <3>2. Len(wire[c]) > 0 => wire'[c][Len(wire[c])] = wire[c][Len(wire[c])]
        BY <1>9, <2>3
      <3>3. Reached(c, i - 1)' = <<epoch, sequence>>
        BY <1>1, <1>9, <2>3, <3>1, <3>2 DEF Reached
      <3> QED
        BY <3>1, <3>3, <1>2, <1>3 DEF Follows
    <2>4. c \in fast => i \in 1..Len(wire[c]) \/ i = Len(wire[c]) + 1
      BY <1>9
    <2> QED
      BY <2>1, <2>2, <2>3, <2>4
  <1>13. \A id \in Id : Past(id) => Past(id)'
    BY <1>1, <1>2, IdFacts DEF Past
  <1>14. \A c \in Clients : Past(lastId[c])'
    BY <1>1, <1>13 DEF FeedInv, TypeOK, LogIsAhead
  <1>15. ASSUME NEW c \in Clients, NEW i \in DOMAIN wire'[c]
         PROVE  wire'[c][i].id[1] > 0 /\ Past(wire[c][i].id)'
    <2>1. CASE i \in DOMAIN wire[c] /\ wire'[c][i] = wire[c][i]
      <3>1. wire[c][i] \in Message /\ wire[c][i].id[1] > 0 /\ Past(wire[c][i].id)
        BY <2>1, <1>2 DEF FeedInv, LogIsAhead
      <3>2. wire[c][i].id \in Id
        BY <3>1 DEF Message
      <3> QED
        BY <2>1, <3>1, <3>2, <1>13
    <2>2. CASE wire'[c][i] = m
      BY <2>2, <1>1, <1>2, <1>3 DEF Past
    <2>3. (i \in DOMAIN wire[c] /\ wire'[c][i] = wire[c][i]) \/ wire'[c][i] = m
      <3>1. CASE c \notin fast
        BY <3>1, <1>1
      <3>2. CASE c \in fast
        <4>1. i \in 1..(Len(wire[c]) + 1) /\ Len(wire[c]) \in Nat
          BY <3>2, <1>9
        <4>2. i \in 1..Len(wire[c]) \/ i = Len(wire[c]) + 1
          BY <4>1
        <4> QED
          BY <3>2, <4>2, <1>9
      <3> QED
        BY <3>1, <3>2
    <2> QED
      BY <2>1, <2>2, <2>3
  <1>16. ASSUME NEW c \in online'
         PROVE  /\ Reached(c, Len(wire[c]))' = <<epoch', sequence'>>
                /\ wire'[c] # <<>> => wire'[c][Len(wire'[c])].kind \in {"event", "id"}
    <2>1. /\ wire'[c][Len(wire'[c])] = m /\ Len(wire'[c]) > 0
      BY <1>1, <1>9
    <2> QED
      BY <2>1, <1>1, <1>3 DEF Reached
  <1>17. LogIsAhead'
    BY <1>14, <1>15, <1>16 DEF LogIsAhead
  <1> QED
    BY <1>8, <1>10, <1>11, <1>12, <1>17 DEF FeedInv

LEMMA EmptyLog ==
  ASSUME NEW n \in Nat
  PROVE  <<>> = [i \in 1..(n - n) |-> n + i]
  <1> DEFINE fs == [i \in 1..(n - n) |-> n + i]
  <1>1. n - n = 0
    OBVIOUS
  <1>2. fs \in Seq(Nat) /\ DOMAIN fs = 1..0
    BY <1>1
  <1> HIDE DEF fs
  <1>3. fs = <<>>
    BY <1>2
  <1> QED
    BY <1>3 DEF fs

\* A step of the log that writes nothing and leaves it empty.
LEMMA ClearedLog ==
  ASSUME FeedInv, UNCHANGED <<wire, lastId, base, applied>>, online' = {}, frames' = <<>>,
         epoch' \in 1..MaxEpochs, sequence' \in 0..MaxEvents, floor' = sequence',
         \A id \in Id : Past(id) => Past(id)'
  PROVE  FeedInv'
  <1>1. sequence' \in Nat /\ floor' \in 0..sequence'
    BY Bounds
  <1>2. <<>> = [i \in 1..(sequence' - floor') |-> floor' + i]
    BY <1>1, EmptyLog
  <1>3. Len(<<>>) = 0 /\ <<>> \in Seq(1..MaxEvents)
    OBVIOUS
  <1>4. TypeOK'
    BY <1>1, <1>3, Bounds DEF FeedInv, TypeOK
  <1>5. NoSilentGap' /\ LogIsWhole'
    BY <1>2 DEF FeedInv, NoSilentGap, LogIsWhole
  <1>6. WireFollows'
    BY SameClient DEF WireFollows
  <1>7. LogIsAhead'
    <2>1. \A c \in Clients : lastId[c] \in Id /\ \A i \in DOMAIN wire[c] : wire[c][i].id \in Id
      <3>1. \A c \in Clients : \A i \in DOMAIN wire[c] : wire[c][i] \in Message
        BY DEF FeedInv, TypeOK
      <3> QED
        BY <3>1 DEF FeedInv, TypeOK, Message
    <2> QED
      BY <2>1 DEF FeedInv, LogIsAhead
  <1> QED
    BY <1>4, <1>5, <1>6, <1>7 DEF FeedInv

LEMMA EmitOversizeKeeps == ASSUME FeedInv, EmitOversize PROVE FeedInv'
  <1>1. /\ UNCHANGED <<epoch, wire, lastId, base, applied>> /\ online' = {} /\ frames' = <<>>
        /\ epoch \in 1..MaxEpochs /\ sequence' = sequence + 1 /\ floor' = sequence'
        /\ sequence \in Nat /\ sequence' \in 0..MaxEvents
    BY Bounds DEF EmitOversize, browserVars, FeedInv, TypeOK
  <1>2. \A id \in Id : Past(id) => Past(id)'
    BY <1>1, IdFacts DEF Past
  <1> QED
    BY <1>1, <1>2, ClearedLog

LEMMA RestartKeeps == ASSUME FeedInv, Restart PROVE FeedInv'
  <1>1. /\ UNCHANGED <<wire, lastId, base, applied>> /\ online' = {} /\ frames' = <<>>
        /\ epoch \in Nat /\ epoch' = epoch + 1 /\ epoch' \in 1..MaxEpochs
        /\ sequence' \in 0..MaxEvents /\ floor' = sequence'
    BY Bounds DEF Restart, browserVars, FeedInv, TypeOK
  <1>2. \A id \in Id : Past(id) => Past(id)'
    BY <1>1, IdFacts DEF Past
  <1> QED
    BY <1>1, <1>2, ClearedLog

\* A reconnection is greeted with what continues the id the browser holds.
LEMMA ConnectKeeps ==
  ASSUME FeedInv, NEW d \in Clients, NEW k \in Nat, Connect(d, k)
  PROVE  FeedInv'
  <1> DEFINE low == PrunedFloor(frames, k)
             at  == lastId[d]
             r   == Resume(at, low)
             g   == Greeting(at, r, [i \in 1..(sequence - low) |-> low + i])
             n   == IF r = "replayed" THEN sequence - at[2] ELSE 0
             cur == <<epoch, sequence>>
  <1>1. /\ floor \in Nat /\ sequence \in 0..MaxEvents /\ floor <= sequence /\ epoch \in 1..MaxEpochs
        /\ online \subseteq Clients /\ Len(frames) \in Nat /\ Len(frames) <= MaxFrames
        /\ wire \in [Clients -> Seq(Message)] /\ \A c \in Clients : Len(wire[c]) <= MaxWire
        /\ at \in Id /\ Past(at)
    BY Bounds DEF FeedInv, TypeOK, LogIsAhead
  <1>2. k \in 0..Len(frames) /\ wire[d] = <<>> /\ d \notin online
    BY <1>1 DEF Connect
  <1>3. /\ low \in floor..sequence /\ sequence - low <= MaxFrames /\ low \in Nat
        /\ Pruned(frames, k) = [i \in 1..(sequence - low) |-> low + i]
    <2>1. sequence - low <= Len(frames) /\ low \in floor..sequence
      BY <1>2, PrunedFacts
    <2>2. Pruned(frames, k) = [i \in 1..(sequence - low) |-> low + i]
      BY <1>2, PrunedFacts
    <2> HIDE DEF low
    <2> QED
      BY <2>1, <2>2, <1>1, Bounds
  <1>4. /\ frames' = [i \in 1..(sequence - low) |-> low + i] /\ floor' = low
        /\ wire' = [wire EXCEPT ![d] = g] /\ online' = online \cup {d}
        /\ UNCHANGED <<epoch, sequence, lastId, base, applied>>
    BY <1>3 DEF Connect, browserVars
  <1> HIDE DEF low
  <1>5. /\ r \in {"fresh", "replayed", "reset"} /\ (r = "fresh" => at = NoId)
        /\ r = "replayed" => at[1] = epoch /\ at[2] \in low..sequence
        /\ r = "reset" => Before(at, cur)
        /\ n \in 0..MaxFrames /\ g \in Seq(Message) /\ Len(g) = n + 2
        /\ g[1] = [kind |-> r, id |-> cur]
        /\ \A i \in 1..n : g[i + 1] = [kind |-> "event", id |-> <<epoch, at[2] + i>>]
        /\ g[n + 2] = [kind |-> "id", id |-> cur]
    BY <1>3, GreetingFacts
  <1> HIDE DEF g, r, n
  <1>6. wire'[d] = g /\ \A c \in Clients \ {d} : wire'[c] = wire[c]
    BY <1>1, <1>4
  <1>7. DOMAIN g = 1..(n + 2) /\ n \in Nat
    BY <1>5, Bounds
  <1>8. at[1] \in Nat /\ at[2] \in Nat /\ at = <<at[1], at[2]>>
    BY <1>1, IdFacts
  <1>9. at[2] + n = sequence \/ n = 0
    BY <1>1, <1>8 DEF n
  <1>10. r = "replayed" /\ n = 0 => at = cur
    BY <1>1, <1>5, <1>8 DEF n
  <1>11. n > 0 => r = "replayed"
    BY DEF n
  <1> HIDE DEF at
  <1>12. ASSUME NEW i \in 1..(n + 2)
         PROVE  \/ i = 1
                \/ i \in 2..(n + 1) /\ i - 1 \in 1..n /\ g[i] = [kind |-> "event", id |-> <<epoch, at[2] + (i - 1)>>]
                \/ i = n + 2
    <2>1. i = 1 \/ i - 1 \in 1..n \/ i = n + 2
      BY <1>7
    <2>2. i - 1 \in 1..n => g[(i - 1) + 1] = [kind |-> "event", id |-> <<epoch, at[2] + (i - 1)>>]
      BY <1>5
    <2>3. (i - 1) + 1 = i /\ (i - 1 \in 1..n => i \in 2..(n + 1))
      BY <1>7
    <2> QED
      BY <2>1, <2>2, <2>3
  <1>13. ASSUME NEW i \in 1..(n + 2)
         PROVE  g[i].id[1] = epoch /\ Past(g[i].id)
    <2>1. CASE i = 1 \/ i = n + 2
      BY <2>1, <1>1, <1>5 DEF Past, cur
    <2>2. CASE i - 1 \in 1..n /\ g[i] = [kind |-> "event", id |-> <<epoch, at[2] + (i - 1)>>]
      <3>1. at[2] + (i - 1) <= sequence
        BY <2>2, <1>1, <1>7, <1>8, <1>9
      <3> QED
        BY <2>2, <3>1, <1>1 DEF Past
    <2> QED
      BY <2>1, <2>2, <1>12
  <1>14. TypeOK'
    <2>1. wire' \in [Clients -> Seq(Message)] /\ \A c \in Clients : Len(wire'[c]) <= MaxWire
      BY <1>1, <1>4, <1>5, <1>6, Bounds
    <2>2. frames' \in Seq(1..MaxEvents) /\ Len(frames') <= MaxFrames
      BY <1>1, <1>3, <1>4, Bounds, LogType
    <2> QED
      BY <1>1, <1>3, <1>4, <2>1, <2>2 DEF FeedInv, TypeOK
  <1>15. NoSilentGap' /\ LogIsWhole'
    BY <1>4 DEF FeedInv, NoSilentGap, LogIsWhole
  <1>16. ASSUME NEW i \in 1..(n + 2) PROVE Follows(d, i)'
    <2>1. CASE i = 1
      BY <2>1, <1>4, <1>5, <1>6 DEF Follows, at
    <2>2. CASE i - 1 \in 1..n /\ g[i] = [kind |-> "event", id |-> <<epoch, at[2] + (i - 1)>>]
      <3>1. Reached(d, i - 1)' = <<epoch, at[2] + (i - 2)>>
        <4>1. CASE i - 1 = 1
          BY <4>1, <1>4, <1>5, <1>6, <1>8, <1>11, <2>2, <1>7 DEF Reached, at
        <4>2. CASE i - 1 > 1
          <5>1. /\ i - 2 \in 1..n /\ i - 1 = (i - 2) + 1
            BY <4>2, <2>2, <1>7
          <5>2. g[i - 1] = [kind |-> "event", id |-> <<epoch, at[2] + (i - 2)>>]
            BY <5>1, <1>5
          <5> QED
            BY <4>2, <5>2, <1>6 DEF Reached
        <4> QED
          BY <4>1, <4>2, <2>2, <1>7
      <3>2. at[2] + (i - 2) + 1 = at[2] + (i - 1)
        BY <1>8
      <3> QED
        BY <2>2, <3>1, <3>2, <1>6 DEF Follows
    <2>3. CASE i = n + 2
      <3>1. g[i].kind = "id" /\ g[i].id = cur
        BY <2>3, <1>5
      <3>2. CASE n > 0
        <4>1. Reached(d, i - 1)' = cur
          <5>1. i - 1 = n + 1 /\ g[n + 1] = [kind |-> "event", id |-> <<epoch, at[2] + n>>]
            BY <2>3, <3>2, <1>5, <1>7
          <5>2. at[2] + n = sequence
            BY <3>2, <1>9, <1>7
          <5> QED
            BY <5>1, <5>2, <1>6, <1>7 DEF Reached, cur
        <4> QED
          BY <3>1, <4>1, <1>6 DEF Follows
      <3>3. CASE n = 0
        <4>1. i - 1 = 1 /\ i = 2 /\ g[1].kind = r /\ g[1].id = cur
          BY <2>3, <3>3, <1>5
        <4>2. Reached(d, i - 1)' = at
          BY <4>1, <1>4, <1>5, <1>6 DEF Reached, at
        <4> QED
          BY <3>1, <3>3, <4>1, <4>2, <1>4, <1>5, <1>6, <1>10 DEF Follows
      <3> QED
        BY <3>2, <3>3, <1>7
    <2> QED
      BY <2>1, <2>2, <2>3, <1>12
  <1>17. WireFollows'
    <2>1. ASSUME NEW c \in Clients, NEW i \in DOMAIN wire'[c] PROVE Follows(c, i)'
      BY <1>4, <1>6, <1>7, <1>16, SameClient
    <2> QED
      BY <2>1 DEF WireFollows
  <1>18. LogIsAhead'
    <2>1. ASSUME NEW c \in Clients
          PROVE  /\ Past(lastId[c])'
                 /\ \A i \in DOMAIN wire'[c] : wire'[c][i].id[1] > 0 /\ Past(wire[c][i].id)'
      <3>1. Past(lastId[c])'
        BY <1>4 DEF FeedInv, LogIsAhead, Past
      <3>2. CASE c = d
        BY <3>1, <3>2, <1>1, <1>4, <1>6, <1>7, <1>13 DEF Past
      <3>3. CASE c # d
        BY <3>1, <3>3, <1>4, <1>6 DEF FeedInv, LogIsAhead, Past
      <3> QED
        BY <3>2, <3>3
    <2>2. ASSUME NEW c \in online'
          PROVE  /\ Reached(c, Len(wire[c]))' = <<epoch', sequence'>>
                 /\ wire'[c] # <<>> => wire'[c][Len(wire'[c])].kind \in {"event", "id"}
      <3>1. CASE c = d
        <4>1. Len(wire'[c]) = n + 2 /\ wire'[c][n + 2] = [kind |-> "id", id |-> cur]
          BY <3>1, <1>5, <1>6
        <4> QED
          BY <4>1, <1>4, <1>7 DEF Reached, cur
      <3>2. CASE c # d
        <4>1. c \in online /\ c \in Clients /\ wire'[c] = wire[c]
          BY <3>2, <1>1, <1>4, <1>6
        <4> QED
          BY <4>1, <1>4 DEF FeedInv, LogIsAhead, Reached
      <3> QED
        BY <3>1, <3>2
    <2> QED
      BY <2>1, <2>2 DEF LogIsAhead
  <1> QED
    BY <1>14, <1>15, <1>17, <1>18 DEF FeedInv

LEMMA DisconnectKeeps == ASSUME FeedInv, NEW d \in Clients, Disconnect(d) PROVE FeedInv'
  <1>1. /\ UNCHANGED <<epoch, sequence, floor, frames, lastId, base, applied>>
        /\ online' = online \ {d} /\ wire' = [wire EXCEPT ![d] = <<>>]
        /\ wire \in [Clients -> Seq(Message)]
    BY DEF Disconnect, logVars, browserVars, FeedInv, TypeOK
  <1>2. wire'[d] = <<>> /\ \A c \in Clients \ {d} : wire'[c] = wire[c]
    BY <1>1
  <1>3. <<>> \in Seq(Message) /\ Len(<<>>) = 0 /\ DOMAIN <<>> = {}
    OBVIOUS
  <1>4. TypeOK'
    <2>1. wire' \in [Clients -> Seq(Message)]
      BY <1>1, <1>3
    <2>2. ASSUME NEW c \in Clients PROVE Len(wire'[c]) <= MaxWire
      <3>1. CASE c = d
        BY <3>1, <1>2, <1>3, Bounds
      <3>2. CASE c # d
        BY <3>2, <1>2 DEF FeedInv, TypeOK
      <3> QED
        BY <3>1, <3>2
    <2> QED
      BY <1>1, <2>1, <2>2 DEF FeedInv, TypeOK
  <1>5. NoSilentGap' /\ LogIsWhole'
    BY <1>1 DEF FeedInv, NoSilentGap, LogIsWhole
  <1>6. WireFollows'
    BY <1>1, <1>2, <1>3, SameClient DEF WireFollows
  <1>7. LogIsAhead'
    <2>1. ASSUME NEW c \in online'
          PROVE  /\ Reached(c, Len(wire[c]))' = <<epoch', sequence'>>
                 /\ wire'[c] # <<>> => wire'[c][Len(wire'[c])].kind \in {"event", "id"}
      <3>1. c \in online /\ c # d /\ wire'[c] = wire[c]
        BY <1>1, <1>2 DEF FeedInv, TypeOK
      <3> QED
        BY <3>1, <1>1 DEF FeedInv, LogIsAhead, Reached
    <2>2. ASSUME NEW c \in Clients
          PROVE  /\ Past(lastId[c])'
                 /\ \A i \in DOMAIN wire'[c] : wire'[c][i].id[1] > 0 /\ Past(wire[c][i].id)'
      BY <1>1, <1>2, <1>3 DEF FeedInv, LogIsAhead, Past
    <2> QED
      BY <2>1, <2>2 DEF LogIsAhead
  <1> QED
    BY <1>4, <1>5, <1>6, <1>7 DEF FeedInv

LEMMA ReloadKeeps == ASSUME FeedInv, NEW d \in Clients, Reload(d) PROVE FeedInv'
  <1>1. /\ UNCHANGED <<epoch, sequence, floor, frames, online, wire>>
        /\ d \notin online /\ wire[d] = <<>>
        /\ lastId' = [lastId EXCEPT ![d] = NoId] /\ base' = [base EXCEPT ![d] = NoId]
        /\ applied' = [applied EXCEPT ![d] = {}]
        /\ lastId \in [Clients -> Id] /\ base \in [Clients -> Id]
        /\ applied \in [Clients -> SUBSET Id] /\ NoId \in Id /\ epoch \in 1..MaxEpochs
    BY DEF Reload, logVars, FeedInv, TypeOK, Id
  <1>2. /\ lastId'[d] = NoId
        /\ \A c \in Clients \ {d} : lastId'[c] = lastId[c] /\ base'[c] = base[c] /\ applied'[c] = applied[c]
    BY <1>1
  <1>3. TypeOK'
    BY <1>1 DEF FeedInv, TypeOK
  <1>4. NoSilentGap' /\ LogIsWhole'
    BY <1>1, <1>2 DEF FeedInv, NoSilentGap, LogIsWhole
  <1>5. WireFollows'
    <2>1. ASSUME NEW c \in Clients, NEW i \in DOMAIN wire'[c] PROVE Follows(c, i)'
      <3>1. c # d
        BY <1>1
      <3> QED
        BY <3>1, <1>1, <1>2, SameClient
    <2> QED
      BY <2>1 DEF WireFollows
  <1>6. LogIsAhead'
    <2>1. Past(NoId)'
      BY <1>1, Bounds DEF Past, NoId
    <2>2. \A c \in Clients : Past(lastId[c])'
      BY <2>1, <1>1, <1>2 DEF FeedInv, LogIsAhead, Past
    <2>3. ASSUME NEW c \in online'
          PROVE  Reached(c, Len(wire[c]))' = <<epoch', sequence'>>
      <3>1. c \in online /\ c # d /\ c \in Clients
        BY <1>1 DEF FeedInv, TypeOK
      <3> QED
        BY <3>1, <1>1, <1>2 DEF FeedInv, LogIsAhead, Reached
    <2> QED
      BY <2>2, <2>3, <1>1 DEF FeedInv, LogIsAhead, Past
  <1> QED
    BY <1>3, <1>4, <1>5, <1>6 DEF FeedInv

\* The sequence that is left when the first message has been read.
LEMMA TailFacts ==
  ASSUME NEW s \in Seq(Message), s # <<>>
  PROVE  /\ Head(s) = s[1] /\ s[1] \in Message /\ 1 \in DOMAIN s /\ Len(s) \in Nat /\ Len(s) > 0
         /\ Tail(s) \in Seq(Message) /\ Len(Tail(s)) = Len(s) - 1
         /\ DOMAIN Tail(s) = 1..(Len(s) - 1) /\ DOMAIN s = 1..Len(s)
         /\ \A i \in 1..(Len(s) - 1) : Tail(s)[i] = s[i + 1]
  OBVIOUS

\* What a browser reads next continues what it holds, or is announced by a reset.
LEMMA ReceiveKeeps == ASSUME FeedInv, NEW d \in Clients, Receive(d) PROVE FeedInv'
  <1> DEFINE m == wire[d][1]
             left == Len(wire[d]) - 1
  <1>1. /\ wire \in [Clients -> Seq(Message)] /\ wire[d] # <<>> /\ wire[d] \in Seq(Message)
        /\ \A c \in Clients : Len(wire[c]) <= MaxWire
        /\ lastId \in [Clients -> Id] /\ base \in [Clients -> Id] /\ applied \in [Clients -> SUBSET Id]
        /\ epoch \in 1..MaxEpochs /\ online \subseteq Clients
    BY DEF FeedInv, TypeOK, Receive
  <1>2. /\ Head(wire[d]) = m /\ m \in Message /\ 1 \in DOMAIN wire[d] /\ left \in Nat
        /\ Tail(wire[d]) \in Seq(Message) /\ Len(Tail(wire[d])) = left
        /\ DOMAIN Tail(wire[d]) = 1..left /\ DOMAIN wire[d] = 1..(left + 1)
        /\ Len(wire[d]) = left + 1
        /\ \A i \in 1..left : Tail(wire[d])[i] = wire[d][i + 1]
    BY <1>1, TailFacts
  <1>3. /\ UNCHANGED <<epoch, sequence, floor, frames, online>>
        /\ wire' = [wire EXCEPT ![d] = Tail(wire[d])]
        /\ lastId' = IF m.kind \in {"event", "id"} THEN [lastId EXCEPT ![d] = m.id] ELSE lastId
        /\ base' = IF m.kind = "reset" \/ (m.kind = "id" /\ lastId[d] = NoId)
                   THEN [base EXCEPT ![d] = m.id] ELSE base
        /\ applied' = IF m.kind = "reset" THEN [applied EXCEPT ![d] = {}]
                      ELSE IF m.kind = "event" THEN [applied EXCEPT ![d] = applied[d] \cup {m.id}]
                      ELSE applied
    BY <1>1, <1>2 DEF Receive, logVars
  <1>4. Follows(d, 1) /\ Reached(d, 0) = lastId[d] /\ m.id[1] > 0 /\ Past(m.id) /\ m.id \in Id
    BY <1>2 DEF FeedInv, WireFollows, LogIsAhead, Reached, Message
  <1>5. /\ m.kind = "fresh" => lastId[d] = NoId
        /\ m.kind = "reset" => Before(lastId[d], m.id)
        /\ m.kind = "event" => lastId[d][1] = m.id[1] /\ lastId[d][2] + 1 = m.id[2]
        /\ m.kind = "id" => \/ lastId[d] \in {m.id, NoId}
                            \/ Before(lastId[d], m.id) /\ base[d] = m.id
    BY <1>4 DEF Follows
  <1> HIDE DEF m
  <1>6. /\ wire'[d] = Tail(wire[d])
        /\ lastId'[d] = IF m.kind \in {"event", "id"} THEN m.id ELSE lastId[d]
        /\ base'[d] = IF m.kind = "reset" \/ (m.kind = "id" /\ lastId[d] = NoId) THEN m.id ELSE base[d]
        /\ applied'[d] = IF m.kind = "reset" THEN {}
                         ELSE IF m.kind = "event" THEN applied[d] \cup {m.id} ELSE applied[d]
        /\ \A c \in Clients \ {d} : /\ wire'[c] = wire[c] /\ lastId'[c] = lastId[c]
                                  /\ base'[c] = base[c] /\ applied'[c] = applied[c]
    BY <1>1, <1>3
  <1>7. m.id[1] \in Nat /\ m.id[2] \in Nat /\ m.id = <<m.id[1], m.id[2]>> /\ m.id # NoId
        /\ lastId[d][1] \in Nat /\ lastId[d][2] \in Nat /\ lastId[d] = <<lastId[d][1], lastId[d][2]>>
        /\ base[d][1] \in Nat /\ base[d][2] \in Nat
    BY <1>1, <1>4, IdFacts
  <1>8. TypeOK'
    <2>1. wire' \in [Clients -> Seq(Message)] /\ \A c \in Clients : Len(wire'[c]) <= MaxWire
      BY <1>1, <1>2, <1>3, <1>6, Bounds
    <2>2. /\ lastId' \in [Clients -> Id] /\ base' \in [Clients -> Id]
          /\ applied' \in [Clients -> SUBSET Id]
      BY <1>1, <1>3, <1>4
    <2> QED
      BY <1>3, <2>1, <2>2 DEF FeedInv, TypeOK
  <1>9. LogIsWhole'
    BY <1>3 DEF FeedInv, LogIsWhole
  <1>10. NoSilentGap'
    <2> SUFFICES ASSUME lastId'[d] # NoId
                 PROVE  \/ base'[d][1] > lastId'[d][1]
                        \/ /\ base'[d][1] = lastId'[d][1]
                           /\ \A n \in (base'[d][2] + 1)..lastId'[d][2] :
                                 <<lastId'[d][1], n>> \in applied'[d]
      BY <1>6 DEF FeedInv, NoSilentGap
    <2>1. lastId[d] # NoId =>
            \/ base[d][1] > lastId[d][1]
            \/ /\ base[d][1] = lastId[d][1]
               /\ \A n \in (base[d][2] + 1)..lastId[d][2] : <<lastId[d][1], n>> \in applied[d]
      BY DEF FeedInv, NoSilentGap
    <2>2. CASE m.kind = "event"
      <3>1. lastId[d] # NoId
        BY <2>2, <1>4, <1>5, <1>7 DEF NoId
      <3>2. lastId'[d] = m.id /\ base'[d] = base[d] /\ applied'[d] = applied[d] \cup {m.id}
        BY <2>2, <1>6
      <3>3. /\ m.id[1] = lastId[d][1] /\ m.id[2] = lastId[d][2] + 1
            /\ \A n \in (base[d][2] + 1)..m.id[2] :
                  n \in (base[d][2] + 1)..lastId[d][2] \/ <<m.id[1], n>> = m.id
        BY <2>2, <1>5, <1>7
      <3> QED
        BY <2>1, <3>1, <3>2, <3>3
    <2>3. CASE m.kind = "id"
      <3>1. CASE lastId[d] = NoId
        BY <2>3, <3>1, <1>6, <1>7
      <3>2. CASE lastId[d] # NoId /\ lastId[d] = m.id
        BY <2>1, <2>3, <3>2, <1>6
      <3>3. CASE lastId[d] # NoId /\ base[d] = m.id
        BY <2>3, <3>3, <1>6, <1>7
      <3> QED
        BY <2>3, <3>1, <3>2, <3>3, <1>5
    <2>4. CASE m.kind = "reset"
      <3>1. lastId'[d] = lastId[d] /\ base'[d] = m.id
        BY <2>4, <1>6
      <3>2. \/ m.id[1] > lastId[d][1]
            \/ m.id[1] = lastId[d][1] /\ m.id[2] > lastId[d][2]
        BY <2>4, <1>5, <1>7 DEF Before
      <3> QED
        BY <3>1, <3>2, <1>7
    <2>5. CASE m.kind \in {"fresh", "replayed"}
      BY <2>1, <2>5, <1>6
    <2> QED
      BY <2>2, <2>3, <2>4, <2>5, <1>2 DEF Message
  <1>11. ASSUME NEW i \in 1..left
         PROVE  /\ wire'[d][i] = wire[d][i + 1] /\ wire[d][i + 1].kind \in {"event", "id"}
                /\ Follows(d, i + 1) /\ wire'[d][i].id = wire[d][i + 1].id
    <2>1. /\ i + 1 \in DOMAIN wire[d] /\ i + 1 # 1 /\ wire[d][i + 1] \in Message
          /\ wire'[d][i] = wire[d][i + 1] /\ Follows(d, i + 1)
      BY <1>1, <1>2, <1>6 DEF FeedInv, WireFollows
    <2> QED
      BY <2>1 DEF Follows, Message
  <1>12. ASSUME NEW i \in 0..left
         PROVE  Reached(d, i)' = Reached(d, i + 1)
    <2>1. CASE i = 0
      BY <2>1, <1>6 DEF Reached, m
    <2>2. CASE i > 0
      <3>1. i \in 1..left
        BY <2>2, <1>2
      <3> QED
        BY <2>2, <3>1, <1>11 DEF Reached
    <2> QED
      BY <2>1, <2>2, <1>2
  <1>13. WireFollows'
    <2>1. ASSUME NEW i \in 1..left PROVE Follows(d, i)'
      <3> DEFINE x == wire[d][i + 1]
                 at == Reached(d, i)
      <3>1. wire'[d][i] = x /\ x.kind \in {"event", "id"}
        BY <1>11
      <3>2. Reached(d, i - 1)' = at
        <4>1. i - 1 \in 0..left /\ (i - 1) + 1 = i
          BY <1>2
        <4>2. Reached(d, i - 1)' = Reached(d, (i - 1) + 1)
          BY <4>1, <1>12
        <4> QED
          BY <4>1, <4>2
      <3>3. (i + 1) - 1 = i /\ Follows(d, i + 1)
        <4>1. Follows(d, i + 1)
          BY <1>11
        <4>2. (i + 1) - 1 = i
          BY <1>2
        <4> QED
          BY <4>1, <4>2
      <3>4. CASE x.kind = "event"
        <4>1. at[1] = x.id[1] /\ at[2] + 1 = x.id[2]
          BY <3>3, <3>4 DEF Follows
        <4> QED
          BY <3>1, <3>2, <3>4, <4>1 DEF Follows
      <3>5. CASE x.kind = "id"
        <4>1. \/ at = x.id \/ at = NoId
              \/ Before(at, x.id) /\ i + 1 = 2 /\ m.kind = "reset" /\ m.id = x.id
          BY <3>3, <3>5, <1>2 DEF Follows, m
        <4>2. m.kind = "reset" => base'[d] = m.id
          BY <1>6
        <4>3. i + 1 = 2 => i = 1
          BY <1>2
        <4> HIDE DEF at, x
        <4> QED
          BY <3>1, <3>2, <3>5, <4>1, <4>2, <4>3 DEF Follows
      <3> QED
        BY <3>1, <3>4, <3>5
    <2>2. ASSUME NEW c \in Clients, NEW i \in DOMAIN wire'[c] PROVE Follows(c, i)'
      BY <2>1, <1>2, <1>6, SameClient
    <2> QED
      BY <2>2 DEF WireFollows
  <1>14. LogIsAhead'
    <2>1. ASSUME NEW c \in Clients
          PROVE  /\ Past(lastId[c])'
                 /\ \A i \in DOMAIN wire'[c] : wire'[c][i].id[1] > 0 /\ Past(wire[c][i].id)'
      <3>1. CASE c = d
        <4>1. Past(lastId[d])'
          BY <1>3, <1>4, <1>6 DEF FeedInv, LogIsAhead, Past
        <4>2. ASSUME NEW i \in 1..left
              PROVE  wire'[d][i].id[1] > 0 /\ Past(wire[d][i].id)'
          <5>1. i + 1 \in DOMAIN wire[d]
            BY <1>2
          <5>2. wire[d][i + 1].id[1] > 0 /\ Past(wire[d][i + 1].id)
            BY <5>1 DEF FeedInv, LogIsAhead
          <5> QED
            BY <5>2, <1>3, <1>11 DEF Past
        <4> QED
          BY <3>1, <4>1, <4>2, <1>2, <1>6
      <3>2. CASE c # d
        BY <3>2, <1>3, <1>6 DEF FeedInv, LogIsAhead, Past
      <3> QED
        BY <3>1, <3>2
    <2>2. ASSUME NEW c \in online'
          PROVE  /\ Reached(c, Len(wire[c]))' = <<epoch', sequence'>>
                 /\ wire'[c] # <<>> => wire'[c][Len(wire'[c])].kind \in {"event", "id"}
      <3>1. c \in online /\ c \in Clients
        BY <1>1, <1>3
      <3>2. CASE c = d
        <4>1. Len(wire'[d]) = left /\ Reached(d, left + 1) = <<epoch, sequence>>
          BY <3>1, <3>2, <1>2, <1>6 DEF FeedInv, LogIsAhead
        <4>2. left \in Nat /\ (left = 0 \/ left > 0) /\ (left > 0 => left \in 1..left) /\ (left = 0 => wire'[d] = <<>>)
          <5>1. wire'[d] \in Seq(Message) /\ Len(wire'[d]) = left /\ left \in Nat
            BY <1>2, <1>6
          <5> HIDE DEF left
          <5> QED
            BY <5>1
        <4>3. /\ Reached(d, Len(wire[d]))' = Reached(d, left + 1)
              /\ left > 0 => wire'[d][left].kind \in {"event", "id"}
          <5>1. left > 0 => /\ wire'[d][left] = wire[d][left + 1]
                            /\ wire[d][left + 1].kind \in {"event", "id"}
            BY <4>2, <1>11
          <5>2. CASE left = 0
            BY <5>2, <4>1, <1>6 DEF Reached, m
          <5>3. CASE left > 0
            BY <5>1, <5>3, <4>1, <1>2 DEF Reached
          <5> QED
            BY <4>2, <5>1, <5>2, <5>3
        <4> QED
          BY <3>2, <4>1, <4>2, <4>3, <1>2, <1>3
      <3>3. CASE c # d
        BY <3>1, <3>3, <1>3, <1>6 DEF FeedInv, LogIsAhead, Reached
      <3> QED
        BY <3>2, <3>3
    <2> QED
      BY <2>1, <2>2 DEF LogIsAhead
  <1> QED
    BY <1>8, <1>9, <1>10, <1>13, <1>14 DEF FeedInv

---------------------------------------------------------------------------
(* The theorems *)

LEMMA InitInv == Init => FeedInv
  <1> SUFFICES ASSUME Init PROVE FeedInv
    OBVIOUS
  <1>1. <<>> \in Seq(1..MaxEvents) /\ <<>> \in Seq(Message) /\ Len(<<>>) = 0 /\ DOMAIN <<>> = {}
    OBVIOUS
  <1>2. 1 \in 1..MaxEpochs /\ NoId \in Id
    BY StreamAssumption DEF Id
  <1>3. TypeOK
    BY <1>1, <1>2, Bounds DEF Init, TypeOK
  <1>4. LogIsWhole
    <2>1. <<>> = [i \in 1..(0 - 0) |-> 0 + i]
      BY EmptyLog
    <2> QED
      BY <2>1 DEF Init, LogIsWhole
  <1>5. NoSilentGap /\ WireFollows /\ LogIsAhead
    BY <1>1 DEF Init, NoSilentGap, WireFollows, LogIsAhead, Past, NoId
  <1> QED
    BY <1>3, <1>4, <1>5 DEF FeedInv

LEMMA NextKeeps == ASSUME FeedInv, [Next]_vars PROVE FeedInv'
  <1>1. CASE UNCHANGED vars
    <2>1. \A c \in Clients : \A i \in DOMAIN wire'[c] : Follows(c, i)'
      BY <1>1, SameClient DEF vars, browserVars
    <2> QED
      BY <1>1, <2>1 DEF FeedInv, TypeOK, NoSilentGap, LogIsWhole, WireFollows, LogIsAhead, Reached,
             Past, vars, logVars, browserVars
  <1>2. CASE Next
    <2>1. ASSUME NEW k \in 0..(MaxFrames + 1), NEW c \in Clients, Connect(c, k) PROVE FeedInv'
      BY <2>1, ConnectKeeps
    <2> QED
      BY <1>2, <2>1, EmitKeeps, EmitOversizeKeeps, RestartKeeps, DisconnectKeeps, ReloadKeeps,
         ReceiveKeeps DEF Next
  <1> QED
    BY <1>1, <1>2

\* A browser never misses an event without knowing, across reconnections, resets,
\* cut-off sockets and epochs, whatever the size of the log.
THEOREM NoGapGoesUnnoticed == Spec => []FeedInv
  <1>1. Init => FeedInv
    BY InitInv
  <1>2. FeedInv /\ [Next]_vars => FeedInv'
    BY NextKeeps
  <1> QED
    BY <1>1, <1>2, PTL DEF Spec

\* The first message on a wire, and what reading it does.
LEMMA NextMessage ==
  ASSUME FeedInv, NEW c \in Clients, wire[c] # <<>>
  PROVE  /\ Head(wire[c]) = wire[c][1]
         /\ Head(wire[c]).kind = "event" => Before(lastId[c], Head(wire[c]).id)
         /\ Head(wire[c]).kind = "id" /\ Head(wire[c]).id # lastId[c]
               => Before(lastId[c], Head(wire[c]).id)
  <1>1. /\ wire[c] \in Seq(Message) /\ lastId[c] \in Id
    BY DEF FeedInv, TypeOK
  <1>2. /\ Head(wire[c]) = wire[c][1] /\ 1 \in DOMAIN wire[c] /\ wire[c][1] \in Message
    BY <1>1, TailFacts
  <1>3. /\ Follows(c, 1) /\ Reached(c, 0) = lastId[c] /\ wire[c][1].id[1] > 0
        /\ wire[c][1].id \in Id
    BY <1>2 DEF FeedInv, WireFollows, LogIsAhead, Reached, Message
  <1>4. /\ wire[c][1].id[1] \in Nat /\ wire[c][1].id[2] \in Nat
        /\ lastId[c][1] \in Nat /\ lastId[c][2] \in Nat
    BY <1>1, <1>3, IdFacts
  <1> QED
    BY <1>2, <1>3, <1>4 DEF Follows, Before, NoId

\* No event is handled twice or out of order, across reconnections and epochs.
THEOREM EventsOnlyMoveOn == Spec => FeedMovesOn
  <1>1. ASSUME FeedInv, Next, NEW c \in Clients
        PROVE  /\ lastId'[c] \notin {lastId[c], NoId} => Before(lastId[c], lastId'[c])
               /\ wire[c] # <<>> /\ wire'[c] = Tail(wire[c]) /\ Head(wire[c]).kind = "event"
                     => Before(lastId[c], Head(wire[c]).id)
    <2>1. lastId \in [Clients -> Id]
      BY <1>1 DEF FeedInv, TypeOK
    <2>2. ASSUME NEW d \in Clients, Receive(d), lastId'[c] # lastId[c]
          PROVE  Before(lastId[c], lastId'[c])
      <3>1. /\ c = d /\ wire[c] # <<>> /\ Head(wire[c]).kind \in {"event", "id"}
            /\ lastId'[c] = Head(wire[c]).id
        BY <2>1, <2>2 DEF Receive
      <3> QED
        BY <3>1, <1>1, <2>2, NextMessage
    <2>3. \/ lastId'[c] \in {lastId[c], NoId}
          \/ \E d \in Clients : Receive(d)
      BY <1>1, <2>1 DEF Next, Emit, Connect, EmitOversize, Restart, Disconnect, Reload, browserVars
    <2> QED
      BY <1>1, <2>2, <2>3, NextMessage
  <1>2. FeedInv /\ [Next]_vars =>
          [\A c \in Clients :
              /\ lastId'[c] \notin {lastId[c], NoId} => Before(lastId[c], lastId'[c])
              /\ wire[c] # <<>> /\ wire'[c] = Tail(wire[c]) /\ Head(wire[c]).kind = "event"
                    => Before(lastId[c], Head(wire[c]).id)]_vars
    BY <1>1
  <1> QED
    BY <1>2, NoGapGoesUnnoticed, PTL DEF Spec, FeedMovesOn
=============================================================================
