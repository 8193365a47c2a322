--------------------------- MODULE SessionProofs ---------------------------
(***************************************************************************)
(* The safety of SessionScan for every set of files and sessions and every *)
(* number of scans in flight: the gates of JSONL files, and the end of     *)
(* monitoring; and that of TaskHydrator for every set of pages, tasks and  *)
(* members, and every limit.                                               *)
(***************************************************************************)
EXTENDS SessionScan, TaskHydrator, FiniteSetTheorems, TLAPS

---------------------------------------------------------------------------
(* The operators *)

LEMMA IdleFacts ==
    /\ Idle \in Scan /\ Idle.pc = "idle" /\ Idle.via = "none" /\ ~Idle.owed
    /\ Idle.waited = FALSE /\ Idle.lost = FALSE
    /\ Idle.seen = Nothing /\ Nothing \in [Sessions -> Nat] /\ \A x \in Sessions : Nothing[x] = 0
  BY DEF Idle, Scan, Nothing

\* The caller of a task that has settled, or was given up, reads nothing more.
LEMMA ReturnedFacts ==
  ASSUME NEW s \in Scan
  PROVE  /\ Returned(s) \in Scan /\ Returned(s).pc \in {"team", "done"}
         /\ Returned(s).via = s.via /\ Returned(s).file = s.file /\ Returned(s).seen = Nothing
         /\ Returned(s).waited = TRUE /\ Returned(s).lost = s.lost
         /\ Returned(s).owed = FALSE
  <1>1. After(s.file) \in {"team", "done"}
    BY DEF After
  <1> QED
    BY <1>1, IdleFacts DEF Returned, Idle, Scan

LEMMA SettledFacts ==
  ASSUME NEW s \in Scan
  PROVE  /\ Settled(s) \in Scan /\ Settled(s).seen = Nothing
         /\ s.waited => Settled(s) = Returned(s)
         /\ ~s.waited => Settled(s) = Idle
  BY ReturnedFacts, IdleFacts DEF Settled

\* A scan begins with the fingerprint the file has now, or has nothing to read.
LEMMA GatedFacts ==
  ASSUME NEW f \in Files, NEW via \in {"watch", "drain", "post", "detail"},
         NEW force \in BOOLEAN, clock[f] \in Nat
  PROVE  /\ Gated(f, via, force) \in Scan
         /\ Gated(f, via, force).pc \in {"gated", "team", "done"}
         /\ Gated(f, via, force).via = via /\ Gated(f, via, force).file = f
         /\ Gated(f, via, force).seen = Nothing
         /\ Gated(f, via, force).pc = "gated" => Gated(f, via, force).fp = clock[f]
         /\ Gated(f, via, force).waited
  <1> DEFINE s == [Idle EXCEPT !.via = via, !.file = f, !.fp = clock[f], !.waited = TRUE]
             open == [s EXCEPT !.pc = "gated"]
  <1>1. /\ s \in Scan /\ s.via = via /\ s.file = f
        /\ open \in Scan /\ open.pc = "gated" /\ open.via = via /\ open.seen = Nothing
        /\ open.file = f /\ open.fp = clock[f] /\ open.waited = TRUE
    BY IdleFacts DEF Idle, Scan
  <1>2. Gated(f, via, force) = Returned(s) \/ Gated(f, via, force) = open
    BY DEF Gated
  <1> HIDE DEF s, open
  <1>3. CASE Gated(f, via, force) = Returned(s)
    <2>1. Returned(s).pc # "gated"
      BY <1>1, ReturnedFacts
    <2> QED
      BY <2>1, <1>1, <1>3, ReturnedFacts
  <1>4. CASE Gated(f, via, force) = open
    BY <1>1, <1>4
  <1> QED
    BY <1>2, <1>3, <1>4

\* Adding keeps a list of files without repetition.
LEMMA AddFacts ==
  ASSUME NEW seq \in Seq(Files), NEW f \in Files,
         \A i, j \in DOMAIN seq : seq[i] = seq[j] => i = j
  PROVE  /\ Add(seq, f) \in Seq(Files)
         /\ \A i, j \in DOMAIN Add(seq, f) : Add(seq, f)[i] = Add(seq, f)[j] => i = j
  <1>1. CASE \E i \in DOMAIN seq : seq[i] = f
    BY <1>1 DEF Add
  <1>2. CASE ~\E i \in DOMAIN seq : seq[i] = f
    BY <1>2 DEF Add
  <1> QED
    BY <1>1, <1>2

LEMMA TailFacts ==
  ASSUME NEW seq \in Seq(Files), seq # <<>>,
         \A i, j \in DOMAIN seq : seq[i] = seq[j] => i = j
  PROVE  /\ Head(seq) \in Files /\ Tail(seq) \in Seq(Files)
         /\ \A i, j \in DOMAIN Tail(seq) : Tail(seq)[i] = Tail(seq)[j] => i = j
  <1>1. Len(seq) > 0 /\ Head(seq) = seq[1] /\ Tail(seq) \in Seq(Files)
    OBVIOUS
  <1>2. DOMAIN Tail(seq) = 1..(Len(seq) - 1) /\ \A i \in DOMAIN Tail(seq) : Tail(seq)[i] = seq[i + 1]
    OBVIOUS
  <1>3. ASSUME NEW i \in DOMAIN Tail(seq), NEW j \in DOMAIN Tail(seq), Tail(seq)[i] = Tail(seq)[j]
        PROVE  i = j
    BY <1>1, <1>2, <1>3
  <1> QED
    BY <1>1, <1>3

\* No more providers wait than there are.
LEMMA WaitingFits ==
  ASSUME NEW seq \in Seq(Files), \A i, j \in DOMAIN seq : seq[i] = seq[j] => i = j
  PROVE  Len(seq) <= Cardinality(Files)
  <1>1. seq \in Injection(1..Len(seq), Files)
    BY DEF Injection, IsInjective
  <1>2. Cardinality(1..Len(seq)) <= Cardinality(Files)
    BY <1>1, FS_Injection, ScanAssumption
  <1>3. Len(seq) \in Nat /\ Cardinality(1..Len(seq)) = IF 1 > Len(seq) THEN 0 ELSE Len(seq) - 1 + 1
    BY FS_Interval
  <1> QED
    BY <1>2, <1>3

\* A gate over a session that is loaded, and no other, is never over one that is not.
LEMMA OpenGate ==
  ASSUME TypeOK, SourceIsCurrent, GateHasRow
  PROVE  IndexedIsOpen
  <1> SUFFICES ASSUME NEW f \in Jsonl, NEW x \in In(f), rows[x] = Indexed
               PROVE  gate[f].fp # clock[f]
    BY DEF IndexedIsOpen
  <1>1. gate[f] = NoGate
    BY DEF GateHasRow, Indexed
  <1>2. clock[f] > 0
    BY DEF SourceIsCurrent, Files
  <1> QED
    BY <1>1, <1>2 DEF NoGate

---------------------------------------------------------------------------
(* The steps, one lemma per action, one step per part of the invariant *)

LEMMA WriteKeeps == ASSUME ScanCore, NEW f \in Files, Write(f) PROVE ScanCore'
  <1> USE ScanAssumption
  <1>0. PICK x \in In(f), v \in IF f \in Jsonl THEN {clock[f] + 1} ELSE {0, clock[f] + 1} :
            source' = [source EXCEPT ![x] = v]
    BY DEF Write
  <1>a. /\ x \in Sessions /\ FileOf[x] = f /\ clock[f] \in Nat /\ v \in Nat /\ v <= clock[f] + 1
        /\ f \in Jsonl => v = clock[f] + 1
    BY DEF ScanCore, TypeOK, In
  <1>b. /\ clock' = [clock EXCEPT ![f] = @ + 1] /\ clock[f] <= Writes[f] /\ rows' = rows
        /\ \A g \in Files : clock'[g] \in Nat /\ clock[g] <= clock'[g]
    BY DEF Write, stored, ScanCore, TypeOK
  <1>c. clock' \in [Files -> Nat] /\ \A g \in Files : clock'[g] <= Writes[g] + 1
    BY <1>b DEF ScanCore, TypeOK
  <1>d. source' \in [Sessions -> Nat] /\ \A y \in Sessions : source'[y] <= clock'[FileOf[y]]
    BY <1>0, <1>a, <1>b DEF ScanCore, TypeOK
  <1>e. \A y \in Sessions : rows[y] <= clock'[FileOf[y]]
    <2> TAKE y \in Sessions
    <2>1. /\ rows[y] \in Int /\ rows[y] <= clock[FileOf[y]]
          /\ FileOf[y] \in Files /\ clock[FileOf[y]] \in Nat
      BY DEF ScanCore, TypeOK, NoRow
    <2> QED
      BY <2>1, <1>b
  <1>1. TypeOK'
    BY <1>b, <1>c, <1>d, <1>e DEF ScanCore, TypeOK, Write, stored, server
  <1>2. SourceIsCurrent'
    <2>1. ASSUME NEW g \in Jsonl, NEW y \in In(g) PROVE source'[y] = clock'[g]
      <3>1. y \in Sessions /\ FileOf[y] = g /\ source[y] = clock[g] /\ g \in Files
        BY DEF In, ScanCore, SourceIsCurrent, Files
      <3>2. CASE g = f
        <4>1. y = x
          BY <3>1, <3>2, <1>a DEF In
        <4> QED
          BY <4>1, <3>2, <1>0, <1>a, <1>b DEF ScanCore, TypeOK
      <3>3. CASE g # f
        BY <3>1, <3>3, <1>0, <1>a, <1>b DEF ScanCore, TypeOK
      <3> QED
        BY <3>2, <3>3
    <2>2. \A g \in Files : clock'[g] > 0
      BY <1>b DEF ScanCore, TypeOK, SourceIsCurrent
    <2> QED
      BY <2>1, <2>2 DEF SourceIsCurrent, In
  <1>3. ReadsAreSound'
    BY DEF ScanCore, TypeOK, ReadsAreSound, ReadIsSound, Write, Scan
  <1>4. GateHasRow'
    BY DEF ScanCore, GateHasRow, Write, stored
  <1>5. WaitingIsOpen'
    BY DEF ScanCore, WaitingIsOpen, Write, server
  <1>6. TasksAreAwaited'
    BY DEF ScanCore, TasksAreAwaited, Quiet, Write, server
  <1>7. IndexedIsOpen'
    BY <1>1, <1>2, <1>4, OpenGate, PTL
  <1>8. FlagIsHeld'
    BY DEF ScanCore, FlagIsHeld, Write, server
  <1> QED
    BY <1>1, <1>2, <1>3, <1>4, <1>5, <1>6, <1>7, <1>8 DEF ScanCore

\* A step of one worker.
LEMMA OneWorker ==
  ASSUME ScanCore, NEW w \in Workers, UNCHANGED <<clock, mon>>,
         work' \in [Workers -> Scan], \A u \in Workers \ {w} : work'[u] = work[u],
         ReadIsSound(work'[w]), Quiet(work'[w])
  PROVE  ReadsAreSound' /\ TasksAreAwaited'
  <1>1. ASSUME NEW u \in Workers PROVE ReadIsSound(work[u])' /\ Quiet(work[u])'
    <2>1. ReadIsSound(work'[u]) /\ Quiet(work'[u])
      BY DEF ScanCore, ReadsAreSound, TasksAreAwaited
    <2> QED
      BY <2>1 DEF ReadIsSound, Quiet
  <1> QED
    BY <1>1 DEF ReadsAreSound, TasksAreAwaited

\* Nothing that reads no longer, or not yet, contradicts the invariant.
LEMMA RestIsSound ==
  ASSUME TypeOK, NEW s \in Scan, s.seen = Nothing,
         s.pc \in {"team", "done"} \/ (s.pc \in {"idle", "body"} /\ s.via \in {"none", "post"})
  PROVE  ReadIsSound(s)
  <1>1. \A x \in Sessions : s.seen[x] = 0 /\ clock[FileOf[x]] \in Nat
    BY IdleFacts, ScanAssumption DEF TypeOK
  <1> QED
    BY <1>1 DEF ReadIsSound

LEMMA SettledIsSound ==
  ASSUME ScanCore, NEW w \in Workers,
         work[w].pc \in {"gated", "read", "reading"}
  PROVE  ReadIsSound(Settled(work[w])) /\ Quiet(Settled(work[w])) /\ Settled(work[w]) \in Scan
  <1>1. work[w] \in Scan /\ TypeOK /\ Quiet(work[w])
    BY DEF ScanCore, TypeOK, TasksAreAwaited
  <1>2. /\ work[w].waited \in BOOLEAN /\ work[w].lost \in BOOLEAN
        /\ work[w].file \in Files \cup {NoFile}
        /\ work[w].via \in {"none", "watch", "drain", "post", "detail"}
    BY <1>1 DEF Scan
  <1>3. Settled(work[w]) \in Scan /\ Settled(work[w]).seen = Nothing
    BY <1>1, SettledFacts
  <1>4. CASE ~work[w].waited
    <2>1. Settled(work[w]) = Idle
      BY <1>1, <1>4, SettledFacts
    <2> QED
      BY <2>1, <1>1, <1>3, RestIsSound, IdleFacts DEF Quiet
  <1>5. CASE work[w].waited
    <2>1. Settled(work[w]) = Returned(work[w])
      BY <1>1, <1>5, SettledFacts
    <2>2. /\ Settled(work[w]).pc \in {"team", "done"} /\ Settled(work[w]).via = work[w].via
          /\ Settled(work[w]).waited = TRUE /\ Settled(work[w]).lost = work[w].lost
      BY <2>1, <1>1, ReturnedFacts
    <2>3. mon \in {"settling", "idle"} /\ work[w].via \in {"watch", "drain"} => work[w].lost
      BY <1>1, <1>5 DEF Quiet
    <2>4. ReadIsSound(Settled(work[w]))
      BY <2>2, <1>1, <1>3, RestIsSound
    <2>5. Quiet(Settled(work[w]))
      BY <2>2, <2>3 DEF Quiet
    <2> QED
      BY <2>4, <2>5, <1>3
  <1> QED
    BY <1>4, <1>5

LEMMA GatedIsSound ==
  ASSUME ScanCore, NEW f \in Files, NEW via \in {"watch", "drain", "post"}, NEW force \in BOOLEAN,
         mon = "running" \/ via = "post"
  PROVE  /\ ReadIsSound(Gated(f, via, force)) /\ Quiet(Gated(f, via, force))
         /\ Gated(f, via, force) \in Scan
  <1>1. clock[f] \in Nat /\ clock[f] > 0
    BY DEF ScanCore, TypeOK, SourceIsCurrent
  <1>2. \A x \in Sessions : Nothing[x] <= clock[FileOf[x]]
    BY IdleFacts, ScanAssumption DEF ScanCore, TypeOK
  <1>3. /\ Gated(f, via, force) \in Scan /\ Gated(f, via, force).pc \in {"gated", "team", "done"}
        /\ Gated(f, via, force).via = via /\ Gated(f, via, force).seen = Nothing
        /\ Gated(f, via, force).pc = "gated" =>
              Gated(f, via, force).file = f /\ Gated(f, via, force).fp = clock[f]
        /\ Gated(f, via, force).waited
    BY <1>1, GatedFacts
  <1> QED
    BY <1>1, <1>2, <1>3 DEF ReadIsSound, Quiet

\* A step that changes a worker, the flag and the history, and nothing else.
LEMMA WorkKeeps ==
  ASSUME ScanCore, NEW w \in Workers, NEW s \in Scan, ReadIsSound(s), Quiet(s),
         work' = [work EXCEPT ![w] = s],
         UNCHANGED <<sources, stored, watcher, waiting, mon>>,
         flag' \in BOOLEAN, flag => flag', s.waited => flag' \/ s.lost, unseen' \subseteq unseen
  PROVE  ScanCore'
  <1>1. /\ UNCHANGED <<clock, source, rows, gate, due, active, queued, waiting, mon>>
        /\ unseen' \subseteq Files
    BY DEF sources, stored, watcher, ScanCore, TypeOK
  <1>2. work' \in [Workers -> Scan] /\ work'[w] = s /\ \A u \in Workers \ {w} : work'[u] = work[u]
    BY DEF ScanCore, TypeOK
  <1>3. ReadsAreSound' /\ TasksAreAwaited'
    BY <1>1, <1>2, OneWorker
  <1>4. TypeOK' /\ SourceIsCurrent' /\ GateHasRow' /\ WaitingIsOpen' /\ IndexedIsOpen'
    BY <1>1, <1>2 DEF ScanCore, TypeOK, SourceIsCurrent, GateHasRow, WaitingIsOpen, IndexedIsOpen
  <1>5. FlagIsHeld'
    BY <1>2 DEF ScanCore, FlagIsHeld
  <1> QED
    BY <1>3, <1>4, <1>5 DEF ScanCore

LEMMA FireKeeps == ASSUME ScanCore, NEW f \in Files, Fire(f) PROVE ScanCore'
  <1> USE ScanAssumption
  <1>0. /\ UNCHANGED <<clock, source, rows, gate, mon>> /\ mon = "running"
        /\ due' \subseteq Files
    BY DEF Fire, ScanCore, TypeOK, sources, stored
  <1>1. /\ active' \subseteq Files /\ queued' \subseteq Files /\ flag' \in BOOLEAN
        /\ unseen' \subseteq Files
    BY DEF Fire, ScanCore, TypeOK, Begin
  <1>2. /\ waiting' \in Seq(Files)
        /\ \A i, j \in DOMAIN waiting' : waiting'[i] = waiting'[j] => i = j
    <2>1. waiting' \in {waiting, Add(waiting, f)}
      BY DEF Fire
    <2>2. /\ waiting \in Seq(Files)
          /\ \A i, j \in DOMAIN waiting : waiting[i] = waiting[j] => i = j
      BY DEF ScanCore, TypeOK, WaitingIsOpen
    <2>3. /\ Add(waiting, f) \in Seq(Files)
          /\ \A i, j \in DOMAIN Add(waiting, f) :
                Add(waiting, f)[i] = Add(waiting, f)[j] => i = j
      BY <2>2, AddFacts
    <2> QED
      BY <2>1, <2>2, <2>3
  <1>3. \/ work' = work /\ flag' = flag
        \/ flag' = TRUE /\ \E w \in Workers : work' = [work EXCEPT ![w] = Gated(f, "watch", FALSE)]
    BY DEF Fire, Begin
  <1>4. work' \in [Workers -> Scan] /\ ReadsAreSound' /\ TasksAreAwaited'
    <2>1. CASE work' = work
      BY <2>1, <1>0 DEF ScanCore, TypeOK, ReadsAreSound, ReadIsSound, TasksAreAwaited, Quiet
    <2>2. ASSUME NEW w \in Workers, work' = [work EXCEPT ![w] = Gated(f, "watch", FALSE)]
          PROVE  work' \in [Workers -> Scan] /\ ReadsAreSound' /\ TasksAreAwaited'
      <3>1. /\ ReadIsSound(Gated(f, "watch", FALSE)) /\ Quiet(Gated(f, "watch", FALSE))
            /\ Gated(f, "watch", FALSE) \in Scan
        BY <1>0, GatedIsSound
      <3>2. work \in [Workers -> Scan]
        BY DEF ScanCore, TypeOK
      <3> QED
        BY <3>1, <3>2, <2>2, <1>0, OneWorker
    <2> QED
      BY <2>1, <2>2, <1>3
  <1>5. WaitingIsOpen' /\ Len(waiting') <= Cardinality(Files)
    BY <1>0, <1>2, WaitingFits DEF WaitingIsOpen
  <1>6. TypeOK'
    BY <1>0, <1>1, <1>2, <1>4, <1>5 DEF ScanCore, TypeOK
  <1>7. SourceIsCurrent' /\ GateHasRow'
    BY <1>0 DEF ScanCore, SourceIsCurrent, GateHasRow
  <1>8. IndexedIsOpen'
    BY <1>6, <1>7, OpenGate, PTL
  <1>9. FlagIsHeld'
    <2>1. CASE work' = work /\ flag' = flag
      BY <2>1 DEF ScanCore, FlagIsHeld
    <2>2. CASE flag' = TRUE
      BY <2>2 DEF FlagIsHeld
    <2> QED
      BY <2>1, <2>2, <1>3
  <1> QED
    BY <1>4, <1>5, <1>6, <1>7, <1>8, <1>9 DEF ScanCore

LEMMA PostKeeps == ASSUME ScanCore, NEW w \in Workers, Post(w) PROVE ScanCore'
  <1>1. /\ UNCHANGED <<sources, stored, watcher, server, unseen>>
        /\ work' = [work EXCEPT ![w] = [Idle EXCEPT !.pc = "body", !.via = "post"]]
    BY DEF Post
  <1>2. [Idle EXCEPT !.pc = "body", !.via = "post"] \in Scan
    BY IdleFacts DEF Scan
  <1>5. ~[Idle EXCEPT !.pc = "body", !.via = "post"].waited
    BY IdleFacts DEF Idle
  <1>3. /\ ReadIsSound([Idle EXCEPT !.pc = "body", !.via = "post"])
        /\ Quiet([Idle EXCEPT !.pc = "body", !.via = "post"])
    BY <1>2, RestIsSound, IdleFacts DEF ScanCore, Quiet, Idle
  <1>4. flag' \in BOOLEAN /\ flag' = flag /\ unseen' \subseteq unseen /\ UNCHANGED <<waiting, mon>>
    BY <1>1 DEF server, ScanCore, TypeOK
  <1> QED
    BY <1>1, <1>2, <1>3, <1>4, <1>5, WorkKeeps

LEMMA PostRejectedKeeps == ASSUME ScanCore, NEW w \in Workers, PostRejected(w) PROVE ScanCore'
  <1>1. /\ UNCHANGED <<sources, stored, watcher, server, unseen>>
        /\ work' = [work EXCEPT ![w] = Idle]
    BY DEF PostRejected
  <1>2. ReadIsSound(Idle) /\ Quiet(Idle) /\ Idle \in Scan
    BY RestIsSound, IdleFacts DEF ScanCore, Quiet
  <1>3. flag' \in BOOLEAN /\ flag' = flag /\ unseen' \subseteq unseen /\ UNCHANGED <<waiting, mon>>
    BY <1>1 DEF server, ScanCore, TypeOK
  <1> QED
    BY <1>1, <1>2, <1>3, IdleFacts, WorkKeeps

LEMMA PostBodyKeeps ==
  ASSUME ScanCore, NEW w \in Workers, NEW f \in Files, NEW force \in BOOLEAN, PostBody(w, f, force)
  PROVE  ScanCore'
  <1>1. /\ UNCHANGED <<sources, stored, watcher, waiting, mon>> /\ flag' = TRUE
        /\ unseen' = unseen \ {f} /\ work' = [work EXCEPT ![w] = Gated(f, "post", force)]
    BY DEF PostBody, Begin
  <1>2. /\ ReadIsSound(Gated(f, "post", force)) /\ Quiet(Gated(f, "post", force))
        /\ Gated(f, "post", force) \in Scan
    BY GatedIsSound
  <1> QED
    BY <1>1, <1>2, WorkKeeps

LEMMA DetailKeeps ==
  ASSUME ScanCore, NEW w \in Workers, NEW x \in Sessions, Detail(w, x)
  PROVE  ScanCore'
  <1> DEFINE f == FileOf[x]
             scan == Gated(f, "detail", f \in Sqlite)
             s == [scan EXCEPT !.key = x, !.waited = FALSE]
  <1>1. /\ UNCHANGED <<sources, stored, watcher, server, unseen>> /\ scan.pc = "gated"
        /\ work' = [work EXCEPT ![w] = s]
    BY DEF Detail
  <1>2. f \in Files /\ clock[f] \in Nat /\ clock[f] > 0 /\ (f \in Sqlite) \in BOOLEAN
    BY ScanAssumption DEF ScanCore, TypeOK, SourceIsCurrent
  <1> HIDE DEF f
  <1>3. /\ scan \in Scan /\ scan.via = "detail" /\ scan.file = f /\ scan.fp = clock[f]
        /\ scan.seen = Nothing
    <2> DEFINE r == [Idle EXCEPT !.via = "detail", !.file = f, !.fp = clock[f], !.waited = TRUE]
               open == [r EXCEPT !.pc = "gated"]
    <2>1. scan = Returned(r) \/ scan = open
      BY DEF Gated
    <2>2. /\ r \in Scan /\ open \in Scan /\ open.via = "detail" /\ open.file = f
          /\ open.fp = clock[f] /\ open.seen = Nothing
      BY <1>2, IdleFacts DEF Idle, Scan
    <2>3. Returned(r).pc # "gated"
      BY <2>2, ReturnedFacts
    <2> HIDE DEF r, open, scan
    <2> QED
      BY <2>1, <2>2, <2>3, <1>1
  <1>4. \A y \in Sessions : Nothing[y] <= clock[FileOf[y]]
    BY IdleFacts, ScanAssumption DEF ScanCore, TypeOK
  <1> HIDE DEF scan
  <1>5. /\ s \in Scan /\ s.pc = "gated" /\ s.via = "detail" /\ s.file = f /\ s.fp = clock[f]
        /\ s.seen = Nothing /\ s.key = x /\ s.waited = FALSE
    BY <1>1, <1>3 DEF Scan
  <1> HIDE DEF s
  <1>6. ReadIsSound(s) /\ Quiet(s)
    BY <1>2, <1>4, <1>5 DEF ReadIsSound, Quiet
  <1>7. flag' \in BOOLEAN /\ flag' = flag /\ unseen' \subseteq unseen /\ UNCHANGED <<waiting, mon>>
    BY <1>1 DEF server, ScanCore, TypeOK
  <1> QED
    BY <1>1, <1>5, <1>6, <1>7, WorkKeeps

---------------------------------------------------------------------------

LEMMA ReadKeeps == ASSUME ScanCore, NEW w \in Workers, Read(w) PROVE ScanCore'
  <1> DEFINE f == work[w].file
             read == [y \in Sessions |-> IF y \in In(f) THEN source[y] ELSE 0]
             s == [work[w] EXCEPT !.pc = IF f \in Jsonl THEN "reading" ELSE "read", !.seen = read]
  <1>1. /\ UNCHANGED <<sources, stored, watcher, server, unseen>> /\ work[w].pc = "gated"
        /\ work' = [work EXCEPT ![w] = s]
    BY DEF Read, ScanCore, TypeOK
  <1>2. work[w] \in Scan /\ ReadIsSound(work[w]) /\ Quiet(work[w])
    BY DEF ScanCore, TypeOK, ReadsAreSound, TasksAreAwaited
  <1>3. f \in Files /\ work[w].fp \in 1..clock[f] /\ clock[f] \in Nat
    BY <1>1, <1>2 DEF ReadIsSound, ScanCore, TypeOK
  <1>4. /\ read \in [Sessions -> Nat]
        /\ \A y \in Sessions : read[y] <= clock[FileOf[y]]
        /\ f \in Jsonl => \A y \in In(f) : read[y] = clock[f]
    BY ScanAssumption DEF ScanCore, TypeOK, SourceIsCurrent, In
  <1> HIDE DEF read
  <1>5. /\ s \in Scan /\ s.pc = IF f \in Jsonl THEN "reading" ELSE "read"
        /\ s.via = work[w].via /\ s.file = f /\ s.fp = work[w].fp /\ s.key = work[w].key
        /\ s.seen = read /\ s.waited = work[w].waited /\ s.lost = work[w].lost
    BY <1>2, <1>4 DEF Scan
  <1> HIDE DEF s, f
  <1>6. ReadIsSound(s) /\ Quiet(s)
    BY <1>1, <1>2, <1>3, <1>4, <1>5 DEF ReadIsSound, Quiet, Files
  <1>7. flag' \in BOOLEAN /\ flag' = flag /\ unseen' \subseteq unseen /\ UNCHANGED <<waiting, mon>>
    BY <1>1 DEF server, ScanCore, TypeOK
  <1>8. s.waited => flag' \/ s.lost
    BY <1>5, <1>7 DEF ScanCore, FlagIsHeld
  <1> QED
    BY <1>1, <1>5, <1>6, <1>7, <1>8, WorkKeeps

\* A scan that stores and ends.
LEMMA StoreKeeps ==
  ASSUME ScanCore, NEW w \in Workers, work[w].pc \in {"read", "reading"},
         work' = [work EXCEPT ![w] = Settled(work[w])],
         UNCHANGED <<sources, watcher, server, unseen>>,
         rows' \in [Sessions -> Nat \cup {NoRow}],
         \A x \in Sessions : rows'[x] <= clock[FileOf[x]],
         gate' \in [Files -> [fp : Nat, key : Sessions \cup {NoSession}]],
         GateHasRow'
  PROVE  ScanCore'
  <1>1. UNCHANGED <<clock, source, due, active, queued, flag, waiting, mon, unseen>>
    BY DEF sources, watcher, server
  <1>2. ReadIsSound(Settled(work[w])) /\ Quiet(Settled(work[w])) /\ Settled(work[w]) \in Scan
    BY SettledIsSound
  <1>3. /\ work' \in [Workers -> Scan] /\ work'[w] = Settled(work[w])
        /\ \A u \in Workers \ {w} : work'[u] = work[u]
    BY <1>2 DEF ScanCore, TypeOK
  <1>4. ReadsAreSound' /\ TasksAreAwaited'
    BY <1>1, <1>2, <1>3, OneWorker
  <1>5. TypeOK'
    BY <1>1, <1>3 DEF ScanCore, TypeOK
  <1>6. SourceIsCurrent' /\ WaitingIsOpen'
    BY <1>1 DEF ScanCore, SourceIsCurrent, WaitingIsOpen
  <1>7. IndexedIsOpen'
    BY <1>5, <1>6, OpenGate, PTL
  <1>8. FlagIsHeld'
    <2> SUFFICES ASSUME NEW u \in Workers, work'[u].waited PROVE flag' \/ work'[u].lost
      BY DEF FlagIsHeld
    <2>1. CASE u = w
      <3>1. work[w] \in Scan
        BY DEF ScanCore, TypeOK
      <3>2. work[w].waited
        BY <3>1, <2>1, <1>3, SettledFacts, IdleFacts
      <3>3. Settled(work[w]).lost = work[w].lost
        BY <3>1, <3>2, SettledFacts, ReturnedFacts
      <3>4. flag \/ work[w].lost
        BY <3>2 DEF ScanCore, FlagIsHeld
      <3> QED
        BY <3>3, <3>4, <2>1, <1>1, <1>3
    <2>2. CASE u # w
      BY <2>2, <1>1, <1>3 DEF ScanCore, FlagIsHeld
    <2> QED
      BY <2>1, <2>2
  <1> QED
    BY <1>4, <1>5, <1>6, <1>7, <1>8 DEF ScanCore

\* What a scan may store of a session: nothing newer than the file.
LEMMA SeenFits ==
  ASSUME ScanCore, NEW w \in Workers
  PROVE  /\ work[w].seen \in [Sessions -> Nat]
         /\ \A x \in Sessions : work[w].seen[x] <= clock[FileOf[x]]
         /\ \A x \in Sessions : rows[x] <= clock[FileOf[x]] /\ rows[x] \in Nat \cup {NoRow}
  BY DEF ScanCore, TypeOK, ReadsAreSound, ReadIsSound, Scan

LEMMA StoreJsonlKeeps == ASSUME ScanCore, NEW w \in Workers, StoreJsonl(w) PROVE ScanCore'
  <1> DEFINE s == work[w]
  <1>1. /\ s.pc = "reading" /\ work' = [work EXCEPT ![w] = Settled(s)]
        /\ UNCHANGED <<sources, watcher, server, unseen>>
    BY DEF StoreJsonl
  <1>2. /\ s \in Scan /\ s.file \in Jsonl /\ s.file \in Files /\ s.fp \in Nat /\ s.fp > 0
        /\ \A x \in In(s.file) : s.fp <= s.seen[x]
    BY <1>1 DEF ScanCore, TypeOK, ReadsAreSound, ReadIsSound, Scan
  <1>3. PICK x \in In(s.file) :
          \/ UNCHANGED <<rows, gate>>
          \/ /\ rows' = [rows EXCEPT ![x] = s.seen[x]]
             /\ \/ gate' = gate
                \/ gate' = [gate EXCEPT ![s.file] = [fp |-> s.fp, key |-> x]]
    BY DEF StoreJsonl
  <1>4. /\ x \in Sessions /\ FileOf[x] = s.file /\ s.seen[x] \in Nat /\ s.seen[x] > 0
        /\ \A y \in In(s.file) : y = x
    BY <1>2, SeenFits, ScanAssumption DEF In
  <1> HIDE DEF s
  <1>5. /\ rows' \in [Sessions -> Nat \cup {NoRow}]
        /\ \A y \in Sessions : rows'[y] <= clock[FileOf[y]]
    BY <1>3, <1>4, SeenFits DEF ScanCore, TypeOK, s
  <1>6. gate' \in [Files -> [fp : Nat, key : Sessions \cup {NoSession}]]
    <2>1. [fp |-> s.fp, key |-> x] \in [fp : Nat, key : Sessions \cup {NoSession}]
      BY <1>2, <1>4
    <2>2. gate \in [Files -> [fp : Nat, key : Sessions \cup {NoSession}]]
      BY DEF ScanCore, TypeOK
    <2> QED
      BY <2>1, <2>2, <1>2, <1>3
  <1>7. GateHasRow'
    <2>1. ASSUME NEW f \in Jsonl, NEW y \in In(f)
          PROVE  gate'[f] = NoGate \/ (gate'[f].key = y /\ rows'[y] > 0)
      <3>1. /\ gate[f] = NoGate \/ (gate[f].key = y /\ rows[y] > 0)
            /\ y \in Sessions /\ FileOf[y] = f /\ f \in Files
        BY DEF ScanCore, GateHasRow, In, Files
      <3>2. rows \in [Sessions -> Nat \cup {NoRow}] /\ DOMAIN gate = Files
        BY DEF ScanCore, TypeOK
      <3>3. CASE f = s.file
        BY <3>1, <3>2, <3>3, <1>3, <1>4
      <3>4. CASE f # s.file
        BY <3>1, <3>2, <3>4, <1>3, <1>4
      <3> QED
        BY <3>3, <3>4
    <2> QED
      BY <2>1 DEF GateHasRow, In
  <1> QED
    BY <1>1, <1>5, <1>6, <1>7, StoreKeeps DEF s

LEMMA StoreSqliteKeeps == ASSUME ScanCore, NEW w \in Workers, StoreSqlite(w) PROVE ScanCore'
  <1> DEFINE s == work[w]
             there == {x \in In(s.file) : s.seen[x] # 0}
  <1>1. /\ s.pc = "read" /\ work' = [work EXCEPT ![w] = Settled(s)]
        /\ UNCHANGED <<sources, watcher, server, unseen>>
    BY DEF StoreSqlite
  <1>2. s.file \in Sqlite /\ s.file \in Files /\ s.fp \in Nat
    BY <1>1 DEF ScanCore, TypeOK, ReadsAreSound, ReadIsSound, Scan
  <1>3. In(s.file) \subseteq Sessions
    BY DEF In
  <1>4. \E kept, removed \in SUBSET In(s.file) :
          /\ rows' = [x \in Sessions |-> IF x \in kept THEN s.seen[x]
                                         ELSE IF x \in removed THEN NoRow ELSE rows[x]]
          /\ \/ gate' = [f \in Files |-> IF gate[f].key \in removed THEN NoGate ELSE gate[f]]
             \/ \E x \in Sessions \cup {NoSession} :
                   gate' = [gate EXCEPT ![s.file] = [fp |-> s.fp, key |-> x]]
    <2>1. PICK kept \in SUBSET there, removed \in SUBSET {x \in In(s.file) : s.seen[x] = 0 /\ rows[x] # NoRow} :
            /\ rows' = [x \in Sessions |-> IF x \in kept THEN s.seen[x]
                                           ELSE IF x \in removed THEN NoRow ELSE rows[x]]
            /\ \/ gate' = [f \in Files |-> IF gate[f].key \in removed THEN NoGate ELSE gate[f]]
               \/ \E x \in IF there = {} THEN {NoSession} ELSE there :
                     gate' = [gate EXCEPT ![s.file] = [fp |-> s.fp, key |-> x]]
      BY DEF StoreSqlite
    <2>2. kept \in SUBSET In(s.file) /\ removed \in SUBSET In(s.file)
      BY <2>1
    <2>3. \A x \in IF there = {} THEN {NoSession} ELSE there : x \in Sessions \cup {NoSession}
      BY <1>3
    <2> HIDE DEF there, s
    <2> QED
      BY <2>1, <2>2, <2>3
  <1>p. PICK kept \in SUBSET In(s.file), removed \in SUBSET In(s.file) :
          /\ rows' = [x \in Sessions |-> IF x \in kept THEN s.seen[x]
                                         ELSE IF x \in removed THEN NoRow ELSE rows[x]]
          /\ \/ gate' = [f \in Files |-> IF gate[f].key \in removed THEN NoGate ELSE gate[f]]
             \/ \E x \in Sessions \cup {NoSession} :
                   gate' = [gate EXCEPT ![s.file] = [fp |-> s.fp, key |-> x]]
    BY <1>4
  <1>5. /\ s.seen \in [Sessions -> Nat]
        /\ \A x \in Sessions : /\ s.seen[x] <= clock[FileOf[x]] /\ rows[x] <= clock[FileOf[x]]
                               /\ rows[x] \in Nat \cup {NoRow} /\ clock[FileOf[x]] \in Nat
    BY SeenFits, ScanAssumption DEF ScanCore, TypeOK
  <1> HIDE DEF s, there
  <1>6. /\ rows' \in [Sessions -> Nat \cup {NoRow}]
        /\ \A x \in Sessions : rows'[x] <= clock[FileOf[x]]
    <2>1. rows' \in [Sessions -> Nat \cup {NoRow}]
      BY <1>p, <1>5
    <2>2. ASSUME NEW x \in Sessions PROVE rows'[x] <= clock[FileOf[x]]
      <3>1. rows'[x] \in {s.seen[x], rows[x], NoRow}
        BY <1>p
      <3> QED
        BY <3>1, <1>5 DEF NoRow
    <2> QED
      BY <2>1, <2>2
  <1>7. \A f \in Jsonl : \A x \in In(f) : rows'[x] = rows[x]
    <2> SUFFICES ASSUME NEW f \in Jsonl, NEW x \in In(f) PROVE rows'[x] = rows[x]
      OBVIOUS
    <2>1. x \in Sessions /\ x \notin In(s.file)
      BY <1>2, ScanAssumption DEF In
    <2> QED
      BY <2>1, <1>p
  <1>8. gate \in [Files -> [fp : Nat, key : Sessions \cup {NoSession}]]
    BY DEF ScanCore, TypeOK
  <1>9. /\ gate' \in [Files -> [fp : Nat, key : Sessions \cup {NoSession}]]
        /\ \A f \in Jsonl : gate'[f] = gate[f] \/ gate'[f] = NoGate
    <2>1. \A x \in Sessions \cup {NoSession} :
            [fp |-> s.fp, key |-> x] \in [fp : Nat, key : Sessions \cup {NoSession}]
      BY <1>2
    <2>2. Jsonl \subseteq Files /\ s.file \notin Jsonl
      BY <1>2, ScanAssumption DEF Files
    <2>3. NoGate \in [fp : Nat, key : Sessions \cup {NoSession}]
      BY DEF NoGate
    <2>4. CASE gate' = [f \in Files |-> IF gate[f].key \in removed THEN NoGate ELSE gate[f]]
      BY <2>2, <2>3, <2>4, <1>8
    <2>5. ASSUME NEW x \in Sessions \cup {NoSession},
                 gate' = [gate EXCEPT ![s.file] = [fp |-> s.fp, key |-> x]]
          PROVE  /\ gate' \in [Files -> [fp : Nat, key : Sessions \cup {NoSession}]]
                 /\ \A f \in Jsonl : gate'[f] = gate[f]
      BY <2>5, <2>1, <2>2, <1>8
    <2> QED
      BY <2>4, <2>5, <1>p
  <1>10. GateHasRow'
    BY <1>7, <1>9 DEF ScanCore, GateHasRow, In
  <1> QED
    BY <1>1, <1>6, <1>9, <1>10, StoreKeeps DEF s

LEMMA StoreSqliteDetailKeeps ==
  ASSUME ScanCore, NEW w \in Workers, StoreSqliteDetail(w) PROVE ScanCore'
  <1> DEFINE s == work[w]
  <1>1. /\ s.pc = "read" /\ s.via = "detail" /\ work' = [work EXCEPT ![w] = Settled(s)]
        /\ UNCHANGED <<sources, watcher, server, unseen>>
    BY DEF StoreSqliteDetail
  <1>2. /\ s.file \in Sqlite /\ s.file \in Files /\ s.key \in Sessions /\ clock[s.file] \in Nat
        /\ s.seen[s.key] \in Nat
    BY <1>1, SeenFits DEF ScanCore, TypeOK, ReadsAreSound, ReadIsSound
  <1>3. \/ UNCHANGED <<rows, gate>>
        \/ /\ s.seen[s.key] # 0 /\ rows' = [rows EXCEPT ![s.key] = s.seen[s.key]]
           /\ \/ gate' = gate
              \/ gate' = [gate EXCEPT ![s.file] = [fp |-> clock[s.file], key |-> s.key]]
    BY DEF StoreSqliteDetail
  <1>4. rows \in [Sessions -> Nat \cup {NoRow}]
    BY DEF ScanCore, TypeOK
  <1>5. /\ rows' \in [Sessions -> Nat \cup {NoRow}]
        /\ \A x \in Sessions : rows'[x] <= clock[FileOf[x]]
    BY <1>2, <1>3, <1>4, SeenFits
  <1> HIDE DEF s
  <1>6. /\ gate' \in [Files -> [fp : Nat, key : Sessions \cup {NoSession}]]
        /\ \A f \in Jsonl : gate'[f] = gate[f]
    <2>1. [fp |-> clock[s.file], key |-> s.key] \in [fp : Nat, key : Sessions \cup {NoSession}]
      BY <1>2
    <2>2. gate \in [Files -> [fp : Nat, key : Sessions \cup {NoSession}]]
      BY DEF ScanCore, TypeOK
    <2>3. Jsonl \subseteq Files /\ s.file \notin Jsonl
      BY <1>2, ScanAssumption DEF Files
    <2> QED
      BY <2>1, <2>2, <2>3, <1>2, <1>3
  <1>7. \A x \in Sessions : rows[x] > 0 => rows'[x] > 0
    BY <1>2, <1>3, <1>4
  <1>8. GateHasRow'
    BY <1>6, <1>7 DEF ScanCore, GateHasRow, In
  <1> QED
    BY <1>1, <1>5, <1>6, <1>8, StoreKeeps DEF s

---------------------------------------------------------------------------

\* The tasks are read, and the caller goes on to the end.
LEMMA TeamScannedKeeps == ASSUME ScanCore, NEW w \in Workers, TeamScanned(w) PROVE ScanCore'
  <1> DEFINE s == [work[w] EXCEPT !.pc = "done"]
  <1>1. /\ UNCHANGED <<sources, stored, watcher, server, unseen>> /\ work[w].pc = "team"
        /\ work' = [work EXCEPT ![w] = s]
    BY DEF TeamScanned, ScanCore, TypeOK
  <1>2. work[w] \in Scan /\ ReadIsSound(work[w]) /\ Quiet(work[w])
    BY DEF ScanCore, TypeOK, ReadsAreSound, TasksAreAwaited
  <1>3. /\ s \in Scan /\ s.pc = "done" /\ s.via = work[w].via /\ s.seen = work[w].seen
        /\ s.waited = work[w].waited /\ s.lost = work[w].lost
    BY <1>2 DEF Scan
  <1> HIDE DEF s
  <1>4. ReadIsSound(s) /\ Quiet(s)
    BY <1>1, <1>2, <1>3 DEF ReadIsSound, Quiet
  <1>5. flag' \in BOOLEAN /\ flag' = flag /\ unseen' \subseteq unseen /\ UNCHANGED <<waiting, mon>>
    BY <1>1 DEF server, ScanCore, TypeOK
  <1>6. s.waited => flag' \/ s.lost
    BY <1>3, <1>5 DEF ScanCore, FlagIsHeld
  <1> QED
    BY <1>1, <1>3, <1>4, <1>5, <1>6, WorkKeeps

LEMMA EndKeeps == ASSUME ScanCore, NEW w \in Workers, End(w) PROVE ScanCore'
  <1> DEFINE s == work[w]
             ws == [work EXCEPT ![w] = Idle]
             again == s.via = "watch" /\ s.file \in queued
             cleared == [u \in Workers |-> [ws[u] EXCEPT !.lost = ws[u].waited]]
  <1>0. Continue(w) /\ UNCHANGED <<sources, stored, due, mon>> /\ s.pc = "done"
    BY DEF End
  <1>1. UNCHANGED <<clock, source, rows, gate, due, mon>>
    BY <1>0 DEF sources, stored
  <1>2. /\ active' \subseteq Files /\ queued' \subseteq Files /\ flag' \in BOOLEAN
        /\ unseen' \subseteq Files
    BY <1>0 DEF Continue, Begin, ScanCore, TypeOK
  <1>3. /\ waiting \in Seq(Files) /\ \A i, j \in DOMAIN waiting : waiting[i] = waiting[j] => i = j
        /\ mon # "running" => waiting = <<>> /\ queued = {}
        /\ again => s.file \in Files /\ mon = "running"
    BY DEF ScanCore, TypeOK, WaitingIsOpen
  <1>4. /\ waiting' \in Seq(Files) /\ \A i, j \in DOMAIN waiting' : waiting'[i] = waiting'[j] => i = j
        /\ mon # "running" => waiting' = <<>> /\ queued' = {}
    <2>0. mon # "running" => queued' = {}
      BY <1>0, <1>3 DEF Continue
    <2>1. CASE waiting # <<>>
      <3>1. waiting' = IF again THEN Add(Tail(waiting), s.file) ELSE Tail(waiting)
        BY <1>0, <2>1 DEF Continue
      <3> HIDE DEF again, s
      <3>2. /\ Tail(waiting) \in Seq(Files)
            /\ \A i, j \in DOMAIN Tail(waiting) : Tail(waiting)[i] = Tail(waiting)[j] => i = j
        BY <2>1, <1>3, TailFacts
      <3>3. CASE again
        <4>1. /\ Add(Tail(waiting), s.file) \in Seq(Files)
              /\ \A i, j \in DOMAIN Add(Tail(waiting), s.file) :
                    Add(Tail(waiting), s.file)[i] = Add(Tail(waiting), s.file)[j] => i = j
          BY <3>2, <3>3, <1>3, AddFacts
        <4> QED
          BY <4>1, <3>1, <3>3, <1>3, <2>0
      <3>4. CASE ~again
        BY <3>1, <3>2, <3>4, <2>1, <1>3, <2>0
      <3> QED
        BY <3>3, <3>4
    <2>2. CASE waiting = <<>>
      BY <1>0, <2>0, <2>2, <1>3 DEF Continue
    <2> QED
      BY <2>1, <2>2
  <1>5. /\ ws \in [Workers -> Scan]
        /\ \A u \in Workers : ReadIsSound(ws[u]) /\ Quiet(ws[u])
    <2>0. ReadIsSound(Idle) /\ Quiet(Idle) /\ Idle \in Scan
      BY RestIsSound, IdleFacts DEF ScanCore, Quiet
    <2>1. \A u \in Workers : ws[u] = IF u = w THEN Idle ELSE work[u]
      BY DEF ScanCore, TypeOK
    <2>2. ws \in [Workers -> Scan]
      BY <2>0 DEF ScanCore, TypeOK
    <2> HIDE DEF ws
    <2> QED
      BY <2>0, <2>1, <2>2 DEF ScanCore, ReadsAreSound, TasksAreAwaited
  <1>6. \/ flag' = FALSE /\ work' = cleared
        \/ /\ mon = "running" /\ flag' = TRUE
           /\ \E f \in Files, via \in {"watch", "drain"} : work' = [ws EXCEPT ![w] = Gated(f, via, FALSE)]
    <2>1. waiting # <<>> => Head(waiting) \in Files
      BY <1>3, TailFacts
    <2>2. CASE waiting = <<>> /\ ~again
      BY <2>2, <1>0 DEF Continue
    <2>3. CASE waiting = <<>> /\ again
      BY <2>3, <1>0, <1>3 DEF Continue, Begin
    <2>4. CASE waiting # <<>>
      BY <2>1, <2>4, <1>0, <1>3 DEF Continue, Begin
    <2> QED
      BY <2>2, <2>3, <2>4
  <1> HIDE DEF ws, s, again
  <1>7. /\ work' \in [Workers -> Scan]
        /\ \A u \in Workers : ReadIsSound(work'[u]) /\ Quiet(work'[u])
        /\ \A u \in Workers : work'[u].waited => flag' \/ work'[u].lost
    <2>1. ASSUME mon = "running", flag' = TRUE, NEW f \in Files, NEW via \in {"watch", "drain"},
                 work' = [ws EXCEPT ![w] = Gated(f, via, FALSE)]
          PROVE  /\ work' \in [Workers -> Scan]
                 /\ \A u \in Workers : ReadIsSound(work'[u]) /\ Quiet(work'[u])
                 /\ \A u \in Workers : work'[u].waited => flag' \/ work'[u].lost
      <3>1. /\ ReadIsSound(Gated(f, via, FALSE)) /\ Quiet(Gated(f, via, FALSE))
            /\ Gated(f, via, FALSE) \in Scan
        BY <2>1, GatedIsSound
      <3>2. \A u \in Workers : work'[u] = IF u = w THEN Gated(f, via, FALSE) ELSE ws[u]
        BY <1>5, <2>1
      <3> QED
        BY <3>1, <3>2, <2>1, <1>5
    <2>2. ASSUME work' = cleared
          PROVE  /\ work' \in [Workers -> Scan]
                 /\ \A u \in Workers : ReadIsSound(work'[u]) /\ Quiet(work'[u])
                 /\ \A u \in Workers : work'[u].waited => flag' \/ work'[u].lost
      <3>1. ASSUME NEW u \in Workers
            PROVE  /\ work'[u] \in Scan /\ work'[u].lost = ws[u].waited
                   /\ work'[u].pc = ws[u].pc /\ work'[u].via = ws[u].via
                   /\ work'[u].file = ws[u].file /\ work'[u].fp = ws[u].fp
                   /\ work'[u].seen = ws[u].seen /\ work'[u].key = ws[u].key
                   /\ work'[u].waited = ws[u].waited /\ work'[u].owed = ws[u].owed
        <4>1. work'[u] = [ws[u] EXCEPT !.lost = ws[u].waited] /\ ws[u] \in Scan
          BY <2>2, <1>5
        <4> QED
          BY <4>1 DEF Scan
      <3>2. work' \in [Workers -> Scan]
        BY <2>2, <3>1
      <3>3. ASSUME NEW u \in Workers PROVE ReadIsSound(work'[u]) /\ Quiet(work'[u])
        <4>1. ReadIsSound(work'[u])
          BY <3>1, <1>5 DEF ReadIsSound
        <4>2. Quiet(work'[u])
          BY <3>1, <1>5 DEF Quiet
        <4> QED
          BY <4>1, <4>2
      <3> QED
        BY <3>1, <3>2, <3>3
    <2> HIDE DEF cleared
    <2> QED
      BY <2>1, <2>2, <1>6
  <1>8. ReadsAreSound' /\ TasksAreAwaited' /\ FlagIsHeld'
    <2>1. ReadsAreSound'
      BY <1>1, <1>7 DEF ReadsAreSound, ReadIsSound
    <2>2. TasksAreAwaited'
      BY <1>1, <1>7 DEF TasksAreAwaited, Quiet
    <2>3. FlagIsHeld'
      BY <1>7 DEF FlagIsHeld
    <2> QED
      BY <2>1, <2>2, <2>3
  <1>9. WaitingIsOpen' /\ Len(waiting') <= Cardinality(Files)
    BY <1>1, <1>4, WaitingFits DEF WaitingIsOpen
  <1>10. TypeOK' /\ SourceIsCurrent' /\ GateHasRow' /\ IndexedIsOpen'
    BY <1>1, <1>2, <1>4, <1>7, <1>9
       DEF ScanCore, TypeOK, SourceIsCurrent, GateHasRow, IndexedIsOpen
  <1> QED
    BY <1>8, <1>9, <1>10 DEF ScanCore

\* Two workers change: the task goes on at w, its caller at v.
LEMMA TimeoutKeeps ==
  ASSUME ScanCore, NEW w \in Workers, NEW v \in Workers, Timeout(w, v)
  PROVE  ScanCore'
  <1> DEFINE s == [work[w] EXCEPT !.waited = FALSE]
             r == Returned(work[w])
  <1>1. /\ UNCHANGED <<sources, stored, watcher, server, unseen>>
        /\ work[w].pc = "reading" /\ work[w].waited /\ work[v] = Idle
        /\ work' = [work EXCEPT ![w] = s, ![v] = r]
    BY DEF Timeout, Slot, ScanCore, TypeOK
  <1>2. work[w] \in Scan /\ ReadIsSound(work[w]) /\ Quiet(work[w]) /\ w # v
    BY <1>1, IdleFacts DEF ScanCore, TypeOK, ReadsAreSound, TasksAreAwaited
  <1>3. /\ s \in Scan /\ s.pc = work[w].pc /\ s.via = work[w].via /\ s.file = work[w].file
        /\ s.fp = work[w].fp /\ s.seen = work[w].seen /\ s.key = work[w].key
        /\ s.owed = work[w].owed /\ s.waited = FALSE
    BY <1>2 DEF Scan
  <1>4. /\ r \in Scan /\ r.pc \in {"team", "done"} /\ r.via = work[w].via /\ r.seen = Nothing
        /\ r.waited = TRUE /\ r.lost = work[w].lost
    BY <1>2, ReturnedFacts
  <1> HIDE DEF s, r
  <1>5. ReadIsSound(s) /\ Quiet(s)
    BY <1>1, <1>2, <1>3 DEF ReadIsSound, Quiet
  <1>6. ReadIsSound(r) /\ Quiet(r)
    <2>1. ReadIsSound(r)
      BY <1>4, RestIsSound DEF ScanCore
    <2>2. Quiet(r)
      BY <1>1, <1>2, <1>4 DEF Quiet
    <2> QED
      BY <2>1, <2>2
  <1>7. /\ work' \in [Workers -> Scan]
        /\ \A u \in Workers : work'[u] = IF u = v THEN r ELSE IF u = w THEN s ELSE work[u]
    BY <1>1, <1>2, <1>3, <1>4 DEF ScanCore, TypeOK
  <1>8. /\ UNCHANGED <<clock, source, rows, gate, due, active, queued, flag, waiting, mon, unseen>>
    BY <1>1 DEF sources, stored, watcher, server
  <1>9. ReadsAreSound' /\ TasksAreAwaited' /\ FlagIsHeld'
    <2>1. ASSUME NEW u \in Workers
          PROVE  /\ ReadIsSound(work'[u]) /\ Quiet(work'[u])
                 /\ work'[u].waited => flag \/ work'[u].lost
      BY <1>1, <1>3, <1>4, <1>5, <1>6, <1>7
         DEF ScanCore, ReadsAreSound, TasksAreAwaited, FlagIsHeld
    <2>2. ReadsAreSound'
      BY <2>1, <1>8 DEF ReadsAreSound, ReadIsSound
    <2>3. TasksAreAwaited'
      BY <2>1, <1>8 DEF TasksAreAwaited, Quiet
    <2>4. FlagIsHeld'
      BY <2>1, <1>8 DEF FlagIsHeld
    <2> QED
      BY <2>2, <2>3, <2>4
  <1>10. TypeOK' /\ SourceIsCurrent' /\ GateHasRow' /\ WaitingIsOpen' /\ IndexedIsOpen'
    BY <1>7, <1>8 DEF ScanCore, TypeOK, SourceIsCurrent, GateHasRow, WaitingIsOpen, IndexedIsOpen
  <1> QED
    BY <1>9, <1>10 DEF ScanCore

---------------------------------------------------------------------------

LEMMA DeleteKeeps == ASSUME ScanCore, NEW x \in Sessions, Delete(x) PROVE ScanCore'
  <1>1. /\ UNCHANGED <<sources, watcher, server, work, unseen>>
        /\ rows' = [rows EXCEPT ![x] = NoRow]
        /\ gate' = [f \in Files |-> IF gate[f].key = x THEN NoGate ELSE gate[f]]
    BY DEF Delete
  <1>2. NoGate \in [fp : Nat, key : Sessions \cup {NoSession}]
    BY DEF NoGate
  <1>3. \A y \in Sessions : clock[FileOf[y]] \in Nat
    BY ScanAssumption DEF ScanCore, TypeOK
  <1>4. \A y \in Sessions : rows'[y] <= clock[FileOf[y]]
    BY <1>1, <1>3 DEF ScanCore, TypeOK, NoRow
  <1>5. TypeOK'
    BY <1>1, <1>2, <1>4 DEF ScanCore, TypeOK, sources, watcher, server
  <1>6. GateHasRow'
    <2> SUFFICES ASSUME NEW f \in Jsonl, NEW y \in In(f)
                 PROVE  gate'[f] = NoGate \/ (gate'[f].key = y /\ rows'[y] > 0)
      BY DEF GateHasRow, In
    <2>1. /\ gate[f] = NoGate \/ (gate[f].key = y /\ rows[y] > 0)
          /\ f \in Files /\ gate'[f] = IF gate[f].key = x THEN NoGate ELSE gate[f]
      BY <1>1 DEF ScanCore, GateHasRow, Files
    <2>2. y # x => rows'[y] = rows[y]
      BY <1>1 DEF ScanCore, TypeOK, In
    <2> QED
      BY <2>1, <2>2
  <1>7. SourceIsCurrent' /\ ReadsAreSound' /\ WaitingIsOpen' /\ TasksAreAwaited'
    BY <1>1 DEF ScanCore, SourceIsCurrent, ReadsAreSound, ReadIsSound, WaitingIsOpen,
           TasksAreAwaited, Quiet, sources, watcher, server
  <1>8. IndexedIsOpen'
    BY <1>5, <1>6, <1>7, OpenGate, PTL
  <1>9. FlagIsHeld'
    BY <1>1 DEF ScanCore, FlagIsHeld, server
  <1> QED
    BY <1>5, <1>6, <1>7, <1>8, <1>9 DEF ScanCore

\* The scans of the watcher that is closed are changed in name only.
LEMMA DisableKeeps == ASSUME ScanCore, Disable PROVE ScanCore'
  <1>1. /\ UNCHANGED <<sources, stored, flag>> /\ mon' = "stopping" /\ waiting' = <<>>
        /\ unseen' = {} /\ due' = {} /\ active' = {} /\ queued' = {} /\ mon = "running"
        /\ work' = [w \in Workers |-> IF work[w].via = "watch" THEN [work[w] EXCEPT !.via = "drain"]
                                      ELSE work[w]]
    BY DEF Disable
  <1>2. ASSUME NEW w \in Workers
        PROVE  /\ work'[w] \in Scan /\ work'[w].pc = work[w].pc
               /\ work'[w].file = work[w].file /\ work'[w].fp = work[w].fp
               /\ work'[w].seen = work[w].seen /\ work'[w].key = work[w].key
               /\ work'[w].waited = work[w].waited /\ work'[w].lost = work[w].lost
               /\ work'[w].via = work[w].via \/ (work[w].via = "watch" /\ work'[w].via = "drain")
    <2>1. work[w] \in Scan
      BY DEF ScanCore, TypeOK
    <2> QED
      BY <1>1, <2>1 DEF Scan
  <1>3. TypeOK'
    <2>1. Len(<<>>) = 0 /\ Cardinality(Files) >= 0
      BY FS_CardinalityType, ScanAssumption
    <2>2. work' \in [Workers -> Scan]
      BY <1>1, <1>2
    <2> QED
      BY <1>1, <2>1, <2>2 DEF ScanCore, TypeOK, sources, stored
  <1>4. ReadsAreSound'
    <2> SUFFICES ASSUME NEW w \in Workers PROVE ReadIsSound(work[w])'
      BY DEF ReadsAreSound
    <2>1. ReadIsSound(work[w]) /\ clock' = clock
      BY <1>1 DEF ScanCore, ReadsAreSound, sources
    <2> QED
      BY <2>1, <1>2 DEF ReadIsSound
  <1>5. TasksAreAwaited' /\ FlagIsHeld'
    <2>1. TasksAreAwaited'
      BY <1>1, <1>2 DEF ScanCore, TasksAreAwaited, Quiet
    <2>2. FlagIsHeld'
      BY <1>1, <1>2 DEF ScanCore, FlagIsHeld
    <2> QED
      BY <2>1, <2>2
  <1>6. SourceIsCurrent' /\ GateHasRow' /\ WaitingIsOpen' /\ IndexedIsOpen'
    BY <1>1 DEF ScanCore, SourceIsCurrent, GateHasRow, WaitingIsOpen, IndexedIsOpen, sources, stored
  <1> QED
    BY <1>3, <1>4, <1>5, <1>6 DEF ScanCore

\* No turn is under way and nothing is gated, so what is automatic either reads,
\* and is owed from now on, or has settled.
LEMMA SettlingKeeps == ASSUME ScanCore, Settling PROVE ScanCore'
  <1> DEFINE owed(s) == s.owed \/ (s.pc = "reading" /\ s.via # "detail")
  <1>1. /\ UNCHANGED <<sources, stored, watcher, flag, waiting, unseen>>
        /\ Free /\ mon = "stopping" /\ mon' = "settling"
        /\ work' = [w \in Workers |-> [work[w] EXCEPT !.owed = owed(work[w])]]
    BY DEF Settling
  <1>2. ASSUME NEW w \in Workers
        PROVE  /\ work'[w] \in Scan /\ work'[w].pc = work[w].pc /\ work'[w].via = work[w].via
               /\ work'[w].file = work[w].file /\ work'[w].fp = work[w].fp
               /\ work'[w].seen = work[w].seen /\ work'[w].key = work[w].key
               /\ work'[w].waited = work[w].waited /\ work'[w].lost = work[w].lost
               /\ work'[w].owed = owed(work[w])
    BY <1>1 DEF ScanCore, TypeOK, Scan
  <1>3. ReadsAreSound'
    BY <1>1, <1>2 DEF ScanCore, ReadsAreSound, ReadIsSound, sources
  <1>4. TypeOK'
    BY <1>1, <1>2 DEF ScanCore, TypeOK, sources, stored, watcher
  <1>5. TasksAreAwaited'
    <2> SUFFICES ASSUME NEW w \in Workers PROVE Quiet(work[w])'
      BY DEF TasksAreAwaited
    <2>1. /\ work[w] \in Scan /\ work[w].pc \notin {"gated", "read", "done"} /\ Quiet(work[w])
          /\ work[w].pc \in {"idle", "body"} => work[w].via \in {"none", "post"}
      BY <1>1 DEF ScanCore, TypeOK, ReadsAreSound, ReadIsSound, TasksAreAwaited, Free
    <2>2. work[w].pc \in {"idle", "body", "reading", "team"}
      BY <2>1 DEF Scan
    <2>3. work[w].waited => work[w].lost
      BY <1>1 DEF ScanCore, FlagIsHeld, Settling
    <2>4. /\ work'[w].pc = work[w].pc /\ work'[w].via = work[w].via
          /\ work'[w].waited = work[w].waited /\ work'[w].lost = work[w].lost
          /\ work[w].pc = "reading" /\ work[w].via # "detail" => work'[w].owed
      BY <1>2
    <2>5. CASE work[w].pc \in {"idle", "body"}
      BY <2>1, <2>4, <2>5 DEF Quiet
    <2>6. CASE work[w].pc = "reading"
      BY <2>3, <2>4, <2>6, <1>1 DEF Quiet
    <2>7. CASE work[w].pc = "team"
      BY <2>1, <2>3, <2>4, <2>7, <1>1 DEF Quiet
    <2> QED
      BY <2>2, <2>5, <2>6, <2>7
  <1>6. SourceIsCurrent' /\ GateHasRow' /\ WaitingIsOpen' /\ IndexedIsOpen'
    BY <1>1 DEF ScanCore, SourceIsCurrent, GateHasRow, WaitingIsOpen, IndexedIsOpen, sources, stored,
           watcher
  <1>7. FlagIsHeld'
    BY <1>1, <1>2 DEF ScanCore, FlagIsHeld
  <1> QED
    BY <1>3, <1>4, <1>5, <1>6, <1>7 DEF ScanCore

\* No task is owed any more, so what is automatic has lost the flag.
LEMMA DisabledKeeps == ASSUME ScanCore, Disabled PROVE ScanCore'
  BY DEF ScanCore, TypeOK, SourceIsCurrent, ReadsAreSound, ReadIsSound, GateHasRow, WaitingIsOpen,
         TasksAreAwaited, Quiet, FlagIsHeld, IndexedIsOpen, Disabled, sources, stored, watcher

LEMMA EnableKeeps == ASSUME ScanCore, Enable PROVE ScanCore'
  BY DEF ScanCore, TypeOK, SourceIsCurrent, ReadsAreSound, ReadIsSound, GateHasRow, WaitingIsOpen,
         TasksAreAwaited, Quiet, FlagIsHeld, IndexedIsOpen, Enable, sources, stored, watcher

\* A session that is indexed again has no row and so no gate.
LEMMA RestartKeeps == ASSUME ScanCore, Restart PROVE ScanCore'
  <1>1. /\ UNCHANGED <<clock, source, gate>> /\ mon' = "running" /\ waiting' = <<>>
        /\ work' = [w \in Workers |-> Idle]
        /\ rows' = [x \in Sessions |-> IF rows[x] = NoRow /\ source[x] # 0 THEN Indexed ELSE rows[x]]
    BY DEF Restart, sources
  <1>2. \A x \in Sessions : clock[FileOf[x]] \in Nat
    BY ScanAssumption DEF ScanCore, TypeOK
  <1>3. \A x \in Sessions : rows'[x] <= clock[FileOf[x]] /\ rows'[x] \in Nat \cup {NoRow}
    BY <1>1, <1>2 DEF ScanCore, TypeOK, Indexed
  <1>4. Len(<<>>) = 0 /\ Cardinality(Files) >= 0
    BY FS_CardinalityType, ScanAssumption
  <1>5. TypeOK'
    <2>1. UNCHANGED <<clock, source, gate>>
      BY <1>1
    <2>2. /\ due' = {} /\ active' = {} /\ queued' = {} /\ unseen' = {} /\ flag' = FALSE
      BY DEF Restart
    <2>3. work' \in [Workers -> Scan]
      BY <1>1, IdleFacts
    <2>4. /\ rows' \in [Sessions -> Nat \cup {NoRow}]
          /\ \A x \in Sessions : source[x] <= clock[FileOf[x]] /\ rows'[x] <= clock[FileOf[x]]
      BY <1>1, <1>3 DEF ScanCore, TypeOK
    <2>5. /\ clock \in [Files -> Nat] /\ \A f \in Files : clock[f] <= Writes[f] + 1
          /\ source \in [Sessions -> Nat]
          /\ gate \in [Files -> [fp : Nat, key : Sessions \cup {NoSession}]]
      BY DEF ScanCore, TypeOK
    <2>6. waiting' \in Seq(Files) /\ Len(waiting') <= Cardinality(Files) /\ mon' = "running"
      BY <1>1, <1>4
    <2> QED
      BY <2>1, <2>2, <2>3, <2>4, <2>5, <2>6 DEF TypeOK
  <1>6. ReadsAreSound' /\ TasksAreAwaited' /\ FlagIsHeld'
    BY <1>1, <1>2, IdleFacts DEF ReadsAreSound, ReadIsSound, TasksAreAwaited, Quiet, FlagIsHeld
  <1>7. GateHasRow'
    BY <1>1 DEF ScanCore, TypeOK, GateHasRow, In, NoRow
  <1>8. SourceIsCurrent' /\ WaitingIsOpen'
    BY <1>1 DEF ScanCore, SourceIsCurrent, WaitingIsOpen
  <1>9. IndexedIsOpen'
    BY <1>5, <1>7, <1>8, OpenGate, PTL
  <1> QED
    BY <1>5, <1>6, <1>7, <1>8, <1>9 DEF ScanCore

---------------------------------------------------------------------------

LEMMA InitInv == Init => ScanCore
  <1> SUFFICES ASSUME Init PROVE ScanCore
    OBVIOUS
  <1> USE ScanAssumption
  <1>1. Len(<<>>) = 0 /\ Cardinality(Files) >= 0
    BY FS_CardinalityType
  <1>2. /\ clock \in [Files -> Nat] /\ \A f \in Files : clock[f] <= Writes[f] + 1
        /\ source \in [Sessions -> Nat] /\ rows \in [Sessions -> Nat \cup {NoRow}]
        /\ \A x \in Sessions : source[x] <= clock[FileOf[x]] /\ rows[x] <= clock[FileOf[x]]
        /\ gate \in [Files -> [fp : Nat, key : Sessions \cup {NoSession}]]
    BY DEF Init, NoGate, Indexed
  <1>3. TypeOK
    <2>1. work \in [Workers -> Scan]
      BY IdleFacts DEF Init
    <2>2. waiting \in Seq(Files) /\ Len(waiting) <= Cardinality(Files)
      BY <1>1 DEF Init
    <2> QED
      BY <1>2, <2>1, <2>2 DEF Init, TypeOK
  <1>4. SourceIsCurrent /\ GateHasRow
    BY DEF Init, SourceIsCurrent, GateHasRow, In, Files
  <1>5. ReadsAreSound /\ TasksAreAwaited /\ FlagIsHeld /\ WaitingIsOpen
    BY IdleFacts DEF Init, ReadsAreSound, ReadIsSound, TasksAreAwaited, Quiet, FlagIsHeld, WaitingIsOpen
  <1> QED
    BY <1>3, <1>4, <1>5, OpenGate DEF ScanCore

LEMMA NextKeeps == ASSUME ScanCore, [Next]_vars PROVE ScanCore'
  <1>1. CASE UNCHANGED vars
    BY <1>1 DEF ScanCore, TypeOK, SourceIsCurrent, ReadsAreSound, ReadIsSound, GateHasRow,
           WaitingIsOpen, TasksAreAwaited, Quiet, FlagIsHeld, IndexedIsOpen, vars, sources, stored,
           watcher, server
  <1>2. CASE Next
    BY <1>2, ScanAssumption, WriteKeeps, FireKeeps, PostKeeps, PostRejectedKeeps, PostBodyKeeps,
       DetailKeeps, ReadKeeps, StoreJsonlKeeps, StoreSqliteKeeps, StoreSqliteDetailKeeps,
       TeamScannedKeeps, EndKeeps, TimeoutKeeps, DeleteKeeps, DisableKeeps, SettlingKeeps, DisabledKeeps, EnableKeeps,
       RestartKeeps
       DEF Next, Body, StoreSession
  <1> QED
    BY <1>1, <1>2

---------------------------------------------------------------------------
(* The signals of the watcher                                              *)

\* A step of one worker, which does not end a scan of the watcher.
LEMMA OneWatcher ==
  ASSUME SignalsAreKept, NEW w \in Workers, \A u \in Workers \ {w} : work'[u] = work[u],
         work[w].via = "watch" /\ work[w].waited =>
            work'[w].via = "watch" /\ work'[w].file = work[w].file /\ work'[w].waited,
         UNCHANGED <<due, active, queued, waiting>>, unseen' \subseteq unseen
  PROVE  SignalsAreKept'
  <1>1. ASSUME NEW f \in active
        PROVE  \E u \in Workers : work'[u].via = "watch" /\ work'[u].file = f /\ work'[u].waited
    <2>1. PICK u \in Workers : work[u].via = "watch" /\ work[u].file = f /\ work[u].waited
      BY DEF SignalsAreKept
    <2>2. work'[u].via = "watch" /\ work'[u].file = f /\ work'[u].waited
      <3>1. CASE u = w
        BY <2>1, <3>1
      <3>2. CASE u # w
        BY <2>1, <3>2
      <3> QED
        BY <3>1, <3>2
    <2> QED
      BY <2>2
  <1> QED
    BY <1>1 DEF SignalsAreKept

LEMMA WatchFacts ==
  ASSUME NEW f
  PROVE  /\ Gated(f, "watch", FALSE).via = "watch" /\ Gated(f, "watch", FALSE).file = f
         /\ Gated(f, "watch", FALSE).waited
  BY DEF Gated, Returned, Idle

\* A scan of the watcher that ends takes its own provider from the lists; the others
\* have scans of their own.
LEMMA EndKeepsSignals ==
  ASSUME ScanCore, SignalsAreKept, NEW w \in Workers, End(w)
  PROVE  SignalsAreKept'
  <1> DEFINE s == work[w]
             ws == [work EXCEPT ![w] = Idle]
             again == s.via = "watch" /\ s.file \in queued
             Waits(seq) == {seq[i] : i \in DOMAIN seq}
  <1>1. /\ Continue(w) /\ due' = due /\ work \in [Workers -> Scan]
        /\ unseen \subseteq due \cup queued \cup Waits(waiting) /\ queued \subseteq active
        /\ waiting \in Seq(Files)
    BY DEF End, SignalsAreKept, ScanCore, TypeOK
  <1>2. /\ queued' = IF s.via = "watch" THEN queued \ {s.file} ELSE queued
        /\ active' = IF s.via = "watch" /\ (waiting # <<>> \/ ~again) THEN active \ {s.file} ELSE active
    BY <1>1 DEF Continue
  <1>3. ASSUME NEW f \in active, ~(s.via = "watch" /\ f = s.file)
        PROVE  \E u \in Workers \ {w} : work[u].via = "watch" /\ work[u].file = f /\ work[u].waited
    BY <1>3 DEF SignalsAreKept
  <1>4. ASSUME NEW u \in Workers \ {w}
        PROVE  /\ work'[u].via = work[u].via /\ work'[u].file = work[u].file
               /\ work'[u].waited = work[u].waited
    <2>1. work'[u] = work[u] \/ work'[u] = [work[u] EXCEPT !.lost = work[u].waited]
      BY <1>1 DEF Continue, Begin
    <2>2. work[u] \in Scan
      BY <1>1
    <2> QED
      BY <2>1, <2>2 DEF Scan
  <1>5. queued' \subseteq active'
    BY <1>1, <1>2
  <1>6. ASSUME NEW f \in active', ~(s.via = "watch" /\ f = s.file)
        PROVE  \E u \in Workers : work'[u].via = "watch" /\ work'[u].file = f /\ work'[u].waited
    <2>1. f \in active
      BY <1>2
    <2> QED
      BY <2>1, <1>3, <1>4, <1>6
  <1>7. CASE waiting # <<>>
    <2>1. /\ unseen' = unseen \ {Head(waiting)}
          /\ waiting' = IF again THEN Add(Tail(waiting), s.file) ELSE Tail(waiting)
      BY <1>1, <1>7 DEF Continue, Begin
    <2>2. Waits(waiting) \subseteq {Head(waiting)} \cup Waits(Tail(waiting))
      <3> SUFFICES ASSUME NEW i \in DOMAIN waiting
                   PROVE  waiting[i] = Head(waiting) \/ \E j \in DOMAIN Tail(waiting) : Tail(waiting)[j] = waiting[i]
        OBVIOUS
      <3>1. CASE i = 1
        BY <3>1, <1>1, <1>7
      <3>2. CASE i # 1
        <4>1. i - 1 \in DOMAIN Tail(waiting) /\ Tail(waiting)[i - 1] = waiting[i]
          BY <3>2, <1>1, <1>7
        <4> QED
          BY <4>1
      <3> QED
        BY <3>1, <3>2
    <2>3. Waits(Tail(waiting)) \subseteq Waits(waiting') /\ (again => s.file \in Waits(waiting'))
      <3>1. Tail(waiting) \in Seq(Files) /\ (again => s.file \in Files)
        BY <1>1, <1>7 DEF ScanCore, TypeOK
      <3> DEFINE t == Tail(waiting)
                 g == s.file
      <3> HIDE DEF t, g, s, again
      <3>2. CASE ~again
        BY <3>2, <2>1 DEF t
      <3>3. CASE again
        <4>1. t \in Seq(Files) /\ g \in Files /\ waiting' = Add(t, g)
          BY <3>1, <3>3, <2>1 DEF t, g
        <4>2. CASE \E i \in DOMAIN t : t[i] = g
          BY <4>1, <4>2 DEF Add, t, g
        <4>3. CASE ~\E i \in DOMAIN t : t[i] = g
          <5>1. waiting' = Append(t, g)
            BY <4>1, <4>3 DEF Add
          <5>2. /\ Len(t) \in Nat /\ DOMAIN t = 1..Len(t) /\ DOMAIN Append(t, g) = 1..(Len(t) + 1)
                /\ \A i \in 1..Len(t) : Append(t, g)[i] = t[i]
                /\ Append(t, g)[Len(t) + 1] = g
            BY <4>1
          <5>3. /\ \A i \in DOMAIN t : i \in DOMAIN waiting' /\ waiting'[i] = t[i]
                /\ Len(t) + 1 \in DOMAIN waiting' /\ waiting'[Len(t) + 1] = g
            BY <5>1, <5>2
          <5> QED
            BY <5>3 DEF t, g
        <4> QED
          BY <4>2, <4>3
      <3> QED
        BY <3>2, <3>3
    <2> HIDE DEF Waits
    <2>4. unseen' \subseteq due' \cup queued' \cup Waits(waiting')
      BY <1>1, <1>2, <2>1, <2>2, <2>3
    <2>5. ~(s.via = "watch" /\ s.file \in active')
      BY <1>2, <1>7
    <2> QED
      BY <1>5, <1>6, <2>4, <2>5 DEF SignalsAreKept, Waits
  <1>8. CASE waiting = <<>> /\ again
    <2>1. /\ unseen' = unseen \ {s.file} /\ waiting' = waiting
          /\ work' = [ws EXCEPT ![w] = Gated(s.file, "watch", FALSE)]
      BY <1>1, <1>8 DEF Continue, Begin
    <2>3. /\ work'[w].via = "watch" /\ work'[w].file = s.file /\ work'[w].waited
      <3>1. work'[w] = Gated(s.file, "watch", FALSE)
        BY <2>1, <1>1
      <3> HIDE DEF s
      <3> QED
        BY <3>1, WatchFacts
    <2>4. unseen' \subseteq due' \cup queued' \cup Waits(waiting')
      BY <1>1, <1>2, <2>1, <1>8
    <2>5. \A f \in active' : \E u \in Workers :
             work'[u].via = "watch" /\ work'[u].file = f /\ work'[u].waited
      BY <1>6, <2>3
    <2> QED
      BY <1>5, <2>4, <2>5 DEF SignalsAreKept
  <1>9. CASE waiting = <<>> /\ ~again
    <2>1. unseen' = unseen /\ waiting' = waiting
      BY <1>1, <1>9 DEF Continue
    <2>2. queued' = queued
      BY <1>2, <1>9
    <2>3. ~(s.via = "watch" /\ s.file \in active')
      BY <1>2, <1>9
    <2> QED
      BY <1>1, <1>5, <1>6, <2>1, <2>2, <2>3 DEF SignalsAreKept
  <1> QED
    BY <1>7, <1>8, <1>9

\* The signal goes to the list of the scan that is in its way, or starts one.
LEMMA FireKeepsSignals ==
  ASSUME ScanCore, SignalsAreKept, NEW f \in Files, Fire(f)
  PROVE  SignalsAreKept'
  <1>0. /\ due' = due \ {f} /\ work \in [Workers -> Scan] /\ waiting \in Seq(Files)
        /\ \A g \in active : \E u \in Workers :
              work[u].via = "watch" /\ work[u].file = g /\ work[u].waited
    BY DEF Fire, ScanCore, TypeOK, SignalsAreKept
  <1>1. CASE f \in active /\ queued' = queued \cup {f} /\ UNCHANGED <<active, flag, waiting, work, unseen>>
    BY <1>0, <1>1 DEF SignalsAreKept
  <1>2. CASE waiting' = Add(waiting, f) /\ UNCHANGED <<active, queued, flag, work, unseen>>
    <2>1. \A i \in DOMAIN waiting : \E j \in DOMAIN waiting' : waiting'[j] = waiting[i]
      <3>1. CASE \E i \in DOMAIN waiting : waiting[i] = f
        BY <3>1, <1>2 DEF Add
      <3>2. CASE ~\E i \in DOMAIN waiting : waiting[i] = f
        BY <3>2, <1>0, <1>2 DEF Add
      <3> QED
        BY <3>1, <3>2
    <2>2. \E j \in DOMAIN waiting' : waiting'[j] = f
      <3>1. CASE \E i \in DOMAIN waiting : waiting[i] = f
        BY <3>1, <1>2 DEF Add
      <3>2. CASE ~\E i \in DOMAIN waiting : waiting[i] = f
        <4>1. waiting' = Append(waiting, f)
          BY <3>2, <1>2 DEF Add
        <4>2. Len(waiting) + 1 \in DOMAIN waiting' /\ waiting'[Len(waiting) + 1] = f
          BY <4>1, <1>0
        <4> QED
          BY <4>2
      <3> QED
        BY <3>1, <3>2
    <2>3. \A g \in unseen : g \in due' \cup queued \cup {waiting'[i] : i \in DOMAIN waiting'}
      BY <1>0, <2>1, <2>2 DEF SignalsAreKept
    <2> QED
      BY <1>2, <1>0, <2>3 DEF SignalsAreKept
  <1>3. ASSUME NEW w \in Workers, Slot(w), Begin(work, w, f, "watch", FALSE),
               active' = active \cup {f}, UNCHANGED <<queued, waiting>>
        PROVE  SignalsAreKept'
    <2>1. /\ work' = [work EXCEPT ![w] = Gated(f, "watch", FALSE)] /\ unseen' = unseen \ {f}
          /\ work[w].via = "none"
      BY <1>3, IdleFacts DEF Begin, Slot
    <2>2. /\ Gated(f, "watch", FALSE).via = "watch" /\ Gated(f, "watch", FALSE).file = f
          /\ Gated(f, "watch", FALSE).waited
      BY WatchFacts
    <2>3. /\ work'[w] = Gated(f, "watch", FALSE)
          /\ \A u \in Workers \ {w} : work'[u] = work[u]
      BY <1>0, <2>1
    <2>4. \A g \in active' : \E u \in Workers :
             work'[u].via = "watch" /\ work'[u].file = g /\ work'[u].waited
      <3> SUFFICES ASSUME NEW g \in active'
                   PROVE  \E u \in Workers :
                             work'[u].via = "watch" /\ work'[u].file = g /\ work'[u].waited
        OBVIOUS
      <3>1. CASE g = f
        BY <3>1, <2>2, <2>3
      <3>2. CASE g # f
        <4>1. PICK u \in Workers : work[u].via = "watch" /\ work[u].file = g /\ work[u].waited
          BY <3>2, <1>0, <1>3
        <4>2. u # w
          BY <4>1, <2>1
        <4> QED
          BY <4>1, <4>2, <2>3
      <3> QED
        BY <3>1, <3>2
    <2>5. queued' \subseteq active'
      BY <1>3 DEF SignalsAreKept
    <2>6. unseen' \subseteq due' \cup queued' \cup {waiting'[i] : i \in DOMAIN waiting'}
      BY <1>0, <1>3, <2>1 DEF SignalsAreKept
    <2> QED
      BY <2>4, <2>5, <2>6 DEF SignalsAreKept
  <1> QED
    BY <1>1, <1>2, <1>3 DEF Fire

\* The caller that gives up takes the place of the watcher's scan along.
LEMMA TimeoutKeepsSignals ==
  ASSUME ScanCore, SignalsAreKept, NEW w \in Workers, NEW v \in Workers, Timeout(w, v)
  PROVE  SignalsAreKept'
  <1>1. /\ work[w].pc = "reading" /\ work[v] = Idle /\ work \in [Workers -> Scan] /\ work[w] \in Scan
        /\ work' = [work EXCEPT ![w].waited = FALSE, ![v] = Returned(work[w])]
        /\ UNCHANGED <<due, active, queued, waiting, unseen>>
    BY DEF Timeout, Slot, ScanCore, TypeOK, watcher, server
  <1>2. /\ work'[v] = Returned(work[w]) /\ w # v
        /\ \A u \in Workers \ {v, w} : work'[u] = work[u]
    BY <1>1, IdleFacts
  <1>3. /\ work'[v].via = work[w].via /\ work'[v].file = work[w].file /\ work'[v].waited
    BY <1>1, <1>2, ReturnedFacts
  <1>4. ASSUME NEW f \in active
        PROVE  \E u \in Workers : work'[u].via = "watch" /\ work'[u].file = f /\ work'[u].waited
    <2>1. PICK u \in Workers : work[u].via = "watch" /\ work[u].file = f /\ work[u].waited
      BY DEF SignalsAreKept
    <2>2. u # v
      BY <2>1, <1>1, IdleFacts
    <2>3. CASE u = w
      BY <2>1, <2>3, <1>3
    <2>4. CASE u # w
      BY <2>1, <2>2, <2>4, <1>2
    <2> QED
      BY <2>3, <2>4
  <1> QED
    BY <1>1, <1>4 DEF SignalsAreKept

\* The other steps of a worker.
LEMMA WorkKeepsSignals ==
  ASSUME ScanCore, SignalsAreKept, NEW w \in Workers,
         \/ Post(w) \/ Body(w) \/ Read(w) \/ StoreSession(w) \/ TeamScanned(w)
         \/ \E x \in Sessions : Detail(w, x)
  PROVE  SignalsAreKept'
  <1>1. work \in [Workers -> Scan] /\ work[w] \in Scan
    BY DEF ScanCore, TypeOK
  <1>2. UNCHANGED <<due, active, queued, waiting>> /\ unseen' \subseteq unseen
    BY DEF Post, Body, PostBody, PostRejected, Begin, Read, StoreSession, StoreJsonl, StoreSqlite,
           StoreSqliteDetail, TeamScanned, Detail, watcher, server
  <1>3. CASE StoreSession(w)
    <2>1. work' = [work EXCEPT ![w] = Settled(work[w])]
      BY <1>3 DEF StoreSession, StoreJsonl, StoreSqlite, StoreSqliteDetail
    <2>2. work'[w] = Settled(work[w]) /\ \A u \in Workers \ {w} : work'[u] = work[u]
      BY <1>1, <2>1
    <2>3. ASSUME work[w].waited
          PROVE  work'[w].via = work[w].via /\ work'[w].file = work[w].file /\ work'[w].waited
      <3>1. work'[w] = Returned(work[w])
        BY <2>2, <2>3 DEF Settled
      <3> QED
        BY <3>1, <1>1, ReturnedFacts
    <2> QED
      BY <1>2, <2>2, <2>3, OneWatcher
  <1>4. CASE Read(w) \/ TeamScanned(w)
    <2>1. \A u \in Workers \ {w} : work'[u] = work[u]
      BY <1>1, <1>4 DEF Read, TeamScanned
    <2>2. /\ work'[w].via = work[w].via /\ work'[w].file = work[w].file
          /\ work'[w].waited = work[w].waited
      BY <1>1, <1>4 DEF Read, TeamScanned, Scan
    <2> QED
      BY <1>2, <2>1, <2>2, OneWatcher
  <1>5. CASE Post(w) \/ Body(w) \/ \E x \in Sessions : Detail(w, x)
    <2>1. \A u \in Workers \ {w} : work'[u] = work[u]
      BY <1>1, <1>5 DEF Post, Body, PostBody, PostRejected, Begin, Detail
    <2>2. work[w].via # "watch"
      BY <1>5, IdleFacts
         DEF Post, Body, PostBody, PostRejected, Detail, Slot, ScanCore, ReadsAreSound, ReadIsSound
    <2> QED
      BY <1>2, <2>1, <2>2, OneWatcher
  <1> QED
    BY <1>3, <1>4, <1>5

LEMMA NextKeepsSignals ==
  ASSUME ScanCore, SignalsAreKept, [Next]_vars
  PROVE  SignalsAreKept'
  <1>1. ASSUME NEW f \in Files, Write(f) PROVE SignalsAreKept'
    BY <1>1 DEF Write, SignalsAreKept, server
  <1>2. CASE Disable \/ Restart
    <2>1. unseen' = {} /\ queued' = {} /\ active' = {}
      BY <1>2 DEF Disable, Restart
    <2> QED
      BY <2>1 DEF SignalsAreKept
  <1>3. CASE Settling
    <2>1. UNCHANGED <<due, active, queued, waiting, unseen>>
      BY <1>3 DEF Settling, watcher
    <2>2. ASSUME NEW w \in Workers
          PROVE  /\ work'[w].via = work[w].via /\ work'[w].file = work[w].file
                 /\ work'[w].waited = work[w].waited
      <3>1. work[w] \in Scan
        BY DEF ScanCore, TypeOK
      <3>2. PICK owed : work'[w] = [work[w] EXCEPT !.owed = owed]
        BY <1>3 DEF Settling
      <3> QED
        BY <3>1, <3>2 DEF Scan
    <2> QED
      BY <2>1, <2>2 DEF SignalsAreKept
  <1>4. CASE UNCHANGED <<due, active, queued, waiting, unseen, work>>
    BY <1>4 DEF SignalsAreKept
  <1>5. CASE Next
    BY <1>1, <1>2, <1>3, <1>4, <1>5, FireKeepsSignals, EndKeepsSignals, TimeoutKeepsSignals,
       WorkKeepsSignals DEF Next, Delete, Disabled, Enable, watcher, server
  <1> QED
    BY <1>4, <1>5 DEF vars, watcher, server

---------------------------------------------------------------------------
(* The theorems *)

\* The gate of a JSONL file never closes over a session that is only indexed, and a
\* gate that is set has its row; a scan holds a fingerprint and contents the file
\* has had; a provider waits once, and only while monitoring runs; a scan that is
\* awaited holds the flag unless an overlapping one has cleared it; and a change no
\* scan has compared yet is in a timer or in a list that the end of a scan drains.
THEOREM GatesStayOpen == Spec => []ScanInv
  <1>1. Init => ScanInv
    BY InitInv DEF Init, SignalsAreKept, ScanInv
  <1>2. ScanInv /\ [Next]_vars => ScanInv'
    BY NextKeeps, NextKeepsSignals DEF ScanInv
  <1> QED
    BY <1>1, <1>2, PTL DEF Spec

\* When monitoring is off, no automatic scan of sessions is in flight, neither an
\* abandoned one nor one that lost the flag to a POST; what may still be is a scan
\* of team sources, and only if it lost the flag.
THEOREM MonitoringEndsQuiet == Spec => []OffIsQuiet
  <1>1. ScanInv => OffIsQuiet
    BY DEF ScanInv, ScanCore, TasksAreAwaited, Quiet, OffIsQuiet
  <1> QED
    BY <1>1, GatesStayOpen, PTL

\* A step that commits the gate of a JSONL file has the row at least as new.
LEMMA CommitNotAhead ==
  ASSUME ScanCore, Next, NEW f \in Jsonl, gate'[f] \notin {gate[f], NoGate}, NEW x \in In(f)
  PROVE  rows'[x] >= gate'[f].fp
  <1> USE ScanAssumption
  <1>0. /\ f \in Files /\ f \notin Sqlite /\ gate \in [Files -> [fp : Nat, key : Sessions \cup {NoSession}]]
        /\ rows \in [Sessions -> Nat \cup {NoRow}] /\ x \in Sessions
    BY DEF Files, ScanCore, TypeOK, In
  <1>1. \/ \E w \in Workers : StoreSession(w)
        \/ \E y \in Deletable : Delete(y)
    BY DEF Next, Write, Fire, Post, Body, PostRejected, PostBody, Read, TeamScanned, End, Timeout, Detail,
           Disable, Settling, Disabled, Enable, Restart, stored
  <1>2. ASSUME NEW y \in Deletable, Delete(y) PROVE FALSE
    BY <1>0, <1>2 DEF Delete
  <1>3. ASSUME NEW w \in Workers, StoreSqlite(w) \/ StoreSqliteDetail(w) PROVE FALSE
    <2>1. work[w].file \in Sqlite
      BY <1>3 DEF StoreSqlite, StoreSqliteDetail, ScanCore, ReadsAreSound, ReadIsSound
    <2>2. CASE StoreSqliteDetail(w)
      BY <2>1, <2>2, <1>0 DEF StoreSqliteDetail
    <2>3. CASE StoreSqlite(w)
      BY <2>1, <2>3, <1>0 DEF StoreSqlite
    <2> QED
      BY <2>2, <2>3, <1>3
  <1>4. ASSUME NEW w \in Workers, StoreJsonl(w) PROVE rows'[x] >= gate'[f].fp
    <2>1. work[w].pc = "reading" /\ work[w] \in Scan
      BY <1>4 DEF StoreJsonl, ScanCore, TypeOK
    <2>2. PICK y \in In(work[w].file) :
            /\ rows' = [rows EXCEPT ![y] = work[w].seen[y]]
            /\ gate' = [gate EXCEPT ![work[w].file] = [fp |-> work[w].fp, key |-> y]]
      BY <1>4 DEF StoreJsonl
    <2>3. work[w].file = f /\ gate'[f].fp = work[w].fp
      BY <1>0, <2>2
    <2>4. y = x /\ work[w].fp <= work[w].seen[x]
      BY <2>1, <2>2, <2>3 DEF ScanCore, ReadsAreSound, ReadIsSound
    <2> QED
      BY <1>0, <2>1, <2>2, <2>3, <2>4 DEF Scan
  <1> QED
    BY <1>1, <1>2, <1>3, <1>4 DEF StoreSession

\* The step that commits the gate of a JSONL file leaves a row at least as new as the
\* fingerprint it commits, whatever is appended between fingerprint, read and store,
\* and whichever of two overlapping scans ends last.
THEOREM CommittedGateHasItsRow == Spec => GateNotAhead
  <1>1. ScanInv /\ [Next]_vars =>
          [\A f \in Jsonl : gate'[f] \notin {gate[f], NoGate} =>
              \A x \in In(f) : rows'[x] >= gate'[f].fp]_vars
    BY CommitNotAhead DEF ScanInv, vars, stored
  <1> QED
    BY <1>1, GatesStayOpen, PTL DEF Spec, GateNotAhead

---------------------------------------------------------------------------
(* TaskHydrator: sets of jobs and members are finite.                      *)

LEMMA SlotFacts ==
  /\ MaxLoads \in Nat /\ MaxLeases \in Nat /\ MaxJobs \in Nat /\ Slots = 1..(MaxLoads + 1)
  /\ 0 \notin Slots /\ IsFiniteSet(Slots) /\ Cardinality(Slots) = MaxLoads + 1
  <1>1. MaxLoads \in Nat /\ MaxLeases \in Nat /\ MaxJobs \in Nat
    BY HydratorAssumption
  <1>2. /\ IsFiniteSet(1..(MaxLoads + 1))
        /\ Cardinality(1..(MaxLoads + 1)) = IF 1 > MaxLoads + 1 THEN 0 ELSE (MaxLoads + 1) - 1 + 1
    <2>1. 1 \in Int /\ MaxLoads + 1 \in Int
      BY <1>1
    <2> QED
      BY <2>1, FS_Interval
  <1> QED
    BY <1>1, <1>2 DEF Slots

LEMMA FiniteKeys ==
  ASSUME NEW S \in SUBSET Keys
  PROVE  IsFiniteSet(S) /\ Cardinality(S) \in Nat
  BY HydratorAssumption, FS_Subset, FS_CardinalityType

LEMMA FiniteJobs ==
  ASSUME NEW S \in SUBSET JobIds
  PROVE  IsFiniteSet(S) /\ Cardinality(S) \in Nat
  <1>1. IsFiniteSet(JobIds)
    BY HydratorAssumption, SlotFacts, FS_Product DEF JobIds
  <1> QED
    BY <1>1, FS_Subset, FS_CardinalityType

LEMMA IdFacts ==
  /\ \A i \in JobIds : i[1] \in Keys /\ i[2] \in Slots /\ i = <<i[1], i[2]>>
  /\ \A k \in Keys, n \in Slots : /\ <<k, n>> \in JobIds
                                  /\ <<k, n>>[1] = k /\ <<k, n>>[2] = n
  BY DEF JobIds

LEMMA NothingFacts ==
  /\ NoJob \in Job /\ NoJob.owners = {} /\ ~NoJob.aborted /\ ~NoJob.active
  /\ [NoJob EXCEPT !.owners = {}, !.aborted = FALSE] = NoJob
  /\ Unsubscribed \in Lease /\ Unsubscribed.status = "new"
  <1>1. NoJob \in Job /\ NoJob.owners = {} /\ ~NoJob.aborted /\ ~NoJob.active
    BY DEF NoJob, Job
  <1>2. [NoJob EXCEPT !.owners = {}, !.aborted = FALSE] = NoJob
    <2>1. \A x \in Job : x.owners = {} /\ x.aborted = FALSE => [x EXCEPT !.owners = {}, !.aborted = FALSE] = x
      BY DEF Job
    <2>2. NoJob.aborted = FALSE
      BY DEF NoJob
    <2>3. NoJob.owners = {} /\ NoJob.aborted = FALSE => [NoJob EXCEPT !.owners = {}, !.aborted = FALSE] = NoJob
      BY <1>1, <2>1
    <2> QED
      BY <1>1, <2>2, <2>3
  <1>3. [t \in Tasks |-> 0] \in [Tasks -> Nat]
    OBVIOUS
  <1>4. Unsubscribed \in Lease /\ Unsubscribed.status = "new"
    BY <1>3 DEF Unsubscribed, Lease
  <1> QED
    BY <1>1, <1>2, <1>4

---------------------------------------------------------------------------
(* Where a subscription puts a member.                                     *)

\* The bound on the loads leaves a slot, whichever jobs for the member are still
\* loading though everybody has left them.
LEMMA FreeSlot ==
  ASSUME HydratorInv, NEW k \in Keys,
         ~(jobs[k] # 0 /\ ~job[<<k, jobs[k]>>].aborted)
  PROVE  \E n \in Slots : job[<<k, n>>] = NoJob
  <1> SUFFICES ASSUME \A n \in Slots : job[<<k, n>>] # NoJob PROVE FALSE
    OBVIOUS
  <1>1. \A n \in Slots : <<k, n>> \in Running
    <2> TAKE n \in Slots
    <2>1. <<k, n>> \in JobIds /\ <<k, n>>[1] = k /\ <<k, n>>[2] = n /\ n # 0
      BY IdFacts, SlotFacts
    <2>2. job[<<k, n>>].owners = {}
      BY <2>1 DEF HydratorInv, PendingIsOwed
    <2>3. job[<<k, n>>].active
      BY <2>1, <2>2 DEF HydratorInv, JobsAreWanted
    <2> QED
      BY <2>1, <2>3 DEF Running
  <1>2. {k} \X Slots \in SUBSET Running /\ Running \in SUBSET JobIds
    BY <1>1 DEF Running
  <1>3. IsFiniteSet(Running) /\ Cardinality(Running) \in Nat
    BY <1>2, FiniteJobs
  <1>4. Cardinality({k} \X Slots) <= Cardinality(Running)
    BY <1>2, <1>3, FS_Subset
  <1>5. IsFiniteSet({k}) /\ Cardinality({k}) = 1
    BY FS_Singleton
  <1>6. Cardinality({k} \X Slots) = Cardinality({k}) * Cardinality(Slots)
    BY <1>5, SlotFacts, FS_Product
  <1>7. Cardinality(Running) <= MaxLoads
    BY DEF HydratorInv, HydratorTypeOK
  <1> QED
    BY <1>3, <1>4, <1>5, <1>6, <1>7, SlotFacts

LEMMA TargetFacts ==
  ASSUME HydratorInv, NEW k \in Keys
  PROVE  /\ Target(k) \in Slots /\ Target(k) # 0 /\ <<k, Target(k)>> \in JobIds
         /\ \/ job[<<k, Target(k)>>] = NoJob
            \/ jobs[k] = Target(k) /\ ~job[<<k, Target(k)>>].aborted
         /\ \A n \in Slots : job[<<k, n>>].owners # {} => n = Target(k)
  <1>0. \A n \in Slots : <<k, n>> \in JobIds /\ <<k, n>>[1] = k /\ <<k, n>>[2] = n
    BY IdFacts
  <1>1. CASE jobs[k] # 0 /\ ~job[<<k, jobs[k]>>].aborted
    <2>1. Target(k) = jobs[k]
      BY <1>1 DEF Target
    <2>2. jobs[k] \in Slots
      BY <1>1 DEF HydratorInv, HydratorTypeOK
    <2>3. \A n \in Slots : job[<<k, n>>].owners # {} => n = jobs[k]
      BY <1>0 DEF HydratorInv, PendingIsOwed
    <2> QED
      BY <1>0, <1>1, <2>1, <2>2, <2>3
  <1>2. CASE ~(jobs[k] # 0 /\ ~job[<<k, jobs[k]>>].aborted)
    <2>1. Target(k) = CHOOSE n \in Slots : job[<<k, n>>] = NoJob
      BY <1>2 DEF Target
    <2>2. \E n \in Slots : job[<<k, n>>] = NoJob
      BY <1>2, FreeSlot
    <2>3. Target(k) \in Slots /\ job[<<k, Target(k)>>] = NoJob
      BY <2>1, <2>2
    <2>4. \A n \in Slots : job[<<k, n>>].owners = {}
      BY <1>0, <1>2, SlotFacts DEF HydratorInv, PendingIsOwed
    <2> QED
      BY <1>0, <2>3, <2>4, SlotFacts
  <1> QED
    BY <1>1, <1>2

---------------------------------------------------------------------------
(* Pages that leave.                                                       *)

Owed(l, t) == {i \in JobIds : <<l, t>> \in job[i].owners}

\* The pages L leave, for whatever reason, and nothing else happens.
Leaves(L) ==
    /\ L \subseteq Open /\ lease' \in [Leases -> Lease]
    /\ \A l \in Leases : IF l \in L THEN lease'[l].status \in {"left", "cancelled"}
                                    ELSE lease'[l] = lease[l]
    /\ UNCHANGED <<loaded, scheduled>>
    /\ closed' \in BOOLEAN /\ (closed' => closed \/ L = Open)

LEMMA LeavesKeeps ==
  ASSUME HydratorInv, NEW L, Leaves(L), Abandon(L)
  PROVE  HydratorInv' /\ (DoneIsComplete => DoneIsComplete')
  <1> DEFINE owners(i) == {o \in job[i].owners : o[1] \notin L}
             lost(i) == job[i].owners # {} /\ owners(i) = {}
  <1>0. HydratorTypeOK /\ PendingIsOwed /\ JobsAreWanted /\ EndsAreReported
    BY DEF HydratorInv
  <1>1. /\ L \subseteq Open /\ lease' \in [Leases -> Lease] /\ closed' \in BOOLEAN
        /\ \A l \in Leases : IF l \in L THEN lease'[l].status \in {"left", "cancelled"}
                                        ELSE lease'[l] = lease[l]
        /\ loaded' = loaded /\ scheduled' = scheduled /\ (closed' => closed \/ L = Open)
    BY DEF Leaves
  <1>2. Open' = Open \ L /\ \A l \in Open' : l \in Leases /\ l \notin L /\ lease'[l] = lease[l]
    BY <1>1 DEF Open
  <1>3. /\ job' = [i \in JobIds |->
                     IF lost(i) /\ ~job[i].active THEN NoJob
                     ELSE [job[i] EXCEPT !.owners = owners(i), !.aborted = @ \/ lost(i)]]
        /\ jobs' = [k \in Keys |->
                     IF jobs[k] # 0 /\ lost(<<k, jobs[k]>>) /\ ~job[<<k, jobs[k]>>].active
                     THEN 0 ELSE jobs[k]]
    BY DEF Abandon
  <1>4. ASSUME NEW i \in JobIds
        PROVE  /\ job'[i] \in Job /\ job'[i].owners = owners(i) /\ (job'[i].active <=> job[i].active)
               /\ job[i].owners # {} /\ owners(i) # {} /\ ~job[i].aborted => ~job'[i].aborted
               /\ job'[i] # NoJob => job'[i].active \/ job'[i].owners # {}
    <2>1. job[i] \in Job
      BY <1>0 DEF HydratorTypeOK
    <2>2. CASE lost(i) /\ ~job[i].active
      BY <2>2, <1>3, NothingFacts
    <2>3. CASE ~(lost(i) /\ ~job[i].active)
      <3>1. job'[i] = [job[i] EXCEPT !.owners = owners(i), !.aborted = @ \/ lost(i)]
        BY <1>3, <2>3
      <3>2. PICK b \in BOOLEAN : b <=> job[i].aborted \/ lost(i)
        OBVIOUS
      <3>3. (job[i].aborted \/ lost(i)) = b
        BY <3>2
      <3>4. job'[i] = [job[i] EXCEPT !.owners = owners(i), !.aborted = b]
        BY <3>1, <3>3
      <3>5. owners(i) \in SUBSET (Leases \X Tasks)
        BY <2>1 DEF Job
      <3>6. /\ job'[i] \in Job /\ job'[i].owners = owners(i) /\ job'[i].active = job[i].active
            /\ job'[i].aborted = b
        BY <2>1, <3>4, <3>5 DEF Job
      <3>7. ASSUME ~job'[i].active, job'[i].owners = {} PROVE job'[i] = NoJob
        <4>1. ~lost(i) /\ job[i].owners = {} /\ ~job[i].active
          BY <2>3, <3>6, <3>7
        <4>2. job[i] = NoJob
          BY <1>0, <4>1 DEF JobsAreWanted
        <4>3. b = FALSE /\ owners(i) = {}
          BY <3>2, <4>1, <4>2, NothingFacts
        <4> QED
          BY <3>4, <4>2, <4>3, NothingFacts
      <3> QED
        BY <3>2, <3>6, <3>7
    <2> QED
      BY <2>2, <2>3
  <1>5. \A k \in Keys : jobs'[k] \in {0} \cup Slots /\ (jobs'[k] # 0 => jobs'[k] = jobs[k])
    BY <1>0, <1>3 DEF HydratorTypeOK
  <1>6. Running' = Running
    BY <1>4 DEF Running
  <1>7. HydratorTypeOK'
    <2>1. job' \in [JobIds -> Job] /\ jobs' \in [Keys -> {0} \cup Slots]
      BY <1>3, <1>4, <1>5
    <2>2. IsFiniteSet(Open') /\ Cardinality(Open') <= MaxLeases
      <3>1. /\ IsFiniteSet(Open) /\ Cardinality(Open) <= MaxLeases /\ Open' \in SUBSET Open
            /\ MaxLeases \in Nat
        BY <1>0, <1>2, SlotFacts DEF HydratorTypeOK
      <3>2. IsFiniteSet(Open') /\ Cardinality(Open') <= Cardinality(Open)
        BY <3>1, FS_Subset
      <3>3. Cardinality(Open') \in Nat /\ Cardinality(Open) \in Nat
        BY <3>1, <3>2, FS_CardinalityType
      <3> QED
        BY <3>1, <3>2, <3>3
    <2>3. Cardinality({k \in Keys : jobs'[k] # 0}) <= MaxJobs
      <3> DEFINE A == {k \in Keys : jobs[k] # 0}
                 B == {k \in Keys : jobs'[k] # 0}
      <3>1. A \in SUBSET Keys /\ B \in SUBSET A /\ B \in SUBSET Keys
        BY <1>5
      <3>2. IsFiniteSet(A) /\ Cardinality(A) \in Nat /\ Cardinality(B) \in Nat
        BY <3>1, FiniteKeys
      <3>3. Cardinality(B) <= Cardinality(A)
        BY <3>1, <3>2, FS_Subset
      <3>4. Cardinality(A) <= MaxJobs
        BY <1>0 DEF HydratorTypeOK
      <3> HIDE DEF A, B
      <3>5. Cardinality(B) <= MaxJobs
        BY <3>2, <3>3, <3>4, SlotFacts
      <3> QED
        BY <3>5 DEF B
    <2>4. Cardinality(Running') <= MaxLoads
      BY <1>0, <1>6 DEF HydratorTypeOK
    <2> QED
      BY <1>0, <1>1, <2>1, <2>2, <2>3, <2>4 DEF HydratorTypeOK
  <1>8. PendingIsOwed'
    <2>1. ASSUME NEW l \in Open', NEW t \in Tasks
          PROVE  lease'[l].pending[t] = Cardinality({i \in JobIds : <<l, t>> \in job'[i].owners})
      <3>1. {i \in JobIds : <<l, t>> \in job'[i].owners} = {i \in JobIds : <<l, t>> \in job[i].owners}
        BY <1>2, <1>4
      <3>2. lease[l].pending[t] = Cardinality({i \in JobIds : <<l, t>> \in job[i].owners})
        BY <1>0, <1>2 DEF PendingIsOwed
      <3> QED
        BY <1>2, <3>1, <3>2
    <2>2. ASSUME NEW i \in JobIds, job'[i].owners # {}
          PROVE  /\ \A o \in job'[i].owners : o[1] \in Open'
                 /\ jobs'[i[1]] = i[2] /\ ~job'[i].aborted
                 /\ job'[i].active \/ scheduled' \/ Cardinality(Running') = MaxLoads
      <3>1. owners(i) # {} /\ job[i].owners # {} /\ ~lost(i)
        BY <1>4, <2>2
      <3>2. /\ \A o \in job[i].owners : o[1] \in Open
            /\ jobs[i[1]] = i[2] /\ ~job[i].aborted
            /\ job[i].active \/ scheduled \/ Cardinality(Running) = MaxLoads
        BY <1>0, <3>1 DEF PendingIsOwed
      <3>3. \A o \in job'[i].owners : o[1] \in Open'
        BY <1>2, <1>4, <3>2
      <3>4. jobs'[i[1]] = i[2]
        <4>1. i[1] \in Keys /\ i = <<i[1], jobs[i[1]]>>
          BY <3>2, IdFacts
        <4>2. jobs'[i[1]] = jobs[i[1]]
          BY <1>3, <3>1, <4>1
        <4> QED
          BY <3>2, <4>2
      <3> QED
        BY <1>1, <1>4, <1>6, <3>1, <3>2, <3>3, <3>4
    <2> QED
      BY <2>1, <2>2 DEF PendingIsOwed
  <1>9. JobsAreWanted'
    <2>1. closed' => Open' = {}
      BY <1>0, <1>1, <1>2 DEF JobsAreWanted
    <2> QED
      BY <1>4, <2>1 DEF JobsAreWanted
  <1>10. EndsAreReported'
    BY <1>0, <1>2 DEF EndsAreReported
  <1>11. DoneIsComplete => DoneIsComplete'
    BY <1>1 DEF DoneIsComplete
  <1> QED
    BY <1>7, <1>8, <1>9, <1>10, <1>11 DEF HydratorInv

---------------------------------------------------------------------------
(* A page that joins.                                                      *)

LEMMA SubscribeKeeps ==
  ASSUME HydratorInv, NEW l \in Leases, NEW members \in Members, Subscribe(l, members)
  PROVE  HydratorInv' /\ (DoneIsComplete => DoneIsComplete')
  <1> DEFINE wanted == {m \in members : m[2] \notin loaded}
             keys == {m[2] : m \in wanted}
             of(t) == {k \in keys : <<t, k>> \in wanted}
             pending == [t \in Tasks |-> Cardinality(of(t))]
             page == [lease[l] EXCEPT !.status = IF wanted = {} THEN "done" ELSE "open",
                                      !.pending = pending, !.told = {t \in Tasks : pending[t] = 0}]
             mine(i) == IF i[1] \in keys /\ i[2] = Target(i[1])
                        THEN {l} \X {t \in Tasks : <<t, i[1]>> \in wanted} ELSE {}
  <1>0. HydratorTypeOK /\ PendingIsOwed /\ JobsAreWanted /\ EndsAreReported
    BY DEF HydratorInv
  <1>1. /\ lease[l].status = "new" /\ ~closed
        /\ Cardinality(Open) < MaxLeases
        /\ Cardinality(keys \cup {k \in Keys : jobs[k] # 0}) <= MaxJobs
        /\ lease' = [lease EXCEPT ![l] = page]
        /\ jobs' = [k \in Keys |-> IF k \in keys THEN Target(k) ELSE jobs[k]]
        /\ job' = [i \in JobIds |->
               IF i[1] \in keys /\ i[2] = Target(i[1])
               THEN [job[i] EXCEPT !.owners = @ \cup ({l} \X {t \in Tasks : <<t, i[1]>> \in wanted})]
               ELSE job[i]]
        /\ scheduled' = (scheduled \/ wanted # {})
        /\ loaded' = loaded /\ closed' = closed
    BY DEF Subscribe
  <1>2. /\ lease \in [Leases -> Lease] /\ job \in [JobIds -> Job] /\ lease[l] \in Lease
        /\ jobs \in [Keys -> {0} \cup Slots] /\ loaded \subseteq Keys
        /\ scheduled \in BOOLEAN /\ closed \in BOOLEAN
    BY <1>0 DEF HydratorTypeOK
  <1>3. /\ wanted \in SUBSET (Tasks \X Keys) /\ keys \in SUBSET Keys
        /\ \A m \in wanted : m[1] \in Tasks /\ m[2] \in keys /\ m = <<m[1], m[2]>>
    BY HydratorAssumption
  <1>4. \A t \in Tasks : of(t) \in SUBSET Keys /\ IsFiniteSet(of(t)) /\ Cardinality(of(t)) \in Nat
    BY <1>3, FiniteKeys
  <1> HIDE DEF wanted
  <1>5. /\ pending \in [Tasks -> Nat] /\ \A t \in Tasks : pending[t] = Cardinality(of(t))
    BY <1>4
  <1> HIDE DEF pending
  <1>6. /\ page \in Lease /\ page.status = (IF wanted = {} THEN "done" ELSE "open")
        /\ page.pending = pending /\ page.told = {t \in Tasks : pending[t] = 0}
    BY <1>2, <1>5 DEF Lease
  <1> HIDE DEF page
  <1>7. /\ lease' \in [Leases -> Lease] /\ lease'[l] = page
        /\ \A x \in Leases : x # l => lease'[x] = lease[x]
    BY <1>1, <1>2, <1>6
  <1>8. l \notin Open /\ Open' = IF wanted = {} THEN Open ELSE Open \cup {l}
    BY <1>1, <1>6, <1>7 DEF Open
  <1>9. \A k \in keys : /\ Target(k) \in Slots /\ <<k, Target(k)>> \in JobIds
                        /\ \/ job[<<k, Target(k)>>] = NoJob
                           \/ jobs[k] = Target(k) /\ ~job[<<k, Target(k)>>].aborted
                        /\ \A n \in Slots : job[<<k, n>>].owners # {} => n = Target(k)
    BY <1>3, TargetFacts
  <1>10. ASSUME NEW i \in JobIds
         PROVE  /\ job'[i] \in Job /\ job'[i].owners = job[i].owners \cup mine(i)
                /\ (job'[i].active <=> job[i].active) /\ (job'[i].aborted <=> job[i].aborted)
                /\ job[i].owners # {} => job'[i].owners # {}
                /\ job'[i] # NoJob => job[i] # NoJob \/ mine(i) # {}
    <2>1. job[i] \in Job
      BY <1>2
    <2>2. CASE i[1] \in keys /\ i[2] = Target(i[1])
      <3>1. mine(i) \in SUBSET (Leases \X Tasks) /\ job'[i] = [job[i] EXCEPT !.owners = @ \cup mine(i)]
        BY <1>1, <2>2
      <3>2. mine(i) # {}
        <4>1. PICK m \in wanted : m[2] = i[1]
          BY <2>2
        <4>2. <<l, m[1]>> \in mine(i)
          BY <1>3, <2>2, <4>1
        <4> QED
          BY <4>2
      <3> HIDE DEF mine
      <3> QED
        BY <2>1, <3>1, <3>2 DEF Job
    <2>3. CASE ~(i[1] \in keys /\ i[2] = Target(i[1]))
      BY <1>1, <2>1, <2>3
    <2> QED
      BY <2>2, <2>3
  <1>11. Running' = Running
    BY <1>10 DEF Running
  <1>12. HydratorTypeOK'
    <2>1. job' \in [JobIds -> Job] /\ jobs' \in [Keys -> {0} \cup Slots]
      BY <1>1, <1>2, <1>9, <1>10
    <2>2. IsFiniteSet(Open') /\ Cardinality(Open') <= MaxLeases
      <3>1. IsFiniteSet(Open) /\ Cardinality(Open) \in Nat
        BY <1>0, FS_CardinalityType DEF HydratorTypeOK
      <3>2. IsFiniteSet(Open \cup {l}) /\ Cardinality(Open \cup {l}) = Cardinality(Open) + 1
        BY <1>8, <3>1, FS_AddElement
      <3> QED
        BY <1>1, <1>8, <3>1, <3>2, SlotFacts
    <2>3. Cardinality({k \in Keys : jobs'[k] # 0}) <= MaxJobs
      <3>1. {k \in Keys : jobs'[k] # 0} = keys \cup {k \in Keys : jobs[k] # 0}
        BY <1>1, <1>3, <1>9, SlotFacts
      <3> QED
        BY <1>1, <3>1
    <2>4. Cardinality(Running') <= MaxLoads
      BY <1>0, <1>11 DEF HydratorTypeOK
    <2>5. scheduled' \in BOOLEAN
      BY <1>1
    <2> QED
      BY <1>1, <1>2, <1>7, <2>1, <2>2, <2>3, <2>4, <2>5 DEF HydratorTypeOK
  <1>13. PendingIsOwed'
    <2>1. ASSUME NEW x \in Open', NEW t \in Tasks
          PROVE  lease'[x].pending[t] = Cardinality({i \in JobIds : <<x, t>> \in job'[i].owners})
      <3>1. CASE x # l
        <4>1. x \in Open /\ lease'[x] = lease[x]
          BY <1>7, <1>8, <3>1 DEF Open
        <4>2. {i \in JobIds : <<x, t>> \in job'[i].owners} = {i \in JobIds : <<x, t>> \in job[i].owners}
          <5>1. \A i \in JobIds : <<x, t>> \notin mine(i)
            BY <3>1
          <5> HIDE DEF mine
          <5> QED
            BY <1>10, <5>1
        <4> QED
          BY <1>0, <4>1, <4>2 DEF PendingIsOwed
      <3>2. CASE x = l
        <4> DEFINE O == {i \in JobIds : <<l, t>> \in job'[i].owners}
                   f == [k \in of(t) |-> <<k, Target(k)>>]
        <4>1. \A i \in JobIds : <<l, t>> \notin job[i].owners
          <5>1. \A i \in JobIds : \A o \in job[i].owners : o[1] \in Open
            BY <1>0 DEF PendingIsOwed
          <5> QED
            BY <1>8, <5>1
        <4>2. \A i \in JobIds : i \in O <=> <<l, t>> \in mine(i)
          <5> HIDE DEF mine
          <5> QED
            BY <1>10, <4>1
        <4>3. \A i \in JobIds : i \in O <=> i[1] \in of(t) /\ i[2] = Target(i[1])
          BY <4>2
        <4>4. f \in Bijection(of(t), O)
          <5>1. \A k \in of(t) : <<k, Target(k)>> \in O
            <6> TAKE k \in of(t)
            <6>1. <<k, Target(k)>> \in JobIds
              BY <1>9
            <6> QED
              BY <4>3, <6>1
          <5>2. \A i \in O : i[1] \in of(t) /\ f[i[1]] = i
            BY <4>3, IdFacts
          <5> HIDE DEF O
          <5>3. f \in Injection(of(t), O)
            BY <5>1 DEF Injection, IsInjective
          <5>4. f \in Surjection(of(t), O)
            BY <5>1, <5>2 DEF Surjection
          <5> QED
            BY <5>3, <5>4 DEF Bijection
        <4>5. Cardinality(O) = Cardinality(of(t))
          <5>1. ExistsBijection(of(t), O)
            BY <4>4 DEF ExistsBijection
          <5> HIDE DEF O, of
          <5> QED
            BY <1>4, <5>1, FS_Bijection
        <4> QED
          BY <1>5, <1>6, <1>7, <3>2, <4>5
      <3> QED
        BY <3>1, <3>2
    <2>2. ASSUME NEW i \in JobIds, job'[i].owners # {}
          PROVE  /\ \A o \in job'[i].owners : o[1] \in Open'
                 /\ jobs'[i[1]] = i[2] /\ ~job'[i].aborted
                 /\ job'[i].active \/ scheduled' \/ Cardinality(Running') = MaxLoads
      <3>1. CASE i[1] \in keys /\ i[2] = Target(i[1])
        <4>1. wanted # {} /\ scheduled' /\ jobs'[i[1]] = i[2]
          BY <1>1, <1>3, <3>1
        <4>2. \A o \in mine(i) : o[1] = l
          OBVIOUS
        <4>3. \A o \in job'[i].owners : o[1] \in Open'
          <5> HIDE DEF mine
          <5>1. \A o \in job[i].owners : o[1] \in Open
            BY <1>0 DEF PendingIsOwed
          <5> QED
            BY <1>8, <1>10, <4>1, <4>2, <5>1
        <4>4. ~job'[i].aborted
          <5>1. i = <<i[1], Target(i[1])>>
            BY <3>1, IdFacts
          <5>2. job[i] = NoJob \/ ~job[i].aborted
            BY <1>9, <3>1, <5>1
          <5> QED
            BY <1>10, <5>2, NothingFacts
        <4> QED
          BY <4>1, <4>3, <4>4
      <3>2. CASE ~(i[1] \in keys /\ i[2] = Target(i[1]))
        <4>1. job'[i] = job[i]
          BY <1>1, <3>2
        <4>2. /\ \A o \in job[i].owners : o[1] \in Open
              /\ jobs[i[1]] = i[2] /\ ~job[i].aborted
              /\ job[i].active \/ scheduled \/ Cardinality(Running) = MaxLoads
          BY <1>0, <2>2, <4>1 DEF PendingIsOwed
        <4>3. i[1] \notin keys
          <5>1. i[2] \in Slots /\ i = <<i[1], i[2]>> /\ job[<<i[1], i[2]>>].owners # {}
            BY <2>2, <4>1, IdFacts
          <5> QED
            BY <1>9, <3>2, <5>1
        <4>4. jobs'[i[1]] = jobs[i[1]]
          BY <1>1, <4>3, IdFacts
        <4> QED
          BY <1>1, <1>8, <1>11, <4>1, <4>2, <4>4
      <3> QED
        BY <3>1, <3>2
    <2> QED
      BY <2>1, <2>2 DEF PendingIsOwed
  <1>14. JobsAreWanted'
    <2>1. \A i \in JobIds : job'[i] # NoJob => job'[i].active \/ job'[i].owners # {}
      <3> TAKE i \in JobIds
      <3> HIDE DEF mine
      <3> QED
        BY <1>0, <1>10 DEF JobsAreWanted
    <2> QED
      BY <1>1, <2>1 DEF JobsAreWanted
  <1>15. EndsAreReported'
    BY <1>0, <1>6, <1>7, <1>8 DEF EndsAreReported, Open
  <1>16. DoneIsComplete => DoneIsComplete'
    <2>1. page.status = "done" => page.told = Tasks
      <3> SUFFICES ASSUME wanted = {} PROVE page.told = Tasks
        BY <1>6
      <3>1. \A t \in Tasks : of(t) = {}
        OBVIOUS
      <3>2. \A t \in Tasks : pending[t] = 0
        BY <1>5, <3>1, FS_EmptySet
      <3> QED
        BY <1>6, <3>2
    <2> QED
      BY <1>7, <2>1 DEF DoneIsComplete
  <1> QED
    BY <1>12, <1>13, <1>14, <1>15, <1>16 DEF HydratorInv

---------------------------------------------------------------------------
(* A load that ends.                                                       *)

\* For a page that waits for the job i, one job fewer is owed in each of the
\* tasks its member is in.
LEMMA CountedFacts ==
  ASSUME HydratorInv, NEW i \in JobIds, NEW l \in Open
  PROVE  LET tasks == {t \in Tasks : <<l, t>> \in job[i].owners}
             c == Counted(l, tasks)
         IN  /\ c \in Lease /\ c.status \in {"open", "done"}
             /\ \A t \in Tasks : c.pending[t] = Cardinality(Owed(l, t) \ {i})
             /\ c.status = "done" => c.told = Tasks /\ \A t \in Tasks : c.pending[t] = 0
             /\ c.status = "open" => \A t \in Tasks : c.pending[t] = 0 => t \in c.told \cup c.dirty
  <1> DEFINE tasks == {t \in Tasks : <<l, t>> \in job[i].owners}
             left == [t \in Tasks |-> IF t \in tasks THEN lease[l].pending[t] - 1 ELSE lease[l].pending[t]]
             ends == {t \in tasks : left[t] = 0}
             c == Counted(l, tasks)
  <1>1. /\ l \in Leases /\ lease[l] \in Lease /\ lease[l].status = "open"
        /\ \A t \in Tasks : lease[l].pending[t] = Cardinality(Owed(l, t))
        /\ \A t \in Tasks : lease[l].pending[t] = 0 => t \in lease[l].told \/ t \in lease[l].dirty
    BY DEF HydratorInv, HydratorTypeOK, PendingIsOwed, EndsAreReported, Open, Owed
  <1>2. ASSUME NEW t \in Tasks
        PROVE  left[t] \in Nat /\ left[t] = Cardinality(Owed(l, t) \ {i})
    <2>1. Owed(l, t) \in SUBSET JobIds
      BY DEF Owed
    <2>2. IsFiniteSet(Owed(l, t)) /\ Cardinality(Owed(l, t)) \in Nat
      BY <2>1, FiniteJobs
    <2>3. i \in Owed(l, t) <=> t \in tasks
      BY DEF Owed
    <2>4. /\ IsFiniteSet(Owed(l, t) \ {i}) /\ Cardinality(Owed(l, t) \ {i}) \in Nat
          /\ Cardinality(Owed(l, t) \ {i}) = IF i \in Owed(l, t) THEN Cardinality(Owed(l, t)) - 1
                                             ELSE Cardinality(Owed(l, t))
      BY <2>2, FS_RemoveElement, FS_CardinalityType
    <2> HIDE DEF tasks
    <2> QED
      BY <1>1, <2>3, <2>4
  <1>3. left \in [Tasks -> Nat]
    BY <1>2
  <1>4. tasks \in SUBSET Tasks /\ ends \in SUBSET Tasks
    OBVIOUS
  <1>5. \A t \in Tasks : left[t] = 0 => t \in lease[l].told \cup lease[l].dirty \cup ends
    BY <1>1
  <1>6. c = IF \A t \in Tasks : left[t] = 0
            THEN [lease[l] EXCEPT !.status = "done", !.pending = left, !.dirty = {}, !.timer = FALSE,
                                  !.told = @ \cup lease[l].dirty \cup ends]
            ELSE [lease[l] EXCEPT !.pending = left, !.dirty = @ \cup ends,
                                  !.timer = @ \/ lease[l].dirty \cup ends # {}]
    BY DEF Counted
  <1> HIDE DEF left, ends, tasks
  <1>7. lease[l].told \in SUBSET Tasks /\ lease[l].dirty \in SUBSET Tasks
    BY <1>1 DEF Lease
  <1>8. CASE \A t \in Tasks : left[t] = 0
    <2>1. PICK told \in SUBSET Tasks : told = lease[l].told \cup lease[l].dirty \cup ends
      BY <1>4, <1>7
    <2>2. c = [lease[l] EXCEPT !.status = "done", !.pending = left, !.dirty = {}, !.timer = FALSE,
                               !.told = told]
      BY <1>6, <1>8, <2>1
    <2>3. /\ c \in Lease /\ c.status = "done" /\ c.pending = left /\ c.told = told
      <3> HIDE DEF c
      <3> QED
        BY <1>1, <1>3, <2>2 DEF Lease
    <2>4. told = Tasks
      BY <1>5, <1>8, <2>1
    <2> HIDE DEF c
    <2>5. /\ c \in Lease /\ c.status \in {"open", "done"}
          /\ \A t \in Tasks : c.pending[t] = Cardinality(Owed(l, t) \ {i})
          /\ c.status = "done" => c.told = Tasks /\ \A t \in Tasks : c.pending[t] = 0
          /\ c.status = "open" => \A t \in Tasks : c.pending[t] = 0 => t \in c.told \cup c.dirty
      BY <1>2, <1>8, <2>3, <2>4
    <2> QED
      BY <2>5 DEF c, tasks
  <1>9. CASE ~\A t \in Tasks : left[t] = 0
    <2>1. PICK dirty \in SUBSET Tasks : dirty = lease[l].dirty \cup ends
      BY <1>4, <1>7
    <2>2. PICK timer \in BOOLEAN : timer <=> lease[l].timer \/ lease[l].dirty \cup ends # {}
      OBVIOUS
    <2>3. c = [lease[l] EXCEPT !.pending = left, !.dirty = dirty, !.timer = timer]
      <3>1. (lease[l].timer \/ lease[l].dirty \cup ends # {}) = timer
        BY <2>2
      <3> QED
        BY <1>6, <1>9, <2>1, <3>1
    <2>4. /\ c \in Lease /\ c.status = "open" /\ c.pending = left /\ c.dirty = dirty
          /\ c.told = lease[l].told
      <3> HIDE DEF c
      <3> QED
        BY <1>1, <1>3, <2>3 DEF Lease
    <2> HIDE DEF c
    <2>5. /\ c \in Lease /\ c.status \in {"open", "done"}
          /\ \A t \in Tasks : c.pending[t] = Cardinality(Owed(l, t) \ {i})
          /\ c.status = "done" => c.told = Tasks /\ \A t \in Tasks : c.pending[t] = 0
          /\ c.status = "open" => \A t \in Tasks : c.pending[t] = 0 => t \in c.told \cup c.dirty
      BY <1>2, <1>5, <2>1, <2>4
    <2> QED
      BY <2>5 DEF c, tasks
  <1> QED
    BY <1>8, <1>9

LEMMA LoadEndsKeeps ==
  ASSUME HydratorInv, NEW i \in JobIds, NEW ok \in BOOLEAN, LoadEnds(i, ok)
  PROVE  HydratorInv' /\ (DoneIsComplete => DoneIsComplete')
  <1> DEFINE tasks(l) == {t \in Tasks : <<l, t>> \in job[i].owners}
  <1>0. HydratorTypeOK /\ PendingIsOwed /\ JobsAreWanted /\ EndsAreReported
    BY DEF HydratorInv
  <1>1. /\ job[i].active
        /\ lease' = [l \in Leases |-> IF l \in Open /\ tasks(l) # {} THEN Counted(l, tasks(l)) ELSE lease[l]]
        /\ loaded' = IF ok THEN loaded \cup {i[1]} ELSE loaded
        /\ job' = [job EXCEPT ![i] = NoJob]
        /\ jobs' = IF jobs[i[1]] = i[2] THEN [jobs EXCEPT ![i[1]] = 0] ELSE jobs
        /\ scheduled' = (scheduled \/ ~closed) /\ closed' = closed
    BY DEF LoadEnds, AfterLoad, Rescheduled
  <1>2. /\ lease \in [Leases -> Lease] /\ job \in [JobIds -> Job]
        /\ jobs \in [Keys -> {0} \cup Slots] /\ loaded \subseteq Keys
        /\ scheduled \in BOOLEAN /\ closed \in BOOLEAN
    BY <1>0 DEF HydratorTypeOK
  <1>3. /\ job'[i] = NoJob /\ \A j \in JobIds : j # i => job'[j] = job[j]
        /\ job' \in [JobIds -> Job]
    BY <1>1, <1>2, NothingFacts
  <1>4. ASSUME NEW l \in Open
        PROVE  /\ lease'[l] \in Lease /\ lease'[l].status \in {"open", "done"}
               /\ \A t \in Tasks : lease'[l].pending[t] = Cardinality(Owed(l, t) \ {i})
               /\ lease'[l].status = "done" =>
                      lease'[l].told = Tasks /\ \A t \in Tasks : lease'[l].pending[t] = 0
               /\ lease'[l].status = "open" =>
                      \A t \in Tasks : lease'[l].pending[t] = 0 => t \in lease'[l].told \cup lease'[l].dirty
    <2>1. CASE tasks(l) # {}
      <3>1. lease'[l] = Counted(l, tasks(l))
        BY <1>1, <2>1 DEF Open
      <3> DEFINE c == Counted(l, tasks(l))
      <3>2. /\ c \in Lease /\ c.status \in {"open", "done"}
            /\ \A t \in Tasks : c.pending[t] = Cardinality(Owed(l, t) \ {i})
            /\ c.status = "done" => c.told = Tasks /\ \A t \in Tasks : c.pending[t] = 0
            /\ c.status = "open" => \A t \in Tasks : c.pending[t] = 0 => t \in c.told \cup c.dirty
        BY CountedFacts
      <3> HIDE DEF c
      <3>3. lease'[l] = c
        BY <3>1 DEF c
      <3> QED
        BY <3>2, <3>3
    <2>2. CASE tasks(l) = {}
      <3>1. l \in Leases /\ lease'[l] = lease[l] /\ lease[l].status = "open" /\ lease[l] \in Lease
        BY <1>1, <1>2, <2>2 DEF Open
      <3>2. \A t \in Tasks : Owed(l, t) \ {i} = Owed(l, t)
        BY <2>2 DEF Owed
      <3>3. \A t \in Tasks : lease[l].pending[t] = Cardinality(Owed(l, t))
        BY <1>0 DEF PendingIsOwed, Owed
      <3>4. \A t \in Tasks : lease[l].pending[t] = 0 => t \in lease[l].told \/ t \in lease[l].dirty
        BY <1>0 DEF EndsAreReported
      <3> QED
        BY <3>1, <3>2, <3>3, <3>4
    <2> QED
      BY <2>1, <2>2
  <1>5. \A l \in Leases : l \notin Open => lease'[l] = lease[l]
    BY <1>1
  <1>6. lease' \in [Leases -> Lease]
    <2>1. \A l \in Leases : lease'[l] \in Lease
      BY <1>2, <1>4, <1>5
    <2>2. lease' = [l \in Leases |-> lease'[l]]
      BY <1>1
    <2> QED
      BY <2>1, <2>2
  <1>7. Open' \in SUBSET Open
    BY <1>5 DEF Open
  <1>8. Running' \in SUBSET Running /\ Running \in SUBSET JobIds
    BY <1>3, NothingFacts DEF Running
  <1>9. \A k \in Keys : jobs'[k] \in {0} \cup Slots /\ (jobs'[k] # 0 => jobs'[k] = jobs[k])
                        /\ (<<k, jobs[k]>> # i => jobs'[k] = jobs[k])
    BY <1>1, <1>2, IdFacts
  <1>10. HydratorTypeOK'
    <2>1. jobs' \in [Keys -> {0} \cup Slots]
      BY <1>1, <1>2, <1>9
    <2>2. IsFiniteSet(Open') /\ Cardinality(Open') <= MaxLeases
      <3>1. IsFiniteSet(Open) /\ Cardinality(Open) <= MaxLeases
        BY <1>0 DEF HydratorTypeOK
      <3>2. IsFiniteSet(Open') /\ Cardinality(Open') <= Cardinality(Open)
        BY <1>7, <3>1, FS_Subset
      <3>3. Cardinality(Open') \in Nat /\ Cardinality(Open) \in Nat
        BY <3>1, <3>2, FS_CardinalityType
      <3> QED
        BY <3>1, <3>2, <3>3, SlotFacts
    <2>3. Cardinality({k \in Keys : jobs'[k] # 0}) <= MaxJobs
      <3> DEFINE A == {k \in Keys : jobs[k] # 0}
                 B == {k \in Keys : jobs'[k] # 0}
      <3>1. A \in SUBSET Keys /\ B \in SUBSET A /\ B \in SUBSET Keys
        BY <1>9
      <3>2. IsFiniteSet(A) /\ Cardinality(A) \in Nat /\ Cardinality(B) \in Nat
        BY <3>1, FiniteKeys
      <3>3. Cardinality(B) <= Cardinality(A)
        BY <3>1, <3>2, FS_Subset
      <3>4. Cardinality(A) <= MaxJobs
        BY <1>0 DEF HydratorTypeOK
      <3> HIDE DEF A, B
      <3>5. Cardinality(B) <= MaxJobs
        BY <3>2, <3>3, <3>4, SlotFacts
      <3> QED
        BY <3>5 DEF B
    <2>4. Cardinality(Running') <= MaxLoads
      <3>1. Running' \in SUBSET JobIds
        BY <1>8
      <3>2. IsFiniteSet(Running) /\ Cardinality(Running) \in Nat /\ Cardinality(Running') \in Nat
        BY <1>8, <3>1, FiniteJobs
      <3>3. Cardinality(Running') <= Cardinality(Running)
        BY <1>8, <3>2, FS_Subset
      <3>4. Cardinality(Running) <= MaxLoads
        BY <1>0 DEF HydratorTypeOK
      <3> QED
        BY <3>2, <3>3, <3>4, SlotFacts
    <2>5. loaded' \subseteq Keys
      BY <1>1, <1>2, IdFacts
    <2>6. scheduled' \in BOOLEAN /\ closed' \in BOOLEAN
      BY <1>1, <1>2
    <2> QED
      BY <1>3, <1>6, <2>1, <2>2, <2>3, <2>4, <2>5, <2>6 DEF HydratorTypeOK
  <1>11. ASSUME NEW l \in Leases, NEW t \in Tasks
         PROVE  {j \in JobIds : <<l, t>> \in job'[j].owners} = Owed(l, t) \ {i}
    BY <1>3, NothingFacts DEF Owed
  <1>12. PendingIsOwed'
    <2>1. ASSUME NEW l \in Open', NEW t \in Tasks
          PROVE  lease'[l].pending[t] = Cardinality({j \in JobIds : <<l, t>> \in job'[j].owners})
      <3>1. l \in Open /\ l \in Leases
        BY <1>7 DEF Open
      <3> QED
        BY <1>4, <1>11, <3>1
    <2>2. ASSUME NEW j \in JobIds, job'[j].owners # {}
          PROVE  /\ \A o \in job'[j].owners : o[1] \in Open'
                 /\ jobs'[j[1]] = j[2] /\ ~job'[j].aborted
                 /\ job'[j].active \/ scheduled' \/ Cardinality(Running') = MaxLoads
      <3>1. j # i /\ job'[j] = job[j]
        BY <1>3, <2>2, NothingFacts
      <3>2. /\ \A o \in job[j].owners : o[1] \in Open
            /\ jobs[j[1]] = j[2] /\ ~job[j].aborted
        BY <1>0, <2>2, <3>1 DEF PendingIsOwed
      <3>3. jobs'[j[1]] = j[2]
        <4>1. j[1] \in Keys /\ j = <<j[1], jobs[j[1]]>>
          BY <3>2, IdFacts
        <4> QED
          BY <1>9, <3>1, <3>2, <4>1
      <3>4. ASSUME NEW o \in job[j].owners PROVE o[1] \in Open'
        <4>1. o[1] \in Open /\ o[1] \in Leases /\ o[2] \in Tasks /\ o = <<o[1], o[2]>>
          BY <1>2, <3>2 DEF Job
        <4>2. j \in Owed(o[1], o[2]) \ {i} /\ Owed(o[1], o[2]) \ {i} \in SUBSET JobIds
          BY <3>1, <4>1 DEF Owed
        <4>3. IsFiniteSet(Owed(o[1], o[2]) \ {i})
          BY <4>2, FiniteJobs
        <4>4. Cardinality(Owed(o[1], o[2]) \ {i}) # 0
          BY <4>2, <4>3, FS_EmptySet
        <4>5. lease'[o[1]].status = "open"
          BY <1>4, <4>1, <4>4
        <4> QED
          BY <4>1, <4>5 DEF Open
      <3>5. ~closed
        BY <1>0, <2>2, <3>1, <3>2 DEF JobsAreWanted
      <3> QED
        BY <1>1, <3>1, <3>2, <3>3, <3>4, <3>5
    <2> QED
      BY <2>1, <2>2 DEF PendingIsOwed
  <1>13. JobsAreWanted'
    <2>1. closed' => Open' = {}
      BY <1>0, <1>1, <1>7 DEF JobsAreWanted
    <2> QED
      BY <1>0, <1>3, <2>1 DEF JobsAreWanted
  <1>14. EndsAreReported'
    <2> SUFFICES ASSUME NEW l \in Open', NEW t \in Tasks, lease'[l].pending[t] = 0
                 PROVE  t \in lease'[l].told \/ t \in lease'[l].dirty
      BY DEF EndsAreReported
    <2>1. l \in Open /\ lease'[l].status = "open"
      BY <1>7 DEF Open
    <2> QED
      BY <1>4, <2>1
  <1>15. DoneIsComplete => DoneIsComplete'
    BY <1>4, <1>5 DEF DoneIsComplete
  <1> QED
    BY <1>10, <1>12, <1>13, <1>14, <1>15 DEF HydratorInv

---------------------------------------------------------------------------
(* The other steps, and the theorems.                                      *)

LEMMA LeaveKeeps ==
  ASSUME HydratorInv, NEW l \in Leases, Leave(l) \/ Cancel(l)
  PROVE  HydratorInv' /\ (DoneIsComplete => DoneIsComplete')
  <1>1. PICK s \in {"left", "cancelled"} :
            lease' = [lease EXCEPT ![l] = [Unsubscribed EXCEPT !.status = s]]
    BY DEF Leave, Cancel
  <1>2. /\ l \in Open /\ Abandon({l})
        /\ loaded' = loaded /\ scheduled' = scheduled /\ closed' = closed
    BY DEF Leave, Cancel
  <1>3. [Unsubscribed EXCEPT !.status = s] \in Lease /\ [Unsubscribed EXCEPT !.status = s].status = s
    BY NothingFacts DEF Lease
  <1>4. lease \in [Leases -> Lease] /\ closed \in BOOLEAN
    BY DEF HydratorInv, HydratorTypeOK
  <1>5. Leaves({l})
    BY <1>1, <1>2, <1>3, <1>4 DEF Leaves
  <1> QED
    BY <1>2, <1>5, LeavesKeeps

LEMMA CloseKeeps ==
  ASSUME HydratorInv, Close
  PROVE  HydratorInv' /\ (DoneIsComplete => DoneIsComplete')
  <1>1. /\ closed' = TRUE /\ Abandon(Open) /\ loaded' = loaded /\ scheduled' = scheduled
        /\ lease' = [l \in Leases |-> IF l \in Open
                                      THEN [Unsubscribed EXCEPT !.status = "cancelled"]
                                      ELSE lease[l]]
    BY DEF Close
  <1>2. /\ [Unsubscribed EXCEPT !.status = "cancelled"] \in Lease
        /\ [Unsubscribed EXCEPT !.status = "cancelled"].status = "cancelled"
    BY NothingFacts DEF Lease
  <1>3. lease \in [Leases -> Lease]
    BY DEF HydratorInv, HydratorTypeOK
  <1>4. Leaves(Open)
    BY <1>1, <1>2, <1>3 DEF Leaves
  <1> QED
    BY <1>1, <1>4, LeavesKeeps

LEMMA FlushKeeps ==
  ASSUME HydratorInv, NEW l \in Leases, Flush(l)
  PROVE  HydratorInv' /\ (DoneIsComplete => DoneIsComplete')
  <1>0. HydratorTypeOK /\ PendingIsOwed /\ JobsAreWanted /\ EndsAreReported
    BY DEF HydratorInv
  <1>1. /\ l \in Open /\ lease \in [Leases -> Lease] /\ lease[l] \in Lease
        /\ lease' = [lease EXCEPT ![l] =
               [lease[l] EXCEPT !.timer = FALSE, !.told = @ \cup lease[l].dirty, !.dirty = {}]]
        /\ job' = job /\ jobs' = jobs /\ loaded' = loaded /\ scheduled' = scheduled /\ closed' = closed
    BY <1>0 DEF Flush, HydratorTypeOK
  <1>2. PICK told \in SUBSET Tasks : told = lease[l].told \cup lease[l].dirty
    BY <1>1 DEF Lease
  <1>3. /\ lease'[l] \in Lease /\ lease'[l].status = "open" /\ lease'[l].pending = lease[l].pending
        /\ lease'[l].told = told
    <2>1. lease'[l] = [lease[l] EXCEPT !.timer = FALSE, !.told = lease[l].told \cup lease[l].dirty,
                                       !.dirty = {}]
      BY <1>1
    <2>2. lease'[l] = [lease[l] EXCEPT !.timer = FALSE, !.told = told, !.dirty = {}]
      BY <1>2, <2>1
    <2>3. lease[l].status = "open"
      BY <1>1 DEF Open
    <2> QED
      BY <1>1, <2>2, <2>3 DEF Lease
  <1>4. (\A x \in Leases : x # l => lease'[x] = lease[x]) /\ lease' \in [Leases -> Lease]
    <2>1. lease' = [lease EXCEPT ![l] = lease'[l]]
      BY <1>1
    <2> QED
      BY <1>1, <1>3, <2>1
  <1>5. Open' = Open /\ Running' = Running
    BY <1>1, <1>3, <1>4 DEF Open, Running
  <1>6. HydratorTypeOK'
    BY <1>0, <1>1, <1>3, <1>4, <1>5 DEF HydratorTypeOK
  <1>7. PendingIsOwed'
    <2>1. \A x \in Open' : x \in Open /\ lease'[x].pending = lease[x].pending
      BY <1>3, <1>4, <1>5 DEF Open
    <2> QED
      BY <1>0, <1>1, <1>5, <2>1 DEF PendingIsOwed
  <1>8. JobsAreWanted' /\ EndsAreReported'
    <2>1. \A x \in Open' : x \in Open /\ (x # l => lease'[x] = lease[x])
      BY <1>3, <1>4, <1>5 DEF Open
    <2> QED
      BY <1>0, <1>1, <1>2, <1>3, <1>4, <1>5, <2>1 DEF JobsAreWanted, EndsAreReported
  <1>9. DoneIsComplete => DoneIsComplete'
    BY <1>3, <1>4 DEF DoneIsComplete
  <1> QED
    BY <1>6, <1>7, <1>8, <1>9 DEF HydratorInv

\* Either everything that waits is admitted, or the limit is reached.
LEMMA ScheduleKeeps ==
  ASSUME HydratorInv, Schedule
  PROVE  HydratorInv' /\ (DoneIsComplete => DoneIsComplete')
  <1> DEFINE ready == {i \in JobIds : jobs[i[1]] = i[2] /\ ~job[i].active
                                    /\ job[i].owners # {} /\ ~job[i].aborted}
             room == MaxLoads - Cardinality(Running)
  <1>0. HydratorTypeOK /\ PendingIsOwed /\ JobsAreWanted /\ EndsAreReported
    BY DEF HydratorInv
  <1>1. /\ scheduled' = FALSE /\ lease' = lease /\ jobs' = jobs /\ loaded' = loaded
        /\ closed' = closed
    BY DEF Schedule
  <1>2. Open' = Open
    BY <1>1 DEF Open
  <1>3. job \in [JobIds -> Job]
    BY <1>0 DEF HydratorTypeOK
  <1>4. PICK some \in SUBSET ready :
            /\ IF closed THEN some = {} ELSE Cardinality(some) <= room
                                            /\ (some = ready \/ Cardinality(some) = room)
            /\ job' = [i \in JobIds |-> IF i \in some THEN [job[i] EXCEPT !.active = TRUE] ELSE job[i]]
    <2>1. CASE closed
      <3>1. job' = job
        BY <2>1 DEF Schedule
      <3>2. job' = [i \in JobIds |-> IF i \in {} THEN [job[i] EXCEPT !.active = TRUE] ELSE job[i]]
        BY <1>3, <3>1
      <3>3. {} \in SUBSET ready
        OBVIOUS
      <3> HIDE DEF ready
      <3> WITNESS {} \in SUBSET ready
      <3> QED
        BY <2>1, <3>2
    <2>2. CASE ~closed
      <3>1. \E some \in SUBSET ready :
               /\ Cardinality(some) <= room /\ (some = ready \/ Cardinality(some) = room)
               /\ job' = [i \in JobIds |-> IF i \in some THEN [job[i] EXCEPT !.active = TRUE]
                                           ELSE job[i]]
        BY <2>2 DEF Schedule
      <3>2. PICK some \in SUBSET ready :
               /\ Cardinality(some) <= room /\ (some = ready \/ Cardinality(some) = room)
               /\ job' = [i \in JobIds |-> IF i \in some THEN [job[i] EXCEPT !.active = TRUE]
                                           ELSE job[i]]
        BY <3>1
      <3>3. IF closed THEN some = {} ELSE Cardinality(some) <= room
                                          /\ (some = ready \/ Cardinality(some) = room)
        BY <2>2, <3>2
      <3> HIDE DEF ready, room
      <3> QED
        BY <3>2, <3>3
    <2> QED
      BY <2>1, <2>2
  <1>5. ASSUME NEW i \in JobIds
        PROVE  /\ job'[i] \in Job /\ job'[i].owners = job[i].owners
               /\ (job'[i].aborted <=> job[i].aborted)
               /\ (job'[i].active <=> job[i].active \/ i \in some)
               /\ (i \notin some => job'[i] = job[i])
    <2>1. job[i] \in Job
      BY <1>3
    <2>2. CASE i \in some
      <3>1. job'[i] = [job[i] EXCEPT !.active = TRUE]
        BY <1>4, <2>2
      <3> QED
        BY <2>1, <2>2, <3>1 DEF Job
    <2>3. CASE i \notin some
      BY <1>4, <2>1, <2>3
    <2> QED
      BY <2>2, <2>3
  <1>6. /\ some \in SUBSET JobIds /\ Running \in SUBSET JobIds /\ Running \cap some = {}
        /\ Running' = Running \cup some
    BY <1>5 DEF Running
  <1>7. /\ IsFiniteSet(Running) /\ Cardinality(Running) \in Nat
        /\ IsFiniteSet(some) /\ Cardinality(some) \in Nat
    BY <1>6, FiniteJobs
  <1>8. Cardinality(Running') = Cardinality(Running) + Cardinality(some)
    <2>1. Cardinality(Running \cup some)
              = Cardinality(Running) + Cardinality(some) - Cardinality(Running \cap some)
      BY <1>7, FS_Union
    <2>2. Cardinality(Running \cap some) = 0
      BY <1>6, FS_EmptySet
    <2>3. Cardinality(Running') = Cardinality(Running \cup some)
      BY <1>6
    <2> QED
      BY <1>7, <2>1, <2>2, <2>3
  <1>9. Cardinality(Running) <= MaxLoads
    BY <1>0 DEF HydratorTypeOK
  <1>10. Cardinality(Running') <= MaxLoads
    <2>1. CASE closed
      <3>1. Cardinality(some) = 0
        BY <1>4, <2>1, FS_EmptySet
      <3> QED
        BY <1>7, <1>8, <1>9, <3>1, SlotFacts
    <2>2. CASE ~closed
      <3>1. Cardinality(some) <= MaxLoads - Cardinality(Running)
        BY <1>4, <2>2
      <3> QED
        BY <1>7, <1>8, <3>1, SlotFacts
    <2> QED
      BY <2>1, <2>2
  <1>11. HydratorTypeOK'
    <2>1. job' \in [JobIds -> Job]
      BY <1>4, <1>5
    <2> QED
      BY <1>0, <1>1, <1>2, <1>10, <2>1 DEF HydratorTypeOK
  <1>12. PendingIsOwed'
    <2>1. ASSUME NEW l \in Open', NEW t \in Tasks
          PROVE  lease'[l].pending[t] = Cardinality({i \in JobIds : <<l, t>> \in job'[i].owners})
      <3>1. {i \in JobIds : <<l, t>> \in job'[i].owners} = {i \in JobIds : <<l, t>> \in job[i].owners}
        BY <1>5
      <3>2. lease[l].pending[t] = Cardinality({i \in JobIds : <<l, t>> \in job[i].owners})
        BY <1>0, <1>2 DEF PendingIsOwed
      <3> QED
        BY <1>1, <3>1, <3>2
    <2>2. ASSUME NEW i \in JobIds, job'[i].owners # {}
          PROVE  /\ \A o \in job'[i].owners : o[1] \in Open'
                 /\ jobs'[i[1]] = i[2] /\ ~job'[i].aborted
                 /\ job'[i].active \/ Cardinality(Running') = MaxLoads
      <3>1. /\ \A o \in job[i].owners : o[1] \in Open
            /\ jobs[i[1]] = i[2] /\ ~job[i].aborted /\ job[i].owners # {}
        BY <1>0, <1>5, <2>2 DEF PendingIsOwed
      <3>2. ~closed
        BY <1>0, <3>1 DEF JobsAreWanted
      <3>3. some = ready \/ Cardinality(some) = MaxLoads - Cardinality(Running)
        BY <1>4, <3>2
      <3>4. CASE some = ready
        BY <1>1, <1>2, <1>5, <3>1, <3>4
      <3>5. CASE Cardinality(some) = MaxLoads - Cardinality(Running)
        <4>1. Cardinality(Running') = MaxLoads
          BY <1>7, <1>8, <3>5, SlotFacts
        <4> QED
          BY <1>1, <1>2, <1>5, <3>1, <4>1
      <3> QED
        BY <3>3, <3>4, <3>5
    <2> QED
      BY <2>1, <2>2 DEF PendingIsOwed
  <1>13. JobsAreWanted'
    <2>1. \A i \in JobIds : job'[i] # NoJob => job'[i].active \/ job'[i].owners # {}
      BY <1>0, <1>5 DEF JobsAreWanted
    <2> QED
      BY <1>0, <1>1, <1>2, <2>1 DEF JobsAreWanted
  <1>14. EndsAreReported' /\ (DoneIsComplete => DoneIsComplete')
    BY <1>0, <1>1, <1>2 DEF EndsAreReported, DoneIsComplete
  <1> QED
    BY <1>11, <1>12, <1>13, <1>14 DEF HydratorInv

LEMMA HydratorStarts == HydratorInit => HydratorInv /\ DoneIsComplete
  <1> SUFFICES ASSUME HydratorInit PROVE HydratorInv /\ DoneIsComplete
    OBVIOUS
  <1>1. /\ lease = [l \in Leases |-> Unsubscribed] /\ job = [i \in JobIds |-> NoJob]
        /\ jobs = [k \in Keys |-> 0] /\ loaded = {} /\ scheduled = FALSE /\ closed = FALSE
    BY DEF HydratorInit
  <1>2. /\ Open = {} /\ Running = {} /\ {k \in Keys : jobs[k] # 0} = {}
    BY <1>1, NothingFacts DEF Open, Running
  <1>3. IsFiniteSet({}) /\ Cardinality({}) = 0
    BY FS_EmptySet
  <1>4. HydratorTypeOK
    <2>1. /\ lease \in [Leases -> Lease] /\ job \in [JobIds -> Job] /\ jobs \in [Keys -> {0} \cup Slots]
      BY <1>1, NothingFacts
    <2>2. /\ IsFiniteSet(Open) /\ Cardinality(Open) <= MaxLeases /\ Cardinality(Running) <= MaxLoads
          /\ Cardinality({k \in Keys : jobs[k] # 0}) <= MaxJobs
      <3>1. 0 <= MaxLeases /\ 0 <= MaxLoads /\ 0 <= MaxJobs
        BY SlotFacts
      <3> QED
        BY <1>2, <1>3, <3>1
    <2> QED
      BY <1>1, <2>1, <2>2 DEF HydratorTypeOK
  <1>5. PendingIsOwed /\ JobsAreWanted /\ EndsAreReported /\ DoneIsComplete
    BY <1>1, <1>2, NothingFacts DEF PendingIsOwed, JobsAreWanted, EndsAreReported, DoneIsComplete
  <1> QED
    BY <1>4, <1>5 DEF HydratorInv

LEMMA HydratorNextKeeps ==
  ASSUME HydratorInv, DoneIsComplete, [HydratorNext]_hydratorVars
  PROVE  HydratorInv' /\ DoneIsComplete'
  <1>1. CASE \E l \in Leases, members \in Members : Subscribe(l, members)
    BY <1>1, SubscribeKeeps
  <1>2. CASE \E l \in Leases : Leave(l) \/ Cancel(l)
    BY <1>2, LeaveKeeps
  <1>3. CASE \E l \in Leases : Flush(l)
    BY <1>3, FlushKeeps
  <1>4. CASE \E i \in JobIds, ok \in BOOLEAN : LoadEnds(i, ok)
    BY <1>4, LoadEndsKeeps
  <1>5. CASE Schedule
    BY <1>5, ScheduleKeeps
  <1>6. CASE Close
    BY <1>6, CloseKeeps
  <1>7. CASE UNCHANGED hydratorVars
    BY <1>7 DEF hydratorVars, HydratorInv, HydratorTypeOK, PendingIsOwed, JobsAreWanted,
                EndsAreReported, DoneIsComplete, Open, Running
  <1> QED
    BY <1>1, <1>2, <1>3, <1>4, <1>5, <1>6, <1>7 DEF HydratorNext

\* Whatever pages subscribe, leave, are cancelled or are closed in whatever
\* order, each open page has exactly as many members pending of a task as there
\* are live jobs that will tell it so, each of them in the map and loading, about
\* to be scheduled, or behind the limit (subscribe, release, schedule, settle).
THEOREM PendingStaysOwed == HydratorSpec => []HydratorInv
  <1>1. HydratorInit => HydratorInv /\ DoneIsComplete
    BY HydratorStarts
  <1>2. HydratorInv /\ DoneIsComplete /\ [HydratorNext]_hydratorVars => HydratorInv' /\ DoneIsComplete'
    BY HydratorNextKeeps
  <1> QED
    BY <1>1, <1>2, PTL DEF HydratorSpec

\* A page whose stream ends with "done" has been sent the final state of every
\* task it asked for: no end is lost between a due flush and the last frame
\* (settle, flush).
THEOREM LastFrameIsComplete == HydratorSpec => []DoneIsComplete
  <1>1. HydratorInit => HydratorInv /\ DoneIsComplete
    BY HydratorStarts
  <1>2. HydratorInv /\ DoneIsComplete /\ [HydratorNext]_hydratorVars => HydratorInv' /\ DoneIsComplete'
    BY HydratorNextKeeps
  <1> QED
    BY <1>1, <1>2, PTL DEF HydratorSpec
===========================================================================
