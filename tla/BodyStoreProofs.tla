--------------------------- MODULE BodyStoreProofs ---------------------------
(***************************************************************************)
(* The safety of BodyStore for every finite set of bodies and all limits:  *)
(* the accounting is exact, what is stored is what was offered, and the    *)
(* removal of originals is exclusive.                                      *)
(***************************************************************************)
EXTENDS BodyStore, FiniteSetTheorems, TLAPS

---------------------------------------------------------------------------
(* Sets of bytes *)

LEMMA Limits ==
    /\ NoBody \notin Bodies /\ IsFiniteSet(Bodies)
    /\ Quota \in Nat /\ MaxBody \in Nat /\ MaxPending \in Nat /\ MaxOperations \in Nat
    /\ \A n \in ChunkSizes : n \in Nat /\ n > 0
  BY LimitsAssumption

\* A set of numbers for every body, as pairs.
Cells(F) == UNION {{b} \X F[b] : b \in Bodies}

LEMMA CellMembers ==
  ASSUME NEW F, NEW x
  PROVE  x \in Cells(F) <=> \E b \in Bodies : \E i \in F[b] : x = <<b, i>>
  <1>1. x \in Cells(F) <=> \E b \in Bodies : x \in {b} \X F[b]
    BY DEF Cells
  <1>2. ASSUME NEW b PROVE x \in {b} \X F[b] <=> \E i \in F[b] : x = <<b, i>>
    OBVIOUS
  <1> QED
    BY <1>1, <1>2

LEMMA CellsWithin ==
  ASSUME NEW F, NEW G, \A b \in Bodies : F[b] \subseteq G[b]
  PROVE  Cells(F) \subseteq Cells(G)
  BY CellMembers

LEMMA CellsAreFinite ==
  ASSUME NEW F, \A b \in Bodies : IsFiniteSet(F[b])
  PROVE  IsFiniteSet(Cells(F))
  <1> DEFINE T == {{b} \X F[b] : b \in Bodies}
             g == [b \in Bodies |-> {b} \X F[b]]
  <1>1. g \in Surjection(Bodies, T)
    BY DEF Surjection
  <1>2. IsFiniteSet(T)
    BY <1>1, FS_Surjection, Limits
  <1>3. ASSUME NEW t \in T PROVE IsFiniteSet(t)
    <2>1. PICK b \in Bodies : t = {b} \X F[b]
      OBVIOUS
    <2> QED
      BY <2>1, FS_Singleton, FS_Product
  <1> QED
    BY <1>2, <1>3, FS_UNION DEF Cells

\* One body gains the numbers m + 1 to n.
Gains(F, G, b, m, n) ==
    /\ IsFiniteSet(Cells(G)) /\ m <= n /\ \A x \in Bodies \ {b} : F[x] = G[x]
    /\ G[b] = F[b] \cup ((m + 1)..n) /\ F[b] \cap ((m + 1)..n) = {}

LEMMA CellsGrow ==
  ASSUME NEW F, NEW G, NEW b \in Bodies, NEW m \in Nat, NEW n \in Nat, Gains(F, G, b, m, n)
  PROVE  /\ Cardinality(Cells(F)) \in Nat /\ Cardinality(Cells(G)) \in Nat
         /\ Cardinality(Cells(G)) = Cardinality(Cells(F)) + (n - m)
  <1> DEFINE I == (m + 1)..n
             K == {b} \X I
  <1>1. IsFiniteSet(I) /\ Cardinality(I) = n - m
    <2> DEFINE a == m + 1
    <2>1. a \in Int /\ n \in Int /\ (a > n => n - m = 0) /\ n - a + 1 = n - m
      BY DEF Gains
    <2>2. IsFiniteSet(a..n) /\ Cardinality(a..n) = IF a > n THEN 0 ELSE n - a + 1
      BY <2>1, FS_Interval
    <2> QED
      BY <2>1, <2>2
  <1> HIDE DEF I
  <1>2. IsFiniteSet(K) /\ Cardinality(K) = n - m
    <2>1. IsFiniteSet({b}) /\ Cardinality({b}) = 1
      BY FS_Singleton
    <2>2. IsFiniteSet(K) /\ Cardinality(K) = Cardinality({b}) * Cardinality(I)
      BY <1>1, <2>1, FS_Product
    <2>3. \A k \in Int : 1 * k = k
      OBVIOUS
    <2>4. n - m \in Int
      OBVIOUS
    <2> QED
      BY <1>1, <2>1, <2>2, <2>3, <2>4
  <1>3. \A x : x \in K <=> \E i \in I : x = <<b, i>>
    OBVIOUS
  <1> HIDE DEF K
  <1>4. /\ G[b] = F[b] \cup I /\ F[b] \cap I = {} /\ \A x \in Bodies \ {b} : F[x] = G[x]
        /\ IsFiniteSet(Cells(G))
    BY DEF I, Gains
  <1>5. Cells(G) = Cells(F) \cup K
    <2>1. ASSUME NEW x PROVE x \in Cells(G) <=> x \in Cells(F) \/ x \in K
      BY <1>3, <1>4, CellMembers
    <2> QED
      BY <2>1
  <1>6. Cells(F) \cap K = {}
    <2>1. ASSUME NEW i \in I, <<b, i>> \in Cells(F) PROVE FALSE
      BY <1>4, <2>1, CellMembers
    <2> QED
      BY <1>3, <2>1
  <1>7. IsFiniteSet(Cells(F))
    BY <1>4, <1>5, FS_Subset
  <1>8. Cardinality(Cells(F)) \in Nat /\ Cardinality(Cells(G)) \in Nat
    BY <1>4, <1>7, FS_CardinalityType
  <1>9. Cardinality(Cells(G)) = Cardinality(Cells(F)) + Cardinality(K) - Cardinality({})
    BY <1>2, <1>5, <1>6, <1>7, FS_Union
  <1> QED
    BY <1>2, <1>8, <1>9, FS_EmptySet

---------------------------------------------------------------------------
(* What is written, and what is queued *)

\* Bytes that go on where a file ends leave it a prefix.
LEMMA PrefixGrows ==
  ASSUME NEW s \in Seq(Nat), NEW n \in Nat, \A i \in 1..Len(s) : s[i] = i,
         NEW t, t = [i \in 1..n |-> Len(s) + i]
  PROVE  /\ s \o t \in Seq(Nat) /\ Len(s \o t) = Len(s) + n
         /\ \A i \in 1..Len(s \o t) : (s \o t)[i] = i
  <1>1. t \in Seq(Nat) /\ Len(t) = n
    OBVIOUS
  <1>2. s \o t \in Seq(Nat) /\ Len(s \o t) = Len(s) + n
    BY <1>1
  <1>3. \A i \in 1..(Len(s) + n) : (s \o t)[i] = IF i <= Len(s) THEN s[i] ELSE t[i - Len(s)]
    BY <1>1
  <1> QED
    BY <1>2, <1>3

LEMMA ChunkFacts ==
  ASSUME NEW c \in Nat \X Nat, c[1] <= c[2]
  PROVE  /\ c = <<c[1], c[2]>> /\ c[1] \in Nat /\ c[2] \in Nat
         /\ Size(c) \in Nat /\ Size(c) = c[2] - c[1] + 1
         /\ c[1] > 0 => Bytes(c) = [i \in 1..Size(c) |-> (c[1] - 1) + i]
         /\ c[1] > 0 => \A k \in Nat : k < Size(c) =>
                SubSeq(Bytes(c), 1, k) = [i \in 1..k |-> (c[1] - 1) + i]
  <1>1. c = <<c[1], c[2]>> /\ c[1] \in Nat /\ c[2] \in Nat
    OBVIOUS
  <1>2. Size(c) \in Nat /\ Size(c) = c[2] - c[1] + 1
    BY <1>1 DEF Size
  <1>3. ASSUME c[1] > 0 PROVE Bytes(c) = [i \in 1..Size(c) |-> (c[1] - 1) + i]
    BY <1>1, <1>2, <1>3 DEF Bytes
  <1>4. ASSUME c[1] > 0, NEW k \in Nat, k < Size(c)
        PROVE  SubSeq(Bytes(c), 1, k) = [i \in 1..k |-> (c[1] - 1) + i]
    <2> DEFINE n == Size(c)
               d == c[1] - 1
    <2> HIDE DEF n, d
    <2>1. n \in Nat /\ d \in Nat /\ k < n /\ Bytes(c) = [i \in 1..n |-> d + i]
      BY <1>1, <1>2, <1>3, <1>4 DEF n, d
    <2>2. SubSeq([i \in 1..n |-> d + i], 1, k) = [i \in 1..k |-> d + i]
      BY <2>1
    <2> QED
      BY <2>1, <2>2 DEF d
  <1> QED
    BY <1>1, <1>2, <1>3, <1>4

\* A chunk that goes on after w bytes.
Follows(c, w) == c \in Nat \X Nat /\ w \in Nat /\ c[1] = w + 1 /\ c[1] <= c[2]

LEMMA FollowingBytes ==
  ASSUME NEW c, NEW w, Follows(c, w)
  PROVE  /\ c[2] - w \in Nat /\ Bytes(c) = [i \in 1..(c[2] - w) |-> w + i]
         /\ \A k \in Nat : k < Size(c) =>
                w + k <= c[2] /\ SubSeq(Bytes(c), 1, k) = [i \in 1..k |-> w + i]
  <1>. c \in Nat \X Nat /\ c[1] <= c[2] /\ w \in Nat
    BY DEF Follows
  <1>1. c[1] \in Nat /\ c[2] \in Nat /\ Size(c) = c[2] - c[1] + 1
    BY ChunkFacts
  <1>2. c[1] > 0 /\ c[1] - 1 = w /\ Size(c) = c[2] - w /\ c[2] - w \in Nat
    BY <1>1 DEF Follows
  <1>3. Bytes(c) = [i \in 1..Size(c) |-> (c[1] - 1) + i]
    BY <1>2, ChunkFacts
  <1>4. ASSUME NEW k \in Nat, k < Size(c)
        PROVE  SubSeq(Bytes(c), 1, k) = [i \in 1..k |-> (c[1] - 1) + i]
    BY <1>2, <1>4, ChunkFacts
  <1>5. ASSUME NEW k \in Nat, k < Size(c) PROVE w + k <= c[2]
    BY <1>1, <1>2, <1>5
  <1> QED
    BY <1>2, <1>3, <1>4, <1>5

\* The bytes in a queue.
Span(q) == UNION {q[i][1]..q[i][2] : i \in DOMAIN q}

LEMMA SpanMembers ==
  ASSUME NEW q, NEW j PROVE j \in Span(q) <=> \E i \in DOMAIN q : j \in q[i][1]..q[i][2]
  BY DEF Span

\* The first chunk of a queue leaves it.
LEMMA TailFacts ==
  ASSUME NEW S, NEW q \in Seq(S), q # <<>>
  PROVE  /\ Head(q) = q[1] /\ q[1] \in S /\ 1 \in DOMAIN q /\ Len(q) \in Nat /\ Len(q) > 0
         /\ Tail(q) \in Seq(S) /\ Len(Tail(q)) = Len(q) - 1
         /\ DOMAIN Tail(q) = 1..(Len(q) - 1) /\ DOMAIN q = 1..Len(q)
         /\ \A i \in 1..(Len(q) - 1) : Tail(q)[i] = q[i + 1]
         /\ (Tail(q) = <<>> <=> Len(q) = 1)
  <1>1. /\ Head(q) = q[1] /\ q[1] \in S /\ 1 \in DOMAIN q /\ Len(q) \in Nat /\ Len(q) > 0
        /\ Tail(q) \in Seq(S) /\ Len(Tail(q)) = Len(q) - 1
        /\ DOMAIN Tail(q) = 1..(Len(q) - 1) /\ DOMAIN q = 1..Len(q)
        /\ \A i \in 1..(Len(q) - 1) : Tail(q)[i] = q[i + 1]
    OBVIOUS
  <1>2. ASSUME NEW t \in Seq(S) PROVE t = <<>> <=> Len(t) = 0
    OBVIOUS
  <1>3. Tail(q) = <<>> <=> Len(Tail(q)) = 0
    BY <1>1, <1>2
  <1> HIDE <1>2
  <1> QED
    BY <1>1, <1>3

LEMMA AppendFacts ==
  ASSUME NEW S, NEW q \in Seq(S), NEW c \in S
  PROVE  /\ Append(q, c) \in Seq(S) /\ Len(Append(q, c)) = Len(q) + 1
         /\ Len(q) \in Nat /\ DOMAIN q = 1..Len(q) /\ DOMAIN Append(q, c) = 1..(Len(q) + 1)
         /\ Append(q, c)[Len(q) + 1] = c /\ Append(q, c) # <<>>
         /\ \A i \in 1..Len(q) : Append(q, c)[i] = q[i]
  OBVIOUS

\* A chunk of n bytes joins a chain at its end.
Joins(q, c, m, n) ==
    /\ q \in Seq(Nat \X Nat) /\ m \in Nat /\ n \in Nat /\ n > 0 /\ IsChain(q, m)
    /\ c \in Nat \X Nat /\ c[1] = m + 1 /\ c[2] = m + n

\* A chain grows at its end and is worked off from its front.
LEMMA ChainGrows ==
  ASSUME NEW q, NEW c, NEW m, NEW n, Joins(q, c, m, n)
  PROVE  /\ IsChain(Append(q, c), m + n) /\ Append(q, c) # <<>>
         /\ Append(q, c)[1][1] = IF q = <<>> THEN m + 1 ELSE q[1][1]
  <1> DEFINE r == Append(q, c)
             k == Len(q)
  <1>. /\ q \in Seq(Nat \X Nat) /\ m \in Nat /\ n \in Nat /\ n > 0 /\ IsChain(q, m)
       /\ c \in Nat \X Nat /\ c[1] = m + 1 /\ c[2] = m + n
    BY DEF Joins
  <1>1. /\ r # <<>> /\ Len(r) = k + 1 /\ k \in Nat /\ DOMAIN q = 1..k /\ DOMAIN r = 1..(k + 1)
        /\ r[k + 1] = c /\ \A i \in 1..k : r[i] = q[i]
    <2>1. Len(r) = k + 1 /\ k \in Nat /\ DOMAIN q = 1..k /\ DOMAIN r = 1..(k + 1)
      OBVIOUS
    <2>2. r[k + 1] = c
      OBVIOUS
    <2>3. \A i \in 1..k : r[i] = q[i]
      OBVIOUS
    <2> HIDE DEF r, k
    <2>4. r # <<>>
      BY <2>1
    <2> QED
      BY <2>1, <2>2, <2>3, <2>4
  <1>2. /\ \A i \in 1..k : 1 <= q[i][1] /\ q[i][1] <= q[i][2] /\ q[i][2] <= m
        /\ \A i \in 1..k : q[i][1] \in Nat /\ q[i][2] \in Nat
        /\ \A i, j \in 1..k : i < j => q[i][2] < q[j][1]
        /\ \A i \in 1..k : i < k => q[i + 1][1] = q[i][2] + 1
        /\ k > 0 => q[k][2] = m
        /\ (q = <<>> <=> k = 0)
    <2>1. (q = <<>> <=> k = 0) /\ \A i \in 1..k : q[i] \in Nat \X Nat
      BY <1>1
    <2>2. \A i \in 1..k : q[i][1] \in Nat /\ q[i][2] \in Nat
      BY <2>1
    <2>3. k > 0 => q[k][2] = m
      BY <1>1, <2>1 DEF IsChain
    <2>4. \A i \in 1..k : i < k => q[i + 1][1] = q[i][2] + 1
      BY <1>1 DEF IsChain
    <2>5. /\ \A i \in 1..k : 1 <= q[i][1] /\ q[i][1] <= q[i][2] /\ q[i][2] <= m
          /\ \A i, j \in 1..k : i < j => q[i][2] < q[j][1]
      BY <1>1 DEF IsChain
    <2> QED
      BY <2>1, <2>2, <2>3, <2>4, <2>5
  <1>3. c[1] = m + 1 /\ c[2] = m + n
    OBVIOUS
  <1> HIDE DEF r, k
  <1>4. \A i \in 1..(k + 1) : i \in 1..k \/ i = k + 1
    BY <1>1
  <1>5. IsChain(r, m + n)
    <2>1. ASSUME NEW i \in 1..(k + 1) PROVE 1 <= r[i][1] /\ r[i][1] <= r[i][2] /\ r[i][2] <= m + n
      <3>1. CASE i \in 1..k
        BY <3>1, <1>1, <1>2
      <3>2. CASE i = k + 1
        BY <3>2, <1>1, <1>3
      <3> QED
        BY <3>1, <3>2, <1>4
    <2>2. ASSUME NEW i \in 1..(k + 1), NEW j \in 1..(k + 1), i < j PROVE r[i][2] < r[j][1]
      <3>1. i \in 1..k
        BY <1>1, <2>2
      <3>2. CASE j \in 1..k
        BY <2>2, <3>1, <3>2, <1>1, <1>2
      <3>3. CASE j = k + 1
        BY <3>1, <3>3, <1>1, <1>2, <1>3
      <3> QED
        BY <3>2, <3>3, <1>4
    <2>3. ASSUME NEW i \in 1..(k + 1), i < k + 1 PROVE r[i + 1][1] = r[i][2] + 1
      <3>1. i \in 1..k
        BY <1>1, <2>3
      <3>2. CASE i = k
        <4>1. r[k + 1][1] = m + 1 /\ k \in 1..k /\ r[k] = q[k] /\ q[k][2] = m
          BY <3>1, <3>2, <1>1, <1>2, <1>3
        <4> QED
          BY <3>2, <4>1
      <3>3. CASE i < k
        <4>1. i + 1 \in 1..k
          BY <3>1, <3>3, <1>1
        <4> QED
          BY <3>1, <3>3, <4>1, <1>1, <1>2
      <3> QED
        BY <3>1, <3>2, <3>3, <1>1
    <2> QED
      BY <1>1, <1>3, <2>1, <2>2, <2>3 DEF IsChain
  <1>6. r[1][1] = IF q = <<>> THEN m + 1 ELSE q[1][1]
    <2>1. k = 0 \/ 1 \in 1..k
      BY <1>1
    <2> QED
      BY <2>1, <1>1, <1>2, <1>3
  <1> QED
    BY <1>1, <1>5, <1>6 DEF r

LEMMA ChainShrinks ==
  ASSUME NEW q \in Seq(Nat \X Nat), NEW last \in Nat, IsChain(q, last), q # <<>>
  PROVE  /\ IsChain(Tail(q), last) /\ Head(q) = q[1] /\ q[1] \in Nat \X Nat
         /\ 1 <= q[1][1] /\ q[1][1] <= q[1][2] /\ q[1][2] <= last
         /\ IF Tail(q) = <<>> THEN q[1][2] = last ELSE Tail(q)[1][1] = q[1][2] + 1
  <1> DEFINE r == Tail(q)
             k == Len(q)
  <1>1. /\ Head(q) = q[1] /\ q[1] \in Nat \X Nat /\ 1 \in DOMAIN q /\ k \in Nat /\ k > 0
        /\ Len(r) = k - 1 /\ DOMAIN r = 1..(k - 1) /\ DOMAIN q = 1..k
        /\ \A i \in 1..(k - 1) : r[i] = q[i + 1]
        /\ (r = <<>> <=> k = 1)
    BY TailFacts
  <1>2. /\ \A i \in 1..k : 1 <= q[i][1] /\ q[i][1] <= q[i][2] /\ q[i][2] <= last
        /\ \A i, j \in 1..k : i < j => q[i][2] < q[j][1]
        /\ \A i \in 1..k : i < k => q[i + 1][1] = q[i][2] + 1
        /\ q[k][2] = last
    BY <1>1 DEF IsChain
  <1> HIDE DEF r, k
  <1>3. IsChain(r, last)
    <2>1. \A i \in 1..(k - 1) : i + 1 \in 1..k
      BY <1>1
    <2>2. ASSUME NEW i \in 1..(k - 1), NEW j \in 1..(k - 1), i < j PROVE r[i][2] < r[j][1]
      <3>1. i + 1 < j + 1
        BY <2>2
      <3> QED
        BY <3>1, <2>1, <1>1, <1>2
    <2>3. ASSUME NEW i \in 1..(k - 1), i < k - 1 PROVE r[i + 1][1] = r[i][2] + 1
      <3>1. i + 1 \in 1..(k - 1) /\ i + 1 \in 1..k /\ i + 1 < k
        BY <2>3, <1>1
      <3> QED
        BY <3>1, <1>1, <1>2
    <2>4. r # <<>> => r[Len(r)][2] = last
      <3>1. k # 1 => k - 1 \in 1..(k - 1) /\ (k - 1) + 1 = k
        BY <1>1
      <3> QED
        BY <3>1, <1>1, <1>2
    <2> QED
      BY <1>1, <1>2, <2>1, <2>2, <2>3, <2>4 DEF IsChain
  <1>4. IF r = <<>> THEN q[1][2] = last ELSE r[1][1] = q[1][2] + 1
    <2>1. k # 1 => 1 \in 1..(k - 1) /\ 1 < k /\ 1 \in 1..k /\ 1 + 1 = 2
      BY <1>1
    <2> QED
      BY <2>1, <1>1, <1>2
  <1> QED
    BY <1>1, <1>2, <1>3, <1>4 DEF r

---------------------------------------------------------------------------
(* The invariant and its parts *)

BodyInv == AccountingIsExact /\ StoredIsFaithful /\ RemovalIsExclusive

\* TypeOK but for the gauges, which are numbers because they count something.
Shape ==
    /\ file \in [Bodies -> {"absent", "part", "body"}]
    /\ content \in [Bodies -> Seq(Nat)] /\ queue \in [Bodies -> Seq(Nat \X Nat)]
    /\ removing \in {"no", "check", "unlink", "count"} /\ targets \subseteq Bodies
    /\ reading \subseteq Bodies /\ recovering \in Bodies \cup {NoBody}
    /\ phase \in [Bodies -> ActiveIn \cup {"new", "done", "lost"}]
    /\ status \in [Bodies -> {"complete", "interrupted", "write_error", "body_limit",
                              "quota_exceeded", "queue_full"}]
    /\ closed \in [Bodies -> BOOLEAN] /\ writeFailed \in [Bodies -> BOOLEAN]
    /\ accepted \in [Bodies -> Nat] /\ offered \in [Bodies -> Nat] /\ exact \in BOOLEAN

\* What StoredIsFaithful says of one body.
Faithful(b) ==
    /\ Written(b) <= offered[b] /\ \A i \in 1..Written(b) : content[b][i] = i
    /\ phase[b] = "done" /\ status[b] = "complete" => Written(b) = offered[b] /\ file[b] # "part"
    /\ WriterIsSound(b)

\* What usedBytes and the two queue gauges say.
Used    == UsedIsAccounted /\ usedBytes \in Nat /\ usedBytes <= Quota
Pending == PendingIsQueued /\ pendingBytes <= MaxPending /\ pendingOperations <= MaxOperations

\* The bytes of one body that count as used: what it accepted while it is
\* written, and what its file holds afterwards.
HeldOf(b) ==
    IF phase[b] \in ActiveIn THEN 1..accepted[b]
    ELSE IF file[b] # "absent" THEN 1..Written(b) ELSE {}

EachIsFaithful == \A b \in Bodies : Faithful(b)

LEMMA FaithfulEach == StoredIsFaithful <=> EachIsFaithful
  BY DEF EachIsFaithful, StoredIsFaithful, StoredIsPrefix, CompleteIsAll, Faithful

LEMMA ShapeFacts ==
  ASSUME Shape, NEW b \in Bodies
  PROVE  /\ file[b] \in {"absent", "part", "body"} /\ content[b] \in Seq(Nat)
         /\ queue[b] \in Seq(Nat \X Nat) /\ Written(b) \in Nat
         /\ phase[b] \in {"opening", "open", "unopened", "new", "done", "lost"}
         /\ closed[b] \in BOOLEAN /\ writeFailed[b] \in BOOLEAN
         /\ accepted[b] \in Nat /\ offered[b] \in Nat
  BY DEF Shape, ActiveIn, Written

HeldCells == [b \in Bodies |-> HeldOf(b)]

\* The bytes on disk and the bytes reserved, together, body by body.
HeldByBody ==
    /\ OnDisk \cup Reserved = Cells(HeldCells)
    /\ IsFiniteSet(Cells(HeldCells)) /\ IsFiniteSet(OnDisk)

LEMMA HeldIs == Shape /\ StoredIsFaithful => HeldByBody
  <1> SUFFICES ASSUME Shape, StoredIsFaithful PROVE HeldByBody
    OBVIOUS
  <1> DEFINE disk == [b \in Bodies |-> IF file[b] # "absent" THEN 1..Written(b) ELSE {}]
             kept == [b \in Bodies |-> IF phase[b] \in ActiveIn THEN (Written(b) + 1)..accepted[b] ELSE {}]
             most == [b \in Bodies |-> 1..accepted[b]]
  <1>1. OnDisk = Cells(disk)
    <2>1. \A b \in Bodies : DOMAIN content[b] = 1..Written(b)
      BY DEF Shape, Written
    <2>2. ASSUME NEW x
          PROVE  x \in OnDisk <=> \E b \in Bodies : file[b] # "absent" /\ x \in {b} \X (1..Written(b))
      BY <2>1 DEF OnDisk
    <2>3. ASSUME NEW x PROVE x \in Cells(disk) <=> \E b \in Bodies : x \in {b} \X disk[b]
      BY DEF Cells
    <2>4. ASSUME NEW x PROVE x \in OnDisk <=> x \in Cells(disk)
      BY <2>2, <2>3
    <2> QED
      BY <2>4
  <1>2. Reserved = Cells(kept)
    <2>1. ASSUME NEW x
          PROVE  x \in Reserved <=>
                    \E b \in Bodies : phase[b] \in ActiveIn /\ x \in {b} \X ((Written(b) + 1)..accepted[b])
      BY DEF Reserved
    <2>2. ASSUME NEW x PROVE x \in Cells(kept) <=> \E b \in Bodies : x \in {b} \X kept[b]
      BY DEF Cells
    <2>3. ASSUME NEW x PROVE x \in Reserved <=> x \in Cells(kept)
      BY <2>1, <2>2
    <2> QED
      BY <2>3
  <1>3. ASSUME NEW b \in Bodies
        PROVE  /\ Written(b) \in Nat /\ accepted[b] \in Nat /\ Written(b) <= accepted[b]
               /\ phase[b] \in ActiveIn => file[b] # "absent" \/ Written(b) = 0
    BY ShapeFacts DEF StoredIsFaithful, WriterIsSound, ActiveIn
  <1>4. ASSUME NEW b \in Bodies
        PROVE  /\ \A i : i \in HeldCells[b] <=> i \in disk[b] \/ i \in kept[b]
               /\ HeldCells[b] \subseteq most[b] /\ IsFiniteSet(most[b])
    <2>1. \A i : i \in HeldOf(b) <=>
              \/ file[b] # "absent" /\ i \in 1..Written(b)
              \/ phase[b] \in ActiveIn /\ i \in (Written(b) + 1)..accepted[b]
      BY <1>3 DEF HeldOf
    <2>2. HeldOf(b) \subseteq 1..accepted[b]
      BY <1>3 DEF HeldOf
    <2>3. IsFiniteSet(1..accepted[b])
      BY <1>3, FS_Interval
    <2> QED
      BY <2>1, <2>2, <2>3 DEF HeldCells
  <1> HIDE DEF disk, kept, most
  <1>5. OnDisk \cup Reserved = Cells(HeldCells)
    <2>1. ASSUME NEW x PROVE x \in Cells(HeldCells) <=> x \in Cells(disk) \/ x \in Cells(kept)
      BY <1>4, CellMembers
    <2> QED
      BY <1>1, <1>2, <2>1
  <1>6. IsFiniteSet(Cells(HeldCells))
    BY <1>4, CellsWithin, CellsAreFinite, FS_Subset
  <1> QED
    BY <1>5, <1>6, FS_Subset DEF HeldByBody

ChunkCells == [b \in Bodies |-> DOMAIN queue[b]]
ByteCells  == [b \in Bodies |-> Span(queue[b])]

\* The chunks and the bytes in the queues, body by body.
QueuedByBody ==
    /\ QueuedChunks = Cells(ChunkCells) /\ IsFiniteSet(Cells(ChunkCells))
    /\ QueuedBytes = Cells(ByteCells) /\ IsFiniteSet(Cells(ByteCells))

LEMMA QueuedIs == Shape /\ StoredIsFaithful => QueuedByBody
  <1> SUFFICES ASSUME Shape, StoredIsFaithful PROVE QueuedByBody
    OBVIOUS
  <1>1. QueuedChunks = Cells(ChunkCells)
    BY DEF QueuedChunks, Cells, ChunkCells
  <1>2. ASSUME NEW x PROVE x \in QueuedBytes <=> x \in Cells(ByteCells)
    <2>1. x \in QueuedBytes <=>
             \E y \in QueuedChunks :
                 \E j \in queue[y[1]][y[2]][1]..queue[y[1]][y[2]][2] : x = <<y[1], j>>
      BY DEF QueuedBytes
    <2>2. x \in Cells(ByteCells) <=>
             \E b \in Bodies : \E j \in ByteCells[b] : x = <<b, j>>
      BY CellMembers
    <2>3. ASSUME NEW y \in QueuedChunks, NEW j \in queue[y[1]][y[2]][1]..queue[y[1]][y[2]][2]
          PROVE  y[1] \in Bodies /\ j \in ByteCells[y[1]]
      <3>1. PICK b \in Bodies : \E i \in ChunkCells[b] : y = <<b, i>>
        BY <1>1, CellMembers
      <3>2. PICK i \in ChunkCells[b] : y = <<b, i>>
        BY <3>1
      <3>3. y[1] = b /\ y[2] = i /\ i \in DOMAIN queue[b]
        BY <3>2 DEF ChunkCells
      <3> QED
        BY <3>3, SpanMembers DEF ByteCells
    <2>4. ASSUME NEW b \in Bodies, NEW j \in ByteCells[b]
          PROVE  \E y \in QueuedChunks :
                     j \in queue[y[1]][y[2]][1]..queue[y[1]][y[2]][2] /\ <<b, j>> = <<y[1], j>>
      <3>1. PICK i \in DOMAIN queue[b] : j \in queue[b][i][1]..queue[b][i][2]
        BY SpanMembers DEF ByteCells
      <3>2. <<b, i>> \in QueuedChunks /\ <<b, i>>[1] = b /\ <<b, i>>[2] = i
        BY <1>1, CellMembers DEF ChunkCells
      <3> QED
        BY <3>1, <3>2
    <2> QED
      BY <2>1, <2>2, <2>3, <2>4
  <1>3. IsFiniteSet(Cells(ChunkCells))
    <2>1. ASSUME NEW b \in Bodies PROVE IsFiniteSet(ChunkCells[b])
      <3>1. DOMAIN queue[b] = 1..Len(queue[b]) /\ Len(queue[b]) \in Nat
        BY ShapeFacts
      <3> QED
        BY <3>1, FS_Interval DEF ChunkCells
    <2> QED
      BY <2>1, CellsAreFinite
  <1>4. IsFiniteSet(Cells(ByteCells))
    <2> DEFINE most == [b \in Bodies |-> 1..accepted[b]]
    <2>1. ASSUME NEW b \in Bodies PROVE ByteCells[b] \subseteq most[b] /\ IsFiniteSet(most[b])
      <3>1. ASSUME NEW i \in DOMAIN queue[b]
            PROVE  /\ 1 <= queue[b][i][1] /\ queue[b][i][2] <= accepted[b] /\ accepted[b] \in Nat
                   /\ queue[b][i][1] \in Nat /\ queue[b][i][2] \in Nat
        BY ShapeFacts DEF StoredIsFaithful, WriterIsSound, IsChain
      <3>2. \A i \in DOMAIN queue[b] : queue[b][i][1]..queue[b][i][2] \subseteq 1..accepted[b]
        BY <3>1
      <3> QED
        <4>1. ByteCells[b] \subseteq 1..accepted[b]
          BY <3>2, SpanMembers DEF ByteCells
        <4>2. IsFiniteSet(1..accepted[b])
          BY ShapeFacts, FS_Interval
        <4> QED
          BY <4>1, <4>2
    <2> HIDE DEF most
    <2> QED
      BY <2>1, CellsWithin, CellsAreFinite, FS_Subset
  <1> QED
    BY <1>1, <1>2, <1>3, <1>4 DEF QueuedByBody

\* The parts make up the invariant.
LEMMA Assembled ==
  Shape /\ StoredIsFaithful /\ RemovalIsExclusive /\ HoldersAreCounted /\ Used /\ Pending => BodyInv
  <1> SUFFICES ASSUME Shape, StoredIsFaithful, RemovalIsExclusive, HoldersAreCounted, Used, Pending
               PROVE  BodyInv
    OBVIOUS
  <1>1. DiskBytes \in Nat /\ DiskBytes <= usedBytes
    <2>1. /\ IsFiniteSet(OnDisk \cup Reserved) /\ OnDisk \subseteq OnDisk \cup Reserved
      BY HeldIs, FS_Subset DEF HeldByBody
    <2>2. /\ Cardinality(OnDisk \cup Reserved) \in Nat /\ Cardinality(OnDisk) \in Nat
          /\ Cardinality(OnDisk) <= Cardinality(OnDisk \cup Reserved)
      BY <2>1, FS_Subset, FS_CardinalityType
    <2> QED
      BY <2>2 DEF Used, UsedIsAccounted, DiskBytes
  <1>2. pendingBytes \in Nat /\ pendingOperations \in Nat
    BY QueuedIs, FS_CardinalityType DEF QueuedByBody, Pending, PendingIsQueued
  <1>3. activeBodies \in Nat /\ activeReaders \in Nat
    <2>1. IsFiniteSet({b \in Bodies : phase[b] \in ActiveIn}) /\ IsFiniteSet(reading)
      BY Limits, FS_Subset DEF Shape
    <2>2. /\ Cardinality({b \in Bodies : phase[b] \in ActiveIn}) \in Nat
          /\ Cardinality(reading) \in Nat
      BY <2>1, FS_CardinalityType
    <2> QED
      BY <2>2 DEF HoldersAreCounted
  <1>4. TypeOK
    BY <1>2, <1>3 DEF Shape, Used, TypeOK
  <1>5. LimitsHold
    BY <1>1, Limits DEF LimitsHold, Used, Pending
  <1> QED
    BY <1>4, <1>5 DEF BodyInv, AccountingIsExact, Used, Pending

LEMMA PartsHold ==
  BodyInv => /\ Shape /\ StoredIsFaithful /\ RemovalIsExclusive /\ HoldersAreCounted
             /\ Used /\ Pending /\ EachIsFaithful
             /\ {usedBytes, pendingBytes, pendingOperations, activeBodies, activeReaders} \subseteq Nat
  BY FaithfulEach DEF BodyInv, AccountingIsExact, TypeOK, Shape, LimitsHold, Used, Pending

---------------------------------------------------------------------------
(* What a step does to each part *)

LEMMA AllFaithful ==
  ASSUME \A b \in Bodies : Faithful(b)' PROVE StoredIsFaithful'
  <1>1. EachIsFaithful'
    BY DEF EachIsFaithful
  <1> QED
    BY <1>1, FaithfulEach, PTL

\* A body whose writer and file a step leaves alone stays as it was.
LEMMA SameBody ==
  ASSUME NEW b \in Bodies, Faithful(b),
         /\ file'[b] = file[b] /\ content'[b] = content[b] /\ phase'[b] = phase[b]
         /\ status'[b] = status[b] /\ accepted'[b] = accepted[b] /\ queue'[b] = queue[b]
         /\ writeFailed'[b] = writeFailed[b] /\ offered'[b] = offered[b]
  PROVE  Faithful(b)' /\ HeldOf(b)' = HeldOf(b)
  BY DEF Faithful, WriterIsSound, IsChain, HeldOf, Written

\* The used bytes of a step that changes nobody's.
LEMMA UsedSame ==
  ASSUME BodyInv, Shape', StoredIsFaithful', \A b \in Bodies : HeldOf(b)' = HeldOf(b),
         usedBytes' = usedBytes, exact' /\ removing' = "no" => exact /\ removing = "no"
  PROVE  Used'
  <1>1. HeldByBody /\ HeldByBody'
    BY PartsHold, HeldIs, PTL
  <1>2. HeldCells' = HeldCells
    BY DEF HeldCells
  <1>3. OnDisk' \cup Reserved' = OnDisk \cup Reserved
    BY <1>1, <1>2 DEF HeldByBody
  <1> QED
    BY <1>3, PartsHold DEF Used, UsedIsAccounted

\* Files that go during a removal leave too much counted, never too little.
LEMMA UsedShrinks ==
  ASSUME BodyInv, Shape', StoredIsFaithful', \A b \in Bodies : HeldOf(b)' \subseteq HeldOf(b),
         usedBytes' = usedBytes, removing' # "no"
  PROVE  Used'
  <1>1. HeldByBody /\ HeldByBody'
    BY PartsHold, HeldIs, PTL
  <1>2. Cells(HeldCells') \subseteq Cells(HeldCells)
    BY CellsWithin DEF HeldCells
  <1>3. /\ Cardinality(OnDisk' \cup Reserved') <= Cardinality(OnDisk \cup Reserved)
        /\ Cardinality(OnDisk' \cup Reserved') \in Nat /\ Cardinality(OnDisk \cup Reserved) \in Nat
    BY <1>1, <1>2, FS_Subset, FS_CardinalityType DEF HeldByBody
  <1> QED
    BY <1>3, PartsHold DEF Used, UsedIsAccounted

\* Bytes m + 1 to n of one body come to count as used.
LEMMA UsedGrows ==
  ASSUME BodyInv, Shape', StoredIsFaithful', NEW b \in Bodies, NEW m \in Nat, NEW n \in Nat, m <= n,
         HeldOf(b) = 1..m, HeldOf(b)' = 1..n, \A x \in Bodies \ {b} : HeldOf(x)' = HeldOf(x),
         usedBytes' = usedBytes + (n - m), usedBytes' <= Quota,
         exact' = exact, removing' = removing
  PROVE  Used'
  <1>1. HeldByBody /\ HeldByBody'
    BY PartsHold, HeldIs, PTL
  <1>2. Gains(HeldCells, HeldCells', b, m, n)
    <2>1. HeldCells'[b] = HeldCells[b] \cup ((m + 1)..n) /\ HeldCells[b] \cap ((m + 1)..n) = {}
      BY DEF HeldCells
    <2>2. \A x \in Bodies \ {b} : HeldCells[x] = HeldCells'[x]
      BY DEF HeldCells
    <2> QED
      BY <1>1, <2>1, <2>2 DEF Gains, HeldByBody
  <1>3. /\ Cardinality(Cells(HeldCells)) \in Nat /\ Cardinality(Cells(HeldCells')) \in Nat
        /\ Cardinality(Cells(HeldCells')) = Cardinality(Cells(HeldCells)) + (n - m)
    BY <1>2, CellsGrow
  <1>4. /\ usedBytes >= Cardinality(OnDisk \cup Reserved) /\ usedBytes \in Nat /\ usedBytes <= Quota
        /\ exact /\ removing = "no" => usedBytes = Cardinality(OnDisk \cup Reserved)
        /\ Quota \in Nat
    BY PartsHold, Limits DEF Used, UsedIsAccounted
  <1>5. /\ usedBytes' >= Cardinality(OnDisk' \cup Reserved') /\ usedBytes' \in Nat /\ usedBytes' <= Quota
        /\ exact' /\ removing' = "no" => usedBytes' = Cardinality(OnDisk' \cup Reserved')
    <2>1. /\ Cardinality(OnDisk \cup Reserved) = Cardinality(Cells(HeldCells))
          /\ Cardinality(OnDisk' \cup Reserved') = Cardinality(Cells(HeldCells'))
      BY <1>1 DEF HeldByBody
    <2> QED
      BY <1>3, <1>4, <2>1
  <1> QED
    BY <1>5 DEF Used, UsedIsAccounted

\* Bytes m + 1 to n of one body no longer count as used.
LEMMA UsedFalls ==
  ASSUME BodyInv, Shape', StoredIsFaithful', NEW b \in Bodies, NEW m \in Nat, NEW n \in Nat, m <= n,
         HeldOf(b) = 1..n, HeldOf(b)' = 1..m, \A x \in Bodies \ {b} : HeldOf(x)' = HeldOf(x),
         usedBytes' = usedBytes - (n - m), exact' = exact, removing' = removing
  PROVE  Used'
  <1>1. HeldByBody /\ HeldByBody'
    BY PartsHold, HeldIs, PTL
  <1>2. Gains(HeldCells', HeldCells, b, m, n)
    <2>1. HeldCells[b] = HeldCells'[b] \cup ((m + 1)..n) /\ HeldCells'[b] \cap ((m + 1)..n) = {}
      BY DEF HeldCells
    <2>2. \A x \in Bodies \ {b} : HeldCells'[x] = HeldCells[x]
      BY DEF HeldCells
    <2> QED
      BY <1>1, <2>1, <2>2 DEF Gains, HeldByBody
  <1>3. /\ Cardinality(Cells(HeldCells')) \in Nat /\ Cardinality(Cells(HeldCells)) \in Nat
        /\ Cardinality(Cells(HeldCells)) = Cardinality(Cells(HeldCells')) + (n - m)
    BY <1>2, CellsGrow
  <1>4. /\ usedBytes >= Cardinality(OnDisk \cup Reserved) /\ usedBytes \in Nat /\ usedBytes <= Quota
        /\ exact /\ removing = "no" => usedBytes = Cardinality(OnDisk \cup Reserved)
        /\ Quota \in Nat
    BY PartsHold, Limits DEF Used, UsedIsAccounted
  <1>5. /\ usedBytes' >= Cardinality(OnDisk' \cup Reserved') /\ usedBytes' \in Nat /\ usedBytes' <= Quota
        /\ exact' /\ removing' = "no" => usedBytes' = Cardinality(OnDisk' \cup Reserved')
    <2>1. /\ Cardinality(OnDisk \cup Reserved) = Cardinality(Cells(HeldCells))
          /\ Cardinality(OnDisk' \cup Reserved') = Cardinality(Cells(HeldCells'))
      BY <1>1 DEF HeldByBody
    <2> QED
      BY <1>3, <1>4, <2>1
  <1> QED
    BY <1>5 DEF Used, UsedIsAccounted

\* The directory is counted anew while nobody writes.
LEMMA UsedCounted ==
  ASSUME BodyInv, Shape', UNCHANGED dirVars, \A b \in Bodies : phase'[b] \notin ActiveIn,
         usedBytes' = DiskBytes
  PROVE  Used'
  <1>1. OnDisk' \cup Reserved' = OnDisk
    BY DEF OnDisk, Reserved, Written, dirVars
  <1>2. DiskBytes \in Nat /\ DiskBytes <= Quota
    BY PartsHold, HeldIs, FS_CardinalityType
       DEF HeldByBody, BodyInv, AccountingIsExact, LimitsHold, DiskBytes
  <1> QED
    BY <1>1, <1>2 DEF Used, UsedIsAccounted, DiskBytes

LEMMA PendingSame ==
  ASSUME BodyInv, UNCHANGED <<queue, pendingBytes, pendingOperations>> PROVE Pending'
  BY PartsHold DEF Pending, PendingIsQueued, QueuedChunks, QueuedBytes

\* The first chunk of a queue is released.
LEMMA PendingPops ==
  ASSUME BodyInv, Shape', StoredIsFaithful', NEW b \in Bodies, queue[b] # <<>>,
         queue' = [queue EXCEPT ![b] = Tail(@)],
         pendingBytes' = pendingBytes - Size(Head(queue[b])), pendingOperations' = pendingOperations - 1
  PROVE  Pending'
  <1> DEFINE q == queue[b]
             n == Len(queue[b])
             low == q[1][1]
             high == q[1][2]
  <1>1. /\ q \in Seq(Nat \X Nat) /\ q # <<>>
        /\ \A i \in DOMAIN q : 1 <= q[i][1] /\ q[i][1] <= q[i][2]
        /\ \A i, j \in DOMAIN q : i < j => q[i][2] < q[j][1]
    <2>1. WriterIsSound(b)
      BY PartsHold DEF EachIsFaithful, Faithful
    <2>2. q \in Seq(Nat \X Nat)
      BY PartsHold, ShapeFacts
    <2> QED
      BY <2>1, <2>2 DEF WriterIsSound, IsChain
  <1>2. /\ Head(q) = q[1] /\ q[1] \in Nat \X Nat /\ 1 \in DOMAIN q /\ n \in Nat /\ n > 0
        /\ DOMAIN Tail(q) = 1..(n - 1) /\ DOMAIN q = 1..n
        /\ \A i \in 1..(n - 1) : Tail(q)[i] = q[i + 1]
    BY <1>1, TailFacts
  <1>3. queue'[b] = Tail(q) /\ \A x \in Bodies \ {b} : queue'[x] = queue[x]
    BY PartsHold DEF Shape
  <1>4. low \in Nat /\ high \in Nat /\ 1 <= low /\ low <= high /\ Size(Head(q)) = high - low + 1
    BY <1>1, <1>2, ChunkFacts
  <1>5. QueuedByBody /\ QueuedByBody'
    BY PartsHold, QueuedIs, PTL
  <1>6. /\ ChunkCells[b] = DOMAIN q /\ ChunkCells'[b] = DOMAIN Tail(q)
        /\ ByteCells[b] = Span(q) /\ ByteCells'[b] = Span(Tail(q))
        /\ \A x \in Bodies \ {b} : ChunkCells'[x] = ChunkCells[x] /\ ByteCells'[x] = ByteCells[x]
    <2> HIDE DEF q, n, low, high
    <2>1. queue[b] = q
      BY DEF q
    <2>2. ChunkCells[b] = DOMAIN q /\ ByteCells[b] = Span(q)
      BY <2>1 DEF ChunkCells, ByteCells
    <2>3. ChunkCells'[b] = DOMAIN Tail(q) /\ ByteCells'[b] = Span(Tail(q))
      BY <1>3 DEF ChunkCells, ByteCells
    <2>4. \A x \in Bodies \ {b} : ChunkCells'[x] = ChunkCells[x] /\ ByteCells'[x] = ByteCells[x]
      BY <1>3 DEF ChunkCells, ByteCells
    <2> QED
      BY <2>2, <2>3, <2>4
  <1> HIDE DEF q, n, low, high
  <1>7. /\ Cardinality(Cells(ChunkCells')) \in Nat
        /\ Cardinality(Cells(ChunkCells)) = Cardinality(Cells(ChunkCells')) + (n - (n - 1))
    <2>1. n - 1 \in Nat /\ n - 1 <= n
      BY <1>2
    <2>2. /\ ChunkCells[b] = ChunkCells'[b] \cup (((n - 1) + 1)..n)
          /\ ChunkCells'[b] \cap (((n - 1) + 1)..n) = {}
      BY <1>2, <1>6
    <2>3. Gains(ChunkCells', ChunkCells, b, n - 1, n)
      BY <1>5, <1>6, <2>1, <2>2 DEF Gains, QueuedByBody
    <2> QED
      BY <1>2, <2>1, <2>3, CellsGrow
  <1>8. /\ Cardinality(Cells(ByteCells')) \in Nat
        /\ Cardinality(Cells(ByteCells)) = Cardinality(Cells(ByteCells')) + (high - (low - 1))
    <2>1. low - 1 \in Nat /\ low - 1 <= high /\ ((low - 1) + 1)..high = q[1][1]..q[1][2]
      BY <1>4 DEF low, high
    <2>2. ASSUME NEW j
          PROVE  j \in ByteCells[b] <=> j \in ByteCells'[b] \/ j \in q[1][1]..q[1][2]
      <3>1. ASSUME NEW i \in DOMAIN q, j \in q[i][1]..q[i][2], i # 1
            PROVE  \E k \in DOMAIN Tail(q) : j \in Tail(q)[k][1]..Tail(q)[k][2]
        <4>1. i - 1 \in 1..(n - 1) /\ (i - 1) + 1 = i
          BY <3>1, <1>2
        <4> QED
          BY <3>1, <4>1, <1>2
      <3>2. ASSUME NEW i \in DOMAIN Tail(q), j \in Tail(q)[i][1]..Tail(q)[i][2]
            PROVE  \E k \in DOMAIN q : j \in q[k][1]..q[k][2]
        <4>1. i + 1 \in DOMAIN q /\ Tail(q)[i] = q[i + 1]
          BY <3>2, <1>2
        <4> QED
          BY <3>2, <4>1
      <3>3. /\ j \in Span(q) <=> \E i \in DOMAIN q : j \in q[i][1]..q[i][2]
            /\ j \in Span(Tail(q)) <=> \E i \in DOMAIN Tail(q) : j \in Tail(q)[i][1]..Tail(q)[i][2]
        BY SpanMembers
      <3> QED
        BY <3>1, <3>2, <3>3, <1>2, <1>6
    <2>3. ASSUME NEW j \in q[1][1]..q[1][2], NEW i \in DOMAIN Tail(q)
          PROVE  j \notin Tail(q)[i][1]..Tail(q)[i][2]
      <3>1. i + 1 \in DOMAIN q /\ 1 < i + 1 /\ Tail(q)[i] = q[i + 1]
        BY <1>2
      <3>2. q[1][2] < q[i + 1][1]
        BY <1>1, <1>2, <3>1
      <3>3. q[i + 1] \in Nat \X Nat /\ q[1] \in Nat \X Nat
        BY <1>1, <1>2, <3>1
      <3> QED
        BY <3>1, <3>2, <3>3
    <2>4. /\ ByteCells[b] = ByteCells'[b] \cup (((low - 1) + 1)..high)
          /\ ByteCells'[b] \cap (((low - 1) + 1)..high) = {}
      <3>1. \A j \in q[1][1]..q[1][2] : j \notin ByteCells'[b]
        BY <1>6, <2>3, SpanMembers
      <3> QED
        BY <2>1, <2>2, <3>1
    <2>5. Gains(ByteCells', ByteCells, b, low - 1, high)
      BY <1>5, <1>6, <2>1, <2>4 DEF Gains, QueuedByBody
    <2> QED
      BY <1>4, <2>1, <2>5, CellsGrow
  <1>9. /\ pendingOperations = Cardinality(QueuedChunks) /\ pendingBytes = Cardinality(QueuedBytes)
        /\ pendingBytes <= MaxPending /\ pendingOperations <= MaxOperations
        /\ MaxPending \in Nat /\ MaxOperations \in Nat
    BY PartsHold, Limits DEF Pending, PendingIsQueued
  <1>10. /\ pendingOperations' = Cardinality(QueuedChunks') /\ pendingBytes' = Cardinality(QueuedBytes')
         /\ pendingBytes' <= MaxPending /\ pendingOperations' <= MaxOperations
    BY <1>2, <1>4, <1>5, <1>7, <1>8, <1>9 DEF q, QueuedByBody
  <1> QED
    BY <1>10 DEF Pending, PendingIsQueued

\* A chunk of the bytes m + 1 to n joins a queue whose bytes all come before.
LEMMA PendingAppends ==
  ASSUME BodyInv, Shape', StoredIsFaithful', NEW b \in Bodies, NEW m \in Nat, NEW n \in Nat, m <= n,
         \A i \in DOMAIN queue[b] : queue[b][i][2] <= m,
         queue' = [queue EXCEPT ![b] = Append(@, <<m + 1, n>>)],
         pendingBytes' = pendingBytes + (n - m), pendingBytes' <= MaxPending,
         pendingOperations' = pendingOperations + 1, pendingOperations' <= MaxOperations
  PROVE  Pending'
  <1> DEFINE q == queue[b]
             k == Len(queue[b])
             r == Append(queue[b], <<m + 1, n>>)
  <1>1. /\ q \in Seq(Nat \X Nat) /\ \A i \in DOMAIN q : q[i][2] <= m
        /\ \A i \in DOMAIN q : q[i][1] \in Nat /\ q[i][2] \in Nat
    <2>1. q \in Seq(Nat \X Nat)
      BY PartsHold, ShapeFacts
    <2> QED
      BY <2>1
  <1>2. /\ k \in Nat /\ DOMAIN q = 1..k /\ DOMAIN r = 1..(k + 1)
        /\ r[k + 1] = <<m + 1, n>> /\ \A i \in 1..k : r[i] = q[i]
    <2>1. <<m + 1, n>> \in Nat \X Nat
      OBVIOUS
    <2> QED
      BY <1>1, <2>1, AppendFacts
  <1>3. queue'[b] = r /\ queue[b] = q /\ \A x \in Bodies \ {b} : queue'[x] = queue[x]
    BY PartsHold DEF Shape
  <1>4. QueuedByBody /\ QueuedByBody'
    BY PartsHold, QueuedIs, PTL
  <1> HIDE DEF q, k, r
  <1>5. /\ ChunkCells[b] = DOMAIN q /\ ChunkCells'[b] = DOMAIN r
        /\ ByteCells[b] = Span(q) /\ ByteCells'[b] = Span(r)
        /\ \A x \in Bodies \ {b} : ChunkCells'[x] = ChunkCells[x] /\ ByteCells'[x] = ByteCells[x]
    <2>1. ChunkCells[b] = DOMAIN q /\ ByteCells[b] = Span(q)
      BY <1>3 DEF ChunkCells, ByteCells
    <2>2. ChunkCells'[b] = DOMAIN r /\ ByteCells'[b] = Span(r)
      BY <1>3 DEF ChunkCells, ByteCells
    <2>3. \A x \in Bodies \ {b} : ChunkCells'[x] = ChunkCells[x] /\ ByteCells'[x] = ByteCells[x]
      BY <1>3 DEF ChunkCells, ByteCells
    <2> QED
      BY <2>1, <2>2, <2>3
  <1>6. /\ Cardinality(Cells(ChunkCells)) \in Nat
        /\ Cardinality(Cells(ChunkCells')) = Cardinality(Cells(ChunkCells)) + ((k + 1) - k)
    <2>1. /\ ChunkCells'[b] = ChunkCells[b] \cup ((k + 1)..(k + 1))
          /\ ChunkCells[b] \cap ((k + 1)..(k + 1)) = {} /\ k + 1 \in Nat /\ k <= k + 1
      BY <1>2, <1>5
    <2>2. Gains(ChunkCells, ChunkCells', b, k, k + 1)
      BY <1>4, <1>5, <2>1 DEF Gains, QueuedByBody
    <2> QED
      BY <1>2, <2>1, <2>2, CellsGrow
  <1>7. /\ Cardinality(Cells(ByteCells)) \in Nat
        /\ Cardinality(Cells(ByteCells')) = Cardinality(Cells(ByteCells)) + (n - m)
    <2>1. ASSUME NEW j
          PROVE  /\ j \in ByteCells'[b] <=> j \in ByteCells[b] \/ j \in (m + 1)..n
                 /\ j \in (m + 1)..n => j \notin ByteCells[b]
      <3>1. /\ j \in Span(q) <=> \E i \in DOMAIN q : j \in q[i][1]..q[i][2]
            /\ j \in Span(r) <=> \E i \in DOMAIN r : j \in r[i][1]..r[i][2]
        BY SpanMembers
      <3>2. (\E i \in DOMAIN r : j \in r[i][1]..r[i][2]) <=>
               (\E i \in DOMAIN q : j \in q[i][1]..q[i][2]) \/ j \in (m + 1)..n
        <4>1. \A i : i \in 1..(k + 1) <=> i \in 1..k \/ i = k + 1
          BY <1>2
        <4>2. r[k + 1][1]..r[k + 1][2] = (m + 1)..n
          BY <1>2
        <4> QED
          BY <1>2, <4>1, <4>2
      <3>3. ASSUME j \in (m + 1)..n, NEW i \in DOMAIN q, j \in q[i][1]..q[i][2] PROVE FALSE
        BY <3>3, <1>1
      <3> QED
        BY <3>1, <3>2, <3>3, <1>5
    <2>2. Gains(ByteCells, ByteCells', b, m, n)
      BY <1>4, <1>5, <2>1 DEF Gains, QueuedByBody
    <2> QED
      BY <2>2, CellsGrow
  <1>8. pendingOperations = Cardinality(QueuedChunks) /\ pendingBytes = Cardinality(QueuedBytes)
    BY PartsHold DEF Pending, PendingIsQueued
  <1>9. pendingOperations' = Cardinality(QueuedChunks') /\ pendingBytes' = Cardinality(QueuedBytes')
    BY <1>2, <1>4, <1>6, <1>7, <1>8 DEF QueuedByBody
  <1> QED
    BY <1>9 DEF Pending, PendingIsQueued

\* Who holds the store, in a step that lets nobody in or out.
LEMMA HoldersSame ==
  ASSUME BodyInv, UNCHANGED <<activeBodies, activeReaders, reading, recovering>>,
         \A x \in Bodies : phase'[x] \in ActiveIn <=> phase[x] \in ActiveIn
  PROVE  HoldersAreCounted'
  <1>1. {x \in Bodies : phase'[x] \in ActiveIn} = {x \in Bodies : phase[x] \in ActiveIn}
    OBVIOUS
  <1>2. HoldersAreCounted
    BY PartsHold
  <1> QED
    BY <1>1, <1>2 DEF HoldersAreCounted, ActiveIn

LEMMA RemovalSame ==
  ASSUME BodyInv, UNCHANGED <<removing, reading, recovering>>,
         \A x \in Bodies : phase'[x] \in ActiveIn => phase[x] \in ActiveIn
  PROVE  RemovalIsExclusive'
  BY PartsHold DEF RemovalIsExclusive, ActiveIn

\* A writer that is not active any more leaves the count.
LEMMA HolderLeaves ==
  ASSUME BodyInv, UNCHANGED <<activeReaders, reading, recovering>>, NEW b \in Bodies,
         phase[b] \in ActiveIn, phase' = [phase EXCEPT ![b] = "done"], activeBodies' = activeBodies - 1
  PROVE  HoldersAreCounted'
  <1> DEFINE before == {x \in Bodies : phase[x] \in ActiveIn}
             after  == {x \in Bodies : phase'[x] \in ActiveIn}
  <1>1. after = before \ {b} /\ b \in before /\ before \subseteq Bodies
    BY PartsHold DEF Shape, ActiveIn
  <1>2. HoldersAreCounted /\ activeBodies = Cardinality(before)
    BY PartsHold DEF HoldersAreCounted
  <1> HIDE DEF before
  <1>3. Cardinality(before \ {b}) = Cardinality(before) - 1
    BY <1>1, Limits, FS_Subset, FS_RemoveElement
  <1> QED
    BY <1>1, <1>2, <1>3 DEF HoldersAreCounted, ActiveIn

LEMMA HolderEnters ==
  ASSUME BodyInv, UNCHANGED <<activeReaders, reading, recovering>>, NEW b \in Bodies,
         phase[b] = "new", phase' = [phase EXCEPT ![b] = "opening"], activeBodies' = activeBodies + 1
  PROVE  HoldersAreCounted'
  <1> DEFINE before == {x \in Bodies : phase[x] \in ActiveIn}
             after  == {x \in Bodies : phase'[x] \in ActiveIn}
  <1>1. after = before \cup {b} /\ b \notin before /\ before \subseteq Bodies
    BY PartsHold DEF Shape, ActiveIn
  <1>2. HoldersAreCounted /\ activeBodies = Cardinality(before)
    BY PartsHold DEF HoldersAreCounted
  <1> HIDE DEF before
  <1>3. Cardinality(before \cup {b}) = Cardinality(before) + 1
    BY <1>1, Limits, FS_Subset, FS_AddElement
  <1> QED
    BY <1>1, <1>2, <1>3 DEF HoldersAreCounted, ActiveIn

---------------------------------------------------------------------------
(* The actions of a writer *)

\* What is known of the body a step works on.
LEMMA BodyFacts ==
  ASSUME BodyInv, NEW b \in Bodies
  PROVE  /\ file[b] \in {"absent", "part", "body"} /\ content[b] \in Seq(Nat)
         /\ queue[b] \in Seq(Nat \X Nat) /\ Written(b) \in Nat /\ Written(b) = Len(content[b])
         /\ phase[b] \in {"opening", "open", "unopened", "new", "done", "lost"}
         /\ closed[b] \in BOOLEAN /\ writeFailed[b] \in BOOLEAN
         /\ accepted[b] \in Nat /\ offered[b] \in Nat /\ MaxBody \in Nat
         /\ Faithful(b) /\ WriterIsSound(b) /\ IsChain(queue[b], accepted[b])
  BY PartsHold, ShapeFacts, Limits DEF EachIsFaithful, Faithful, WriterIsSound, Written

\* A writer begins: nothing was offered to it yet, and nobody else is at work.
LEMMA BeginKeeps == ASSUME BodyInv, NEW b \in Bodies, Begin(b) PROVE BodyInv'
  <1>1. Shape'
    BY PartsHold DEF Begin, Shape, ActiveIn, dirVars, modes
  <1>2. /\ phase[b] = "new" /\ phase'[b] = "opening" /\ phase' = [phase EXCEPT ![b] = "opening"]
        /\ UNCHANGED <<dirVars, status, accepted, queue, writeFailed, offered>>
        /\ \A x \in Bodies \ {b} : phase'[x] = phase[x]
    BY PartsHold DEF Begin, Shape
  <1>3. \A x \in Bodies \ {b} : Faithful(x)' /\ HeldOf(x)' = HeldOf(x)
    BY <1>2, PartsHold, SameBody DEF EachIsFaithful, dirVars
  <1>4. Faithful(b)' /\ HeldOf(b)' = HeldOf(b)
    <2>1. /\ file[b] = "absent" /\ Written(b) = 0 /\ accepted[b] = 0 /\ offered[b] = 0
          /\ queue[b] = <<>> /\ status[b] = "complete" /\ ~writeFailed[b]
      BY <1>2, BodyFacts DEF WriterIsSound, ActiveIn
    <2>2. Faithful(b)'
      BY <1>2, <2>1, BodyFacts DEF Faithful, WriterIsSound, Written, ActiveIn, dirVars
    <2>3. HeldOf(b) = {} /\ HeldOf(b)' = {}
      BY <1>2, <2>1 DEF HeldOf, ActiveIn, dirVars
    <2> QED
      BY <2>2, <2>3
  <1>5. StoredIsFaithful'
    BY <1>3, <1>4, AllFaithful
  <1>6. RemovalIsExclusive'
    BY DEF Begin, modes, RemovalIsExclusive
  <1>7. HoldersAreCounted'
    BY <1>2, HolderEnters DEF Begin, modes
  <1>8. Used'
    BY <1>1, <1>3, <1>4, <1>5, UsedSame DEF Begin, modes
  <1>9. Pending'
    BY PendingSame DEF Begin
  <1> QED
    BY <1>1, <1>5, <1>6, <1>7, <1>8, <1>9, Assembled, PTL

LEMMA OpenedKeeps == ASSUME BodyInv, NEW b \in Bodies, Opened(b) PROVE BodyInv'
  <1>1. Shape'
    BY PartsHold DEF Opened, Shape, ActiveIn, gauges, modes
  <1>2. /\ phase[b] = "opening" /\ phase'[b] = "open" /\ file'[b] = "part"
        /\ UNCHANGED <<content, gauges, modes, status, accepted, queue, writeFailed, offered, exact>>
        /\ \A x \in Bodies \ {b} : phase'[x] = phase[x] /\ file'[x] = file[x]
    BY PartsHold DEF Opened, Shape
  <1>3. \A x \in Bodies \ {b} : Faithful(x)' /\ HeldOf(x)' = HeldOf(x)
    BY <1>2, PartsHold, SameBody DEF EachIsFaithful
  <1>4. Faithful(b)' /\ HeldOf(b)' = HeldOf(b)
    <2>1. Faithful(b)'
      BY <1>2, BodyFacts DEF Faithful, WriterIsSound, Written, ActiveIn
    <2>2. HeldOf(b)' = HeldOf(b)
      BY <1>2 DEF HeldOf, ActiveIn
    <2> QED
      BY <2>1, <2>2
  <1>5. StoredIsFaithful'
    BY <1>3, <1>4, AllFaithful
  <1>6. \A x \in Bodies : phase'[x] \in ActiveIn <=> phase[x] \in ActiveIn
    BY <1>2 DEF ActiveIn
  <1>7. RemovalIsExclusive' /\ HoldersAreCounted'
    BY <1>2, <1>6, RemovalSame, HoldersSame DEF modes, gauges
  <1>8. Used'
    BY <1>1, <1>2, <1>3, <1>4, <1>5, UsedSame DEF gauges, modes
  <1>9. Pending'
    BY <1>2, PendingSame DEF gauges
  <1> QED
    BY <1>1, <1>5, <1>7, <1>8, <1>9, Assembled, PTL

LEMMA OpenFailsKeeps == ASSUME BodyInv, NEW b \in Bodies, OpenFails(b) PROVE BodyInv'
  <1>1. Shape'
    BY PartsHold DEF OpenFails, Shape, ActiveIn, dirVars, modes
  <1>2. /\ phase[b] = "opening" /\ phase'[b] = "unopened" /\ status'[b] = "write_error"
        /\ writeFailed'[b] = TRUE
        /\ UNCHANGED <<file, content, gauges, modes, accepted, queue, offered, exact>>
        /\ \A x \in Bodies \ {b} : /\ phase'[x] = phase[x] /\ status'[x] = status[x]
                                   /\ writeFailed'[x] = writeFailed[x]
    BY PartsHold DEF OpenFails, Shape, dirVars
  <1>3. \A x \in Bodies \ {b} : Faithful(x)' /\ HeldOf(x)' = HeldOf(x)
    BY <1>2, PartsHold, SameBody DEF EachIsFaithful
  <1>4. Faithful(b)' /\ HeldOf(b)' = HeldOf(b)
    <2>1. Faithful(b)'
      BY <1>2, BodyFacts DEF Faithful, WriterIsSound, Written, ActiveIn
    <2>2. HeldOf(b)' = HeldOf(b)
      BY <1>2 DEF HeldOf, ActiveIn
    <2> QED
      BY <2>1, <2>2
  <1>5. StoredIsFaithful'
    BY <1>3, <1>4, AllFaithful
  <1>6. \A x \in Bodies : phase'[x] \in ActiveIn <=> phase[x] \in ActiveIn
    BY <1>2 DEF ActiveIn
  <1>7. RemovalIsExclusive' /\ HoldersAreCounted'
    BY <1>2, <1>6, RemovalSame, HoldersSame DEF modes, gauges
  <1>8. Used'
    BY <1>1, <1>2, <1>3, <1>4, <1>5, UsedSame DEF gauges, modes
  <1>9. Pending'
    BY <1>2, PendingSame DEF gauges
  <1> QED
    BY <1>1, <1>5, <1>7, <1>8, <1>9, Assembled, PTL

LEMMA AddToCount ==
  ASSUME NEW f \in [Bodies -> Nat], NEW b \in Bodies, NEW n \in Nat
  PROVE  [f EXCEPT ![b] = @ + n] \in [Bodies -> Nat]
  OBVIOUS

\* A chunk is offered: refused, it only makes the body incomplete; accepted, it is
\* reserved and queued.
LEMMA AppendChunkKeeps ==
  ASSUME BodyInv, NEW b \in Bodies, NEW n \in ChunkSizes, AppendChunk(b, n) PROVE BodyInv'
  <1>1. /\ n \in Nat /\ n > 0 /\ phase[b] \in ActiveIn
        /\ offered' = [offered EXCEPT ![b] = @ + n] /\ offered'[b] = offered[b] + n
        /\ UNCHANGED <<file, content, activeBodies, activeReaders, removing, targets, reading,
                      recovering, phase, closed, writeFailed, exact>>
    BY PartsHold, Limits DEF AppendChunk, Shape, dirVars, modes
  <1>2. RemovalIsExclusive' /\ HoldersAreCounted'
    BY <1>1, RemovalSame, HoldersSame
  <1>3. CASE /\ UNCHANGED <<accepted, queue, usedBytes, pendingBytes, pendingOperations>>
             /\ \E s \in {"interrupted", "write_error", "body_limit", "quota_exceeded", "queue_full"} :
                    status' = [status EXCEPT ![b] = s]
    <2>1. Shape'
      <3>1. offered' \in [Bodies -> Nat]
        BY <1>1, PartsHold, AddToCount DEF Shape
      <3>2. status' \in [Bodies -> {"complete", "interrupted", "write_error", "body_limit",
                                    "quota_exceeded", "queue_full"}]
        BY <1>3, PartsHold DEF Shape
      <3> QED
        BY <1>1, <1>3, <3>1, <3>2, PartsHold DEF Shape
    <2>2. \A x \in Bodies \ {b} : Faithful(x)' /\ HeldOf(x)' = HeldOf(x)
      <3>1. \A x \in Bodies \ {b} : offered'[x] = offered[x] /\ status'[x] = status[x]
        BY <1>1, <1>3, PartsHold DEF Shape
      <3> QED
        BY <1>1, <1>3, <3>1, PartsHold, SameBody DEF EachIsFaithful
    <2>3. Faithful(b)' /\ HeldOf(b)' = HeldOf(b)
      <3>1. status'[b] # "complete"
        BY <1>3, PartsHold DEF Shape
      <3>2. HeldOf(b)' = HeldOf(b) /\ Written(b)' = Written(b)
        BY <1>1, <1>3 DEF HeldOf, Written
      <3>3. /\ Written(b) <= accepted[b] /\ accepted[b] <= offered[b]
            /\ Written(b) \in Nat /\ accepted[b] \in Nat /\ offered[b] \in Nat
        BY BodyFacts DEF WriterIsSound
      <3>4. Written(b) <= offered'[b] /\ accepted[b] <= offered'[b]
        BY <1>1, <3>3
      <3>5. WriterIsSound(b)'
        BY <1>1, <1>3, <3>1, <3>2, <3>4, BodyFacts DEF WriterIsSound, ActiveIn
      <3>6. \A i \in 1..Written(b) : content[b][i] = i
        BY BodyFacts DEF Faithful
      <3> QED
        BY <1>1, <3>1, <3>2, <3>4, <3>5, <3>6 DEF Faithful
    <2>4. StoredIsFaithful'
      BY <2>2, <2>3, AllFaithful
    <2>5. Used'
      BY <1>1, <1>3, <2>1, <2>2, <2>3, <2>4, UsedSame
    <2>6. Pending'
      BY <1>3, PendingSame
    <2> QED
      BY <1>2, <2>1, <2>4, <2>5, <2>6, Assembled, PTL
  <1>4. CASE /\ status[b] = "complete" /\ Refusal(b, n) = "complete"
             /\ status' = [status EXCEPT ![b] = "complete"]
             /\ accepted' = [accepted EXCEPT ![b] = @ + n]
             /\ queue' = [queue EXCEPT ![b] = Append(@, <<offered[b] + 1, offered[b] + n>>)]
             /\ usedBytes' = usedBytes + n /\ pendingBytes' = pendingBytes + n
             /\ pendingOperations' = pendingOperations + 1
    <2> DEFINE m == accepted[b]
               c == <<m + 1, m + n>>
    <2>1. /\ m \in Nat /\ offered[b] = m /\ ~writeFailed[b] /\ queue[b] \in Seq(Nat \X Nat)
          /\ IsChain(queue[b], m) /\ c \in Nat \X Nat
      <3>1. m \in Nat /\ queue[b] \in Seq(Nat \X Nat) /\ IsChain(queue[b], m) /\ WriterIsSound(b)
        BY BodyFacts
      <3>2. offered[b] = m /\ ~writeFailed[b]
        BY <1>1, <1>4, <3>1 DEF WriterIsSound
      <3>3. c \in Nat \X Nat
        BY <1>1, <3>1
      <3> QED
        BY <3>1, <3>2, <3>3
    <2>2. /\ m + n <= MaxBody /\ usedBytes + n <= Quota /\ pendingBytes + n <= MaxPending
          /\ pendingOperations + 1 <= MaxOperations
      <3>1. /\ m + n <= MaxBody /\ usedBytes + n <= Quota /\ pendingBytes + n <= MaxPending
            /\ pendingOperations < MaxOperations
        <4>1. /\ ~(m + n > MaxBody) /\ ~(usedBytes + n > Quota) /\ ~(pendingBytes + n > MaxPending)
              /\ ~(pendingOperations >= MaxOperations)
          BY <1>4 DEF Refusal
        <4>2. /\ usedBytes \in Nat /\ pendingBytes \in Nat /\ pendingOperations \in Nat
              /\ MaxBody \in Nat /\ Quota \in Nat /\ MaxPending \in Nat /\ MaxOperations \in Nat
          BY PartsHold, Limits
        <4> HIDE DEF m
        <4> QED
          BY <1>1, <2>1, <4>1, <4>2
      <3>2. pendingOperations \in Nat /\ MaxOperations \in Nat
        BY PartsHold, Limits
      <3> QED
        BY <3>1, <3>2
    <2>3. /\ accepted'[b] = m + n /\ offered'[b] = m + n /\ status'[b] = "complete"
          /\ queue'[b] = Append(queue[b], c)
          /\ \A x \in Bodies \ {b} : /\ offered'[x] = offered[x] /\ status'[x] = status[x]
                                     /\ accepted'[x] = accepted[x] /\ queue'[x] = queue[x]
      BY <1>1, <1>4, <2>1, PartsHold DEF Shape
    <2>4. /\ IsChain(queue'[b], m + n) /\ queue'[b] # <<>> /\ queue'[b] \in Seq(Nat \X Nat)
          /\ queue'[b][1][1] = IF queue[b] = <<>> THEN m + 1 ELSE queue[b][1][1]
      <3>1. queue'[b] \in Seq(Nat \X Nat)
        BY <2>1, <2>3, AppendFacts
      <3>2. c[1] = m + 1 /\ c[2] = m + n
        OBVIOUS
      <3> HIDE DEF m, c
      <3>3. /\ IsChain(Append(queue[b], c), m + n) /\ Append(queue[b], c) # <<>>
            /\ Append(queue[b], c)[1][1] = IF queue[b] = <<>> THEN m + 1 ELSE queue[b][1][1]
        <4>1. /\ queue[b] \in Seq(Nat \X Nat) /\ m \in Nat /\ n \in Nat /\ n > 0
              /\ IsChain(queue[b], m) /\ c \in Nat \X Nat
          BY <1>1, <2>1
        <4>2. Joins(queue[b], c, m, n)
          BY <3>2, <4>1 DEF Joins
        <4> QED
          BY <4>2, ChainGrows
      <3> QED
        BY <2>3, <3>1, <3>3
    <2>5. Shape'
      <3>1. queue' \in [Bodies -> Seq(Nat \X Nat)]
        BY <1>4, <2>1, <2>3, <2>4, PartsHold DEF Shape
      <3>2. accepted' \in [Bodies -> Nat] /\ offered' \in [Bodies -> Nat]
        BY <1>1, <1>4, PartsHold, AddToCount DEF Shape
      <3> QED
        BY <1>1, <1>4, <3>1, <3>2, PartsHold DEF Shape
    <2>6. \A x \in Bodies \ {b} : Faithful(x)' /\ HeldOf(x)' = HeldOf(x)
      BY <1>1, <2>3, PartsHold, SameBody DEF EachIsFaithful
    <2> HIDE DEF m, c
    <2>7. Faithful(b)'
      <3>1. /\ Written(b)' = Written(b) /\ Written(b) \in Nat /\ Written(b) <= m
            /\ \A i \in 1..Written(b) : content[b][i] = i
            /\ IF queue[b] = <<>> THEN Written(b) = m ELSE queue[b][1][1] = Written(b) + 1
            /\ phase[b] \in {"opening", "unopened"} => file[b] = "absent" /\ Written(b) = 0
            /\ phase[b] = "open" => file[b] = "part"
            /\ phase[b] # "unopened" /\ phase[b] # "new" /\ phase[b] # "done"
        BY <1>1, <2>1, BodyFacts DEF Faithful, WriterIsSound, Written, ActiveIn, m
      <3>2. queue'[b][1][1] = Written(b) + 1
        BY <2>4, <3>1
      <3>3. WriterIsSound(b)'
        <4>1. Written(b) <= m + n /\ m + n <= MaxBody /\ m + n <= m + n
          BY <1>1, <2>1, <2>2, <3>1
        <4> QED
          BY <1>1, <2>1, <2>3, <2>4, <3>1, <3>2, <4>1 DEF WriterIsSound, ActiveIn
      <3> QED
        BY <1>1, <2>1, <2>3, <3>1, <3>3 DEF Faithful, ActiveIn
    <2>8. StoredIsFaithful'
      BY <2>6, <2>7, AllFaithful
    <2>9. Used'
      <3>1. HeldOf(b) = 1..m /\ HeldOf(b)' = 1..(m + n)
        BY <1>1, <2>3 DEF HeldOf, ActiveIn, m
      <3>2. m + n \in Nat /\ m <= m + n /\ (m + n) - m = n
        BY <1>1, <2>1
      <3> QED
        BY <1>1, <1>4, <2>1, <2>2, <2>5, <2>6, <2>8, <3>1, <3>2, UsedGrows
    <2>10. Pending'
      <3>1. m + n \in Nat /\ m <= m + n /\ (m + n) - m = n
        BY <1>1, <2>1
      <3>2. \A i \in DOMAIN queue[b] : queue[b][i][2] <= m
        BY <2>1 DEF IsChain
      <3>3. queue' = [queue EXCEPT ![b] = Append(@, <<m + 1, m + n>>)]
        BY <1>4, <2>1
      <3> QED
        BY <1>4, <2>1, <2>2, <2>5, <2>8, <3>1, <3>2, <3>3, PendingAppends
    <2> QED
      BY <1>2, <2>5, <2>8, <2>9, <2>10, Assembled, PTL
  <1>5. \/ /\ UNCHANGED <<accepted, queue, usedBytes, pendingBytes, pendingOperations>>
           /\ \E s \in {"interrupted", "write_error", "body_limit", "quota_exceeded", "queue_full"} :
                    status' = [status EXCEPT ![b] = s]
        \/ /\ status[b] = "complete" /\ Refusal(b, n) = "complete"
           /\ status' = [status EXCEPT ![b] = "complete"]
           /\ accepted' = [accepted EXCEPT ![b] = @ + n]
           /\ queue' = [queue EXCEPT ![b] = Append(@, <<offered[b] + 1, offered[b] + n>>)]
           /\ usedBytes' = usedBytes + n /\ pendingBytes' = pendingBytes + n
           /\ pendingOperations' = pendingOperations + 1
    <2>1. CASE status[b] # "complete"
      <3>1. UNCHANGED <<status, accepted, queue, usedBytes, pendingBytes, pendingOperations>>
        BY <2>1 DEF AppendChunk
      <3>2. /\ status[b] \in {"interrupted", "write_error", "body_limit", "quota_exceeded", "queue_full"}
            /\ status = [status EXCEPT ![b] = status[b]]
        BY <2>1, PartsHold DEF Shape
      <3> QED
        BY <3>1, <3>2
    <2>2. CASE status[b] = "complete" /\ Refusal(b, n) # "complete"
      <3>1. Refusal(b, n) \in {"interrupted", "write_error", "body_limit", "quota_exceeded", "queue_full"}
        BY <2>2 DEF Refusal
      <3> QED
        BY <2>2, <3>1 DEF AppendChunk
    <2>3. CASE status[b] = "complete" /\ Refusal(b, n) = "complete"
      BY <2>3 DEF AppendChunk
    <2> QED
      BY <2>1, <2>2, <2>3
  <1> QED
    BY <1>3, <1>4, <1>5

\* The first chunk of a body's chain.
LEMMA HeadFacts ==
  ASSUME BodyInv, NEW b \in Bodies, queue[b] # <<>>, queue' = [queue EXCEPT ![b] = Tail(@)]
  PROVE  /\ queue' \in [Bodies -> Seq(Nat \X Nat)] /\ queue'[b] = Tail(queue[b])
         /\ \A x \in Bodies \ {b} : queue'[x] = queue[x]
         /\ Head(queue[b]) = queue[b][1] /\ queue[b][1] \in Nat \X Nat
         /\ queue[b][1][1] \in Nat /\ queue[b][1][2] \in Nat
         /\ 1 <= queue[b][1][1] /\ queue[b][1][1] <= queue[b][1][2]
         /\ queue[b][1][2] <= accepted[b] /\ IsChain(queue'[b], accepted[b])
         /\ IF queue'[b] = <<>> THEN queue[b][1][2] = accepted[b]
            ELSE queue'[b][1][1] = queue[b][1][2] + 1
  <1>1. /\ queue[b] \in Seq(Nat \X Nat) /\ accepted[b] \in Nat /\ IsChain(queue[b], accepted[b])
    BY BodyFacts
  <1>2. queue'[b] = Tail(queue[b]) /\ \A x \in Bodies \ {b} : queue'[x] = queue[x]
    BY PartsHold DEF Shape
  <1>3. Tail(queue[b]) \in Seq(Nat \X Nat)
    BY <1>1, TailFacts
  <1>4. queue' \in [Bodies -> Seq(Nat \X Nat)]
    BY <1>3, PartsHold DEF Shape
  <1>5. /\ IsChain(Tail(queue[b]), accepted[b]) /\ Head(queue[b]) = queue[b][1]
        /\ queue[b][1] \in Nat \X Nat
        /\ 1 <= queue[b][1][1] /\ queue[b][1][1] <= queue[b][1][2]
        /\ queue[b][1][2] <= accepted[b]
        /\ IF Tail(queue[b]) = <<>> THEN queue[b][1][2] = accepted[b]
           ELSE Tail(queue[b])[1][1] = queue[b][1][2] + 1
    BY <1>1, ChainShrinks
  <1>6. queue[b][1][1] \in Nat /\ queue[b][1][2] \in Nat
    BY <1>5
  <1> QED
    BY <1>2, <1>4, <1>5, <1>6

\* n more bytes reach the file of a body.
LEMMA ContentGrows ==
  ASSUME BodyInv, NEW b \in Bodies, NEW n \in Nat, NEW t,
         t = [i \in 1..n |-> Written(b) + i], content' = [content EXCEPT ![b] = @ \o t]
  PROVE  /\ content' \in [Bodies -> Seq(Nat)] /\ Written(b)' = Written(b) + n
         /\ \A i \in 1..(Written(b) + n) : content'[b][i] = i
         /\ \A x \in Bodies \ {b} : content'[x] = content[x]
  <1> DEFINE s == content[b]
  <1>1. s \in Seq(Nat) /\ \A i \in 1..Len(s) : s[i] = i
    BY BodyFacts DEF Faithful, Written
  <1>2. t = [i \in 1..n |-> Len(s) + i]
    BY DEF Written
  <1>3. content'[b] = s \o t /\ \A x \in Bodies \ {b} : content'[x] = content[x]
    BY PartsHold DEF Shape
  <1>4. content \in [Bodies -> Seq(Nat)] /\ content' = [content EXCEPT ![b] = s \o t]
    BY PartsHold DEF Shape
  <1> HIDE DEF s
  <1>5. /\ s \o t \in Seq(Nat) /\ Len(s \o t) = Len(s) + n
        /\ \A i \in 1..Len(s \o t) : (s \o t)[i] = i
    BY <1>1, <1>2, PrefixGrows
  <1>6. content' \in [Bodies -> Seq(Nat)]
    BY <1>4, <1>5
  <1>7. Written(b)' = Len(s \o t) /\ Written(b) = Len(s)
    BY <1>3 DEF Written, s
  <1> QED
    BY <1>3, <1>5, <1>6, <1>7

\* What a link of the chain leaves alone.
LEMMA LinkKeeps ==
  ASSUME BodyInv, NEW b \in Bodies, Shape', Faithful(b)', phase[b] \in ActiveIn,
         UNCHANGED <<file, usedBytes, activeBodies, activeReaders, modes, phase, accepted, offered, exact>>,
         queue[b] # <<>>, queue' = [queue EXCEPT ![b] = Tail(@)],
         pendingBytes' = pendingBytes - Size(Head(queue[b])), pendingOperations' = pendingOperations - 1,
         \A x \in Bodies \ {b} : /\ content'[x] = content[x] /\ status'[x] = status[x]
                                 /\ writeFailed'[x] = writeFailed[x]
  PROVE  BodyInv'
  <1>1. \A x \in Bodies \ {b} : Faithful(x)' /\ HeldOf(x)' = HeldOf(x)
    <2>1. \A x \in Bodies \ {b} : queue'[x] = queue[x]
      BY HeadFacts
    <2> QED
      BY <2>1, PartsHold, SameBody DEF EachIsFaithful
  <1>2. HeldOf(b)' = HeldOf(b)
    BY DEF HeldOf, ActiveIn
  <1>3. StoredIsFaithful'
    BY <1>1, AllFaithful
  <1>4. RemovalIsExclusive' /\ HoldersAreCounted'
    BY RemovalSame, HoldersSame DEF modes
  <1>5. Used'
    BY <1>1, <1>2, <1>3, UsedSame DEF modes
  <1>6. Pending'
    BY <1>3, PendingPops
  <1> QED
    BY <1>3, <1>4, <1>5, <1>6, Assembled, PTL

LEMMA WriteChunkKeeps == ASSUME BodyInv, NEW b \in Bodies, WriteChunk(b) PROVE BodyInv'
  <1> DEFINE low  == queue[b][1][1]
             high == queue[b][1][2]
             t    == Bytes(Head(queue[b]))
  <1>1. /\ queue[b] # <<>> /\ phase[b] = "open" /\ ~writeFailed[b]
        /\ queue' = [queue EXCEPT ![b] = Tail(@)]
        /\ content' = [content EXCEPT ![b] = @ \o t]
        /\ pendingBytes' = pendingBytes - Size(Head(queue[b])) /\ pendingOperations' = pendingOperations - 1
        /\ UNCHANGED <<file, usedBytes, activeBodies, activeReaders, modes, phase, status, closed,
                       accepted, writeFailed, offered, exact>>
    BY DEF WriteChunk
  <1>2. /\ low \in Nat /\ high \in Nat /\ 1 <= low /\ low <= high /\ high <= accepted[b]
        /\ queue' \in [Bodies -> Seq(Nat \X Nat)] /\ IsChain(queue'[b], accepted[b])
        /\ IF queue'[b] = <<>> THEN high = accepted[b] ELSE queue'[b][1][1] = high + 1
        /\ Head(queue[b]) = queue[b][1] /\ queue[b][1] \in Nat \X Nat
    BY <1>1, HeadFacts
  <1>3. /\ Written(b) \in Nat /\ low = Written(b) + 1 /\ accepted[b] \in Nat /\ offered[b] \in Nat
        /\ accepted[b] <= offered[b]
    BY <1>1, BodyFacts DEF WriterIsSound, ActiveIn
  <1>4. high - Written(b) \in Nat /\ t = [i \in 1..(high - Written(b)) |-> Written(b) + i]
    <2> DEFINE c == queue[b][1]
    <2>1. Follows(c, Written(b)) /\ t = Bytes(c) /\ high = c[2]
      BY <1>2, <1>3 DEF Follows
    <2> HIDE DEF c, t, high
    <2> QED
      BY <2>1, FollowingBytes
  <1> HIDE DEF low, high, t
  <1>5. /\ content' \in [Bodies -> Seq(Nat)] /\ Written(b)' = high
        /\ \A i \in 1..high : content'[b][i] = i
        /\ \A x \in Bodies \ {b} : content'[x] = content[x]
    <2>1. Written(b) + (high - Written(b)) = high
      BY <1>2, <1>3
    <2> QED
      BY <1>1, <1>4, <2>1, ContentGrows
  <1>6. Shape'
    BY <1>1, <1>2, <1>5, PartsHold DEF Shape, modes
  <1>7. Faithful(b)'
    <2>1. high <= offered[b]
      BY <1>2, <1>3
    <2>2. /\ accepted[b] <= MaxBody /\ file[b] = "part"
          /\ (status[b] = "complete" => accepted[b] = offered[b])
      BY <1>1, BodyFacts DEF WriterIsSound, ActiveIn
    <2>3. WriterIsSound(b)'
      BY <1>1, <1>2, <1>3, <1>5, <2>2 DEF WriterIsSound, ActiveIn
    <2> QED
      BY <1>1, <1>5, <2>1, <2>3 DEF Faithful
  <1> QED
    BY <1>1, <1>5, <1>6, <1>7, LinkKeeps DEF ActiveIn

LEMMA WriteFailsKeeps ==
  ASSUME BodyInv, NEW b \in Bodies, NEW k \in Nat, WriteFails(b, k) PROVE BodyInv'
  <1> DEFINE low  == queue[b][1][1]
             high == queue[b][1][2]
             t    == SubSeq(Bytes(Head(queue[b])), 1, k)
  <1>1. /\ queue[b] # <<>> /\ phase[b] = "open" /\ ~writeFailed[b] /\ k < Size(Head(queue[b]))
        /\ queue' = [queue EXCEPT ![b] = Tail(@)]
        /\ content' = [content EXCEPT ![b] = @ \o t]
        /\ status' = [status EXCEPT ![b] = "write_error"]
        /\ writeFailed' = [writeFailed EXCEPT ![b] = TRUE]
        /\ pendingBytes' = pendingBytes - Size(Head(queue[b])) /\ pendingOperations' = pendingOperations - 1
        /\ UNCHANGED <<file, usedBytes, activeBodies, activeReaders, modes, phase, closed,
                       accepted, offered, exact>>
    BY DEF WriteFails
  <1>2. /\ low \in Nat /\ high \in Nat /\ 1 <= low /\ low <= high /\ high <= accepted[b]
        /\ queue' \in [Bodies -> Seq(Nat \X Nat)] /\ IsChain(queue'[b], accepted[b])
        /\ Head(queue[b]) = queue[b][1] /\ queue[b][1] \in Nat \X Nat
    BY <1>1, HeadFacts
  <1>3. /\ Written(b) \in Nat /\ low = Written(b) + 1 /\ accepted[b] \in Nat /\ offered[b] \in Nat
        /\ accepted[b] <= offered[b]
    BY <1>1, BodyFacts DEF WriterIsSound, ActiveIn
  <1>4. Written(b) + k \in Nat /\ Written(b) + k <= high /\ t = [i \in 1..k |-> Written(b) + i]
    <2> DEFINE c == queue[b][1]
    <2>1. Follows(c, Written(b)) /\ t = SubSeq(Bytes(c), 1, k) /\ high = c[2] /\ k < Size(c)
      BY <1>1, <1>2, <1>3 DEF Follows
    <2> HIDE DEF c, t, high
    <2>2. Written(b) + k \in Nat
      BY <1>3
    <2> QED
      BY <2>1, <2>2, FollowingBytes
  <1> HIDE DEF low, high, t
  <1>5. /\ content' \in [Bodies -> Seq(Nat)] /\ Written(b)' = Written(b) + k
        /\ \A i \in 1..(Written(b) + k) : content'[b][i] = i
        /\ \A x \in Bodies \ {b} : content'[x] = content[x]
    BY <1>1, <1>4, ContentGrows
  <1>6. /\ status'[b] = "write_error" /\ writeFailed'[b] = TRUE
        /\ \A x \in Bodies \ {b} : status'[x] = status[x] /\ writeFailed'[x] = writeFailed[x]
    BY <1>1, PartsHold DEF Shape
  <1>7. Shape'
    BY <1>1, <1>2, <1>5, PartsHold DEF Shape, modes
  <1>8. Faithful(b)'
    <2>1. Written(b) + k <= accepted[b] /\ Written(b) + k <= offered[b]
      BY <1>2, <1>3, <1>4
    <2>2. accepted[b] <= MaxBody /\ file[b] = "part"
      BY <1>1, BodyFacts DEF WriterIsSound, ActiveIn
    <2>3. WriterIsSound(b)'
      BY <1>1, <1>2, <1>3, <1>5, <1>6, <2>1, <2>2 DEF WriterIsSound, ActiveIn
    <2> QED
      BY <1>1, <1>5, <2>1, <2>3 DEF Faithful
  <1> QED
    BY <1>1, <1>5, <1>6, <1>7, <1>8, LinkKeeps DEF ActiveIn

LEMMA SkipChunkKeeps == ASSUME BodyInv, NEW b \in Bodies, SkipChunk(b) PROVE BodyInv'
  <1>1. /\ queue[b] # <<>> /\ phase[b] \in {"open", "unopened"} /\ writeFailed[b]
        /\ queue' = [queue EXCEPT ![b] = Tail(@)]
        /\ pendingBytes' = pendingBytes - Size(Head(queue[b])) /\ pendingOperations' = pendingOperations - 1
        /\ UNCHANGED <<file, content, usedBytes, activeBodies, activeReaders, modes, phase, status,
                       closed, accepted, writeFailed, offered, exact>>
    BY DEF SkipChunk, dirVars
  <1>2. queue' \in [Bodies -> Seq(Nat \X Nat)] /\ IsChain(queue'[b], accepted[b])
    BY <1>1, HeadFacts
  <1>3. Shape'
    BY <1>1, <1>2, PartsHold DEF Shape, modes
  <1>4. Faithful(b)'
    <2>1. Faithful(b) /\ WriterIsSound(b) /\ Written(b)' = Written(b)
      BY <1>1, BodyFacts DEF Written
    <2>2. WriterIsSound(b)'
      BY <1>1, <1>2, <2>1 DEF WriterIsSound, ActiveIn
    <2> QED
      BY <1>1, <2>1, <2>2 DEF Faithful
  <1> QED
    BY <1>1, <1>3, <1>4, LinkKeeps DEF ActiveIn

LEMMA FinishKeeps ==
  ASSUME BodyInv, NEW b \in Bodies, NEW interrupted \in BOOLEAN, Finish(b, interrupted) PROVE BodyInv'
  <1>1. /\ phase[b] \in ActiveIn /\ closed' = [closed EXCEPT ![b] = TRUE]
        /\ status' = [status EXCEPT ![b] = IF interrupted /\ @ = "complete" THEN "interrupted" ELSE @]
        /\ UNCHANGED <<file, content, gauges, modes, phase, accepted, queue, writeFailed, offered, exact>>
    BY DEF Finish, dirVars
  <1>2. /\ status'[b] = status[b] \/ status'[b] = "interrupted"
        /\ \A x \in Bodies \ {b} : status'[x] = status[x]
    BY <1>1, PartsHold DEF Shape
  <1>3. Shape'
    BY <1>1, PartsHold DEF Shape, modes
  <1>4. \A x \in Bodies \ {b} : Faithful(x)' /\ HeldOf(x)' = HeldOf(x)
    BY <1>1, <1>2, PartsHold, SameBody DEF EachIsFaithful
  <1>5. Faithful(b)' /\ HeldOf(b)' = HeldOf(b)
    <2>1. Faithful(b) /\ WriterIsSound(b) /\ Written(b)' = Written(b)
      BY <1>1, BodyFacts DEF Written
    <2>2. IsChain(queue'[b], accepted'[b])
      BY <1>1, BodyFacts
    <2>3. WriterIsSound(b)'
      BY <1>1, <1>2, <2>1, <2>2 DEF WriterIsSound, ActiveIn
    <2>4. Faithful(b)'
      BY <1>1, <1>2, <2>1, <2>3 DEF Faithful, ActiveIn
    <2> QED
      BY <1>1, <2>4 DEF HeldOf, Written
  <1>6. StoredIsFaithful'
    BY <1>4, <1>5, AllFaithful
  <1>7. RemovalIsExclusive' /\ HoldersAreCounted' /\ Pending'
    BY <1>1, RemovalSame, HoldersSame, PendingSame DEF modes, gauges
  <1>8. Used'
    BY <1>1, <1>3, <1>4, <1>5, <1>6, UsedSame DEF gauges, modes
  <1> QED
    BY <1>3, <1>6, <1>7, <1>8, Assembled, PTL

\* How a seal ends: the .part gets its name unless there is none or an error.
Sealed(b) ==
    \/ phase[b] = "unopened" /\ file' = file /\ status' = status
    \/ phase[b] = "open" /\ file' = [file EXCEPT ![b] = "body"] /\ status' = status
    \/ /\ phase[b] = "open" /\ file' \in {file, [file EXCEPT ![b] = "body"]}
       /\ status' = [status EXCEPT ![b] = "write_error"]

LEMMA SettleKeeps == ASSUME BodyInv, NEW b \in Bodies, Settle(b), Sealed(b) PROVE BodyInv'
  <1>1. /\ phase[b] \in {"open", "unopened"} /\ phase[b] \in ActiveIn /\ queue[b] = <<>>
        /\ usedBytes' = usedBytes - (accepted[b] - Written(b)) /\ activeBodies' = activeBodies - 1
        /\ phase' = [phase EXCEPT ![b] = "done"]
        /\ UNCHANGED <<content, pendingBytes, pendingOperations, activeReaders, modes, closed,
                       accepted, queue, writeFailed, offered, exact>>
    BY DEF Settle, Sealed, ActiveIn
  <1>2. /\ phase'[b] = "done" /\ file'[b] \in {file[b], "body"}
        /\ status'[b] \in {status[b], "write_error"}
        /\ status'[b] = "complete" => status[b] = "complete" /\ (phase[b] = "open" => file'[b] = "body")
        /\ phase[b] = "unopened" => file'[b] = file[b]
        /\ \A x \in Bodies \ {b} : /\ phase'[x] = phase[x] /\ file'[x] = file[x]
                                   /\ status'[x] = status[x]
    BY <1>1, PartsHold DEF Sealed, Shape
  <1>3. Shape'
    BY <1>1, PartsHold DEF Sealed, Shape, modes
  <1>4. \A x \in Bodies \ {b} : Faithful(x)' /\ HeldOf(x)' = HeldOf(x)
    BY <1>1, <1>2, PartsHold, SameBody DEF EachIsFaithful
  <1>5. /\ Faithful(b) /\ Written(b)' = Written(b) /\ Written(b) \in Nat /\ accepted[b] \in Nat
        /\ offered[b] \in Nat /\ Written(b) <= accepted[b] /\ accepted[b] <= offered[b]
        /\ accepted[b] <= MaxBody
        /\ phase[b] = "open" => file[b] = "part"
        /\ phase[b] = "unopened" => file[b] = "absent" /\ Written(b) = 0 /\ writeFailed[b]
        /\ status[b] = "complete" => Written(b) = offered[b] /\ ~writeFailed[b]
    BY <1>1, BodyFacts DEF WriterIsSound, Written, ActiveIn
  <1>6. Faithful(b)'
    <2>1. IsChain(queue'[b], accepted'[b])
      BY <1>1, BodyFacts
    <2>2. WriterIsSound(b)'
      BY <1>1, <1>2, <1>5, <2>1 DEF WriterIsSound, ActiveIn
    <2> QED
      BY <1>1, <1>2, <1>5, <2>2 DEF Faithful
  <1>7. StoredIsFaithful'
    BY <1>4, <1>6, AllFaithful
  <1>8. RemovalIsExclusive' /\ HoldersAreCounted' /\ Pending'
    <2>1. \A x \in Bodies : phase'[x] \in ActiveIn => phase[x] \in ActiveIn
      BY <1>1, <1>2
    <2> QED
      BY <1>1, <2>1, RemovalSame, HolderLeaves, PendingSame DEF modes
  <1>9. Used'
    <2>1. HeldOf(b) = 1..accepted[b]
      BY <1>1 DEF HeldOf
    <2>2. HeldOf(b)' = 1..Written(b)
      BY <1>1, <1>2, <1>5 DEF HeldOf, ActiveIn
    <2> QED
      BY <1>1, <1>3, <1>4, <1>5, <1>7, <2>1, <2>2, UsedFalls DEF modes
  <1> QED
    BY <1>3, <1>7, <1>8, <1>9, Assembled, PTL

LEMMA SealKeeps == ASSUME BodyInv, NEW b \in Bodies, Seal(b) PROVE BodyInv'
  <1>1. Settle(b)
    BY DEF Seal
  <1>2. file' = [file EXCEPT ![b] = IF phase[b] = "open" THEN "body" ELSE @] /\ status' = status
    BY DEF Seal
  <1>3. Sealed(b)
    BY <1>2, PartsHold DEF Seal, Sealed, Shape
  <1> QED
    BY <1>1, <1>3, SettleKeeps

LEMMA SealFailsKeeps == ASSUME BodyInv, NEW b \in Bodies, SealFails(b) PROVE BodyInv'
  BY SettleKeeps DEF SealFails, Sealed

---------------------------------------------------------------------------
(* Readers, recovery and removal *)

\* Steps that only move readers and modes leave every body as it was.
LEMMA BodiesSame ==
  ASSUME BodyInv, UNCHANGED <<dirVars, writers, offered>>
  PROVE  /\ StoredIsFaithful' /\ \A x \in Bodies : HeldOf(x)' = HeldOf(x)
         /\ \A x \in Bodies : phase'[x] \in ActiveIn <=> phase[x] \in ActiveIn
  <1>1. \A x \in Bodies : Faithful(x)' /\ HeldOf(x)' = HeldOf(x)
    BY PartsHold, SameBody DEF EachIsFaithful, dirVars, writers
  <1> QED
    BY <1>1, AllFaithful DEF writers

LEMMA OpenReadKeeps == ASSUME BodyInv, NEW b \in Bodies, OpenRead(b) PROVE BodyInv'
  <1>1. /\ removing = "no" /\ b \notin reading /\ reading' = reading \cup {b}
        /\ activeReaders' = activeReaders + 1
        /\ UNCHANGED <<dirVars, usedBytes, pendingBytes, pendingOperations, activeBodies, removing,
                       targets, recovering, writers, offered, exact>>
    BY DEF OpenRead
  <1>2. Shape'
    BY <1>1, PartsHold DEF Shape, dirVars, writers
  <1>3. StoredIsFaithful' /\ \A x \in Bodies : HeldOf(x)' = HeldOf(x)
    BY <1>1, BodiesSame
  <1>4. RemovalIsExclusive'
    BY <1>1, PartsHold DEF RemovalIsExclusive, writers, ActiveIn
  <1>5. HoldersAreCounted'
    <2>1. Cardinality(reading \cup {b}) = Cardinality(reading) + 1 /\ Cardinality(reading) \in Nat
      <3>1. IsFiniteSet(reading)
        BY PartsHold, Limits, FS_Subset DEF Shape
      <3> QED
        BY <1>1, <3>1, FS_AddElement, FS_CardinalityType
    <2>2. HoldersAreCounted
      BY PartsHold
    <2> QED
      BY <1>1, <2>1, <2>2 DEF HoldersAreCounted, writers, ActiveIn
  <1>6. Used' /\ Pending'
    BY <1>1, <1>2, <1>3, UsedSame, PendingSame DEF writers
  <1> QED
    BY <1>2, <1>3, <1>4, <1>5, <1>6, Assembled, PTL

LEMMA CloseReadKeeps == ASSUME BodyInv, NEW b \in Bodies, CloseRead(b) PROVE BodyInv'
  <1>1. /\ b \in reading /\ reading' = reading \ {b} /\ activeReaders' = activeReaders - 1
        /\ UNCHANGED <<dirVars, usedBytes, pendingBytes, pendingOperations, activeBodies, removing,
                       targets, recovering, writers, offered, exact>>
    BY DEF CloseRead
  <1>2. Shape'
    BY <1>1, PartsHold DEF Shape, dirVars, writers
  <1>3. StoredIsFaithful' /\ \A x \in Bodies : HeldOf(x)' = HeldOf(x)
    BY <1>1, BodiesSame
  <1>4. RemovalIsExclusive'
    BY <1>1, PartsHold DEF RemovalIsExclusive, writers, ActiveIn
  <1>5. HoldersAreCounted'
    <2>1. Cardinality(reading \ {b}) = Cardinality(reading) - 1 /\ Cardinality(reading) \in Nat
      <3>1. IsFiniteSet(reading)
        BY PartsHold, Limits, FS_Subset DEF Shape
      <3> QED
        BY <1>1, <3>1, FS_RemoveElement, FS_CardinalityType
    <2>2. HoldersAreCounted
      BY PartsHold
    <2> QED
      BY <1>1, <2>1, <2>2 DEF HoldersAreCounted, writers, ActiveIn
  <1>6. Used' /\ Pending'
    BY <1>1, <1>2, <1>3, UsedSame, PendingSame DEF writers
  <1> QED
    BY <1>2, <1>3, <1>4, <1>5, <1>6, Assembled, PTL

LEMMA RecoverKeeps == ASSUME BodyInv, NEW b \in Bodies, Recover(b) PROVE BodyInv'
  <1>1. /\ removing = "no" /\ recovering = NoBody /\ recovering' = b /\ b # NoBody
        /\ \A x \in Bodies : phase[x] \notin ActiveIn
        /\ activeReaders' = activeReaders + 1
        /\ UNCHANGED <<dirVars, usedBytes, pendingBytes, pendingOperations, activeBodies, removing,
                       targets, reading, writers, offered, exact>>
    BY Limits DEF Recover
  <1>2. Shape'
    BY <1>1, PartsHold DEF Shape, dirVars, writers
  <1>3. StoredIsFaithful' /\ \A x \in Bodies : HeldOf(x)' = HeldOf(x)
    BY <1>1, BodiesSame
  <1>4. RemovalIsExclusive'
    BY <1>1 DEF RemovalIsExclusive, writers, ActiveIn
  <1>5. HoldersAreCounted'
    <2>1. HoldersAreCounted /\ Cardinality(reading) \in Nat
      BY PartsHold, Limits, FS_Subset, FS_CardinalityType DEF Shape
    <2> QED
      BY <1>1, <2>1 DEF HoldersAreCounted, writers, ActiveIn
  <1>6. Used' /\ Pending'
    BY <1>1, <1>2, <1>3, UsedSame, PendingSame DEF writers
  <1> QED
    BY <1>2, <1>3, <1>4, <1>5, <1>6, Assembled, PTL

LEMMA RecoveredKeeps == ASSUME BodyInv, Recovered PROVE BodyInv'
  <1> DEFINE b == recovering
  <1>1. /\ b \in Bodies /\ recovering' = NoBody /\ activeReaders' = activeReaders - 1
        /\ file' \in {file, [file EXCEPT ![b] = IF @ = "part" THEN "body" ELSE @]}
        /\ UNCHANGED <<content, usedBytes, pendingBytes, pendingOperations, activeBodies, removing,
                       targets, reading, writers, offered, exact>>
        /\ \A x \in Bodies : phase[x] \notin ActiveIn
    BY PartsHold DEF Recovered, Shape, RemovalIsExclusive
  <1>2. /\ Shape' /\ \A x \in Bodies : file'[x] = file[x] \/ (file[x] = "part" /\ file'[x] = "body")
    BY <1>1, PartsHold DEF Shape, writers
  <1>3. \A x \in Bodies : Faithful(x)' /\ HeldOf(x)' = HeldOf(x)
    <2> TAKE x \in Bodies
    <2>1. /\ Faithful(x) /\ WriterIsSound(x) /\ Written(x)' = Written(x) /\ phase[x] \notin ActiveIn
          /\ IsChain(queue'[x], accepted'[x])
      BY <1>1, BodyFacts DEF Written, writers
    <2>2. WriterIsSound(x)'
      BY <1>1, <1>2, <2>1 DEF WriterIsSound, ActiveIn, writers
    <2>3. Faithful(x)'
      BY <1>1, <1>2, <2>1, <2>2 DEF Faithful, writers
    <2> QED
      BY <1>1, <1>2, <2>1, <2>3 DEF HeldOf, writers, ActiveIn
  <1>4. StoredIsFaithful'
    BY <1>3, AllFaithful
  <1>5. RemovalIsExclusive'
    BY <1>1, PartsHold DEF RemovalIsExclusive, writers, ActiveIn
  <1>6. HoldersAreCounted'
    <2>1. HoldersAreCounted /\ Cardinality(reading) \in Nat /\ recovering # NoBody
      BY <1>1, PartsHold, Limits, FS_Subset, FS_CardinalityType DEF Shape
    <2> QED
      BY <1>1, <2>1 DEF HoldersAreCounted, writers, ActiveIn
  <1>7. Used' /\ Pending'
    BY <1>1, <1>2, <1>3, <1>4, UsedSame, PendingSame DEF writers
  <1> QED
    BY <1>2, <1>4, <1>5, <1>6, <1>7, Assembled, PTL

\* A removal begins: both gauges are zero, so nobody holds the store.
LEMMA RemoveOriginalsKeeps ==
  ASSUME BodyInv, NEW ids \in SUBSET Bodies, RemoveOriginals(ids) PROVE BodyInv'
  <1>1. /\ removing' = "check" /\ targets' = ids /\ activeBodies = 0 /\ activeReaders = 0
        /\ UNCHANGED <<dirVars, gauges, reading, recovering, writers, offered, exact>>
        /\ removing = "no"
    BY DEF RemoveOriginals
  <1>2. Shape'
    BY <1>1, PartsHold DEF Shape, dirVars, writers
  <1>3. StoredIsFaithful' /\ \A x \in Bodies : HeldOf(x)' = HeldOf(x)
    BY <1>1, BodiesSame
  <1>4. RemovalIsExclusive'
    <2> DEFINE active == {x \in Bodies : phase[x] \in ActiveIn}
    <2>1. IsFiniteSet(active) /\ IsFiniteSet(reading)
      BY PartsHold, Limits, FS_Subset DEF Shape
    <2>2. Cardinality(active) = 0
      BY <1>1, PartsHold DEF HoldersAreCounted
    <2>3. Cardinality(reading) = 0 /\ recovering = NoBody
      <3>1. Cardinality(reading) \in Nat
        BY <2>1, FS_CardinalityType
      <3>2. 0 = Cardinality(reading) + (IF recovering = NoBody THEN 0 ELSE 1)
        BY <1>1, PartsHold DEF HoldersAreCounted
      <3> QED
        BY <3>1, <3>2
    <2>4. active = {} /\ reading = {}
      <3> HIDE DEF active
      <3> QED
        BY <2>1, <2>2, <2>3, FS_EmptySet
    <2> QED
      BY <1>1, <2>3, <2>4 DEF RemovalIsExclusive, writers, ActiveIn
  <1>5. HoldersAreCounted' /\ Pending'
    BY <1>1, BodiesSame, HoldersSame, PendingSame DEF gauges, writers
  <1>6. Used'
    BY <1>1, <1>2, <1>3, UsedSame DEF gauges
  <1> QED
    BY <1>2, <1>3, <1>4, <1>5, <1>6, Assembled, PTL

\* Inspection, the end of the unlinks and a failed recount move the removal only.
LEMMA RemovalStepKeeps ==
  ASSUME BodyInv, Checked \/ Unlinked \/ RecountFails PROVE BodyInv'
  <1>1. /\ removing' \in {"no", "unlink", "count"} /\ removing # "no" /\ targets' \subseteq Bodies
        /\ exact' \in BOOLEAN /\ (exact' /\ removing' = "no" => FALSE)
        /\ UNCHANGED <<dirVars, gauges, reading, recovering, writers, offered>>
    BY PartsHold DEF Checked, Unlinked, RecountFails, Shape
  <1>2. Shape'
    BY <1>1, PartsHold DEF Shape, dirVars, writers
  <1>3. StoredIsFaithful' /\ \A x \in Bodies : HeldOf(x)' = HeldOf(x)
    BY <1>1, BodiesSame
  <1>4. RemovalIsExclusive'
    BY <1>1, PartsHold DEF RemovalIsExclusive, writers, ActiveIn
  <1>5. HoldersAreCounted' /\ Pending'
    BY <1>1, BodiesSame, HoldersSame, PendingSame DEF gauges, writers
  <1>6. Used'
    BY <1>1, <1>2, <1>3, UsedSame DEF gauges
  <1> QED
    BY <1>2, <1>3, <1>4, <1>5, <1>6, Assembled, PTL

\* An original goes: what it held stays counted until the recount.
LEMMA UnlinkKeeps == ASSUME BodyInv, NEW b \in Bodies, Unlink(b) PROVE BodyInv'
  <1>1. /\ removing = "unlink" /\ file' = [file EXCEPT ![b] = "absent"] /\ targets' = targets \ {b}
        /\ UNCHANGED <<content, gauges, removing, reading, recovering, writers, offered, exact>>
        /\ \A x \in Bodies : phase[x] \notin ActiveIn
    BY PartsHold DEF Unlink, RemovalIsExclusive
  <1>2. Shape'
    BY <1>1, PartsHold DEF Shape, writers
  <1>3. file'[b] = "absent" /\ \A x \in Bodies \ {b} : file'[x] = file[x]
    BY <1>1, PartsHold DEF Shape
  <1>4. \A x \in Bodies : Faithful(x)' /\ HeldOf(x)' \subseteq HeldOf(x)
    <2> TAKE x \in Bodies
    <2>1. /\ Faithful(x) /\ WriterIsSound(x) /\ Written(x)' = Written(x) /\ phase[x] \notin ActiveIn
          /\ IsChain(queue'[x], accepted'[x]) /\ file'[x] \in {file[x], "absent"}
      BY <1>1, <1>3, BodyFacts DEF Written, writers
    <2>2. WriterIsSound(x)'
      BY <1>1, <2>1 DEF WriterIsSound, ActiveIn, writers
    <2>3. Faithful(x)'
      BY <1>1, <2>1, <2>2 DEF Faithful, writers
    <2> QED
      BY <1>1, <2>1, <2>3 DEF HeldOf, writers, ActiveIn
  <1>5. StoredIsFaithful'
    BY <1>4, AllFaithful
  <1>6. RemovalIsExclusive' /\ HoldersAreCounted' /\ Pending'
    BY <1>1, RemovalSame, HoldersSame, PendingSame DEF gauges, writers
  <1>7. Used'
    BY <1>1, <1>2, <1>4, <1>5, UsedShrinks DEF gauges
  <1> QED
    BY <1>2, <1>5, <1>6, <1>7, Assembled, PTL

\* The recount: nobody writes, so what the directory holds is all that is used.
LEMMA RecountKeeps == ASSUME BodyInv, Recount PROVE BodyInv'
  <1>1. /\ removing = "count" /\ removing' = "no" /\ usedBytes' = DiskBytes /\ exact' = TRUE
        /\ UNCHANGED <<dirVars, pendingBytes, pendingOperations, activeBodies, activeReaders,
                       targets, reading, recovering, writers, offered>>
    BY DEF Recount
  <1>2. Shape'
    BY <1>1, PartsHold DEF Shape, dirVars, writers
  <1>3. StoredIsFaithful'
    BY <1>1, BodiesSame
  <1>4. \A x \in Bodies : phase'[x] \notin ActiveIn
    BY <1>1, PartsHold DEF RemovalIsExclusive, writers
  <1>5. RemovalIsExclusive'
    BY <1>1, PartsHold DEF RemovalIsExclusive, writers, ActiveIn
  <1>6. HoldersAreCounted' /\ Pending'
    BY <1>1, BodiesSame, HoldersSame, PendingSame DEF writers
  <1>7. Used'
    BY <1>1, <1>2, <1>4, UsedCounted
  <1> QED
    BY <1>2, <1>3, <1>5, <1>6, <1>7, Assembled, PTL

\* The next process finds the files and nobody at work.
LEMMA RestartKeeps == ASSUME BodyInv, Restart PROVE BodyInv'
  <1>1. /\ usedBytes' = DiskBytes /\ exact' = TRUE /\ pendingBytes' = 0 /\ pendingOperations' = 0
        /\ activeBodies' = 0 /\ activeReaders' = 0 /\ removing' = "no" /\ targets' = {}
        /\ reading' = {} /\ recovering' = NoBody
        /\ phase' = [x \in Bodies |-> IF phase[x] \in ActiveIn THEN "lost" ELSE phase[x]]
        /\ queue' = [x \in Bodies |-> <<>>]
        /\ UNCHANGED <<dirVars, status, closed, accepted, writeFailed, offered>>
    BY DEF Restart
  <1>2. Shape'
    <2>1. phase' \in [Bodies -> ActiveIn \cup {"new", "done", "lost"}]
      BY <1>1, PartsHold DEF Shape
    <2>2. queue' \in [Bodies -> Seq(Nat \X Nat)]
      BY <1>1
    <2> QED
      BY <1>1, <2>1, <2>2, PartsHold DEF Shape, dirVars, ActiveIn
  <1>3. \A x \in Bodies : phase'[x] \notin ActiveIn /\ queue'[x] = <<>>
    BY <1>1, PartsHold DEF Shape, ActiveIn
  <1>4. \A x \in Bodies : Faithful(x)'
    <2> TAKE x \in Bodies
    <2>1. /\ phase'[x] = "lost" \/ (phase'[x] = phase[x] /\ phase[x] \notin ActiveIn)
          /\ Written(x)' = Written(x) /\ Faithful(x) /\ WriterIsSound(x)
      BY <1>1, BodyFacts DEF Written, dirVars
    <2>2. IsChain(queue'[x], accepted'[x])
      BY <1>3 DEF IsChain
    <2>3. WriterIsSound(x)'
      BY <1>1, <1>3, <2>1, <2>2 DEF WriterIsSound, ActiveIn, dirVars
    <2> QED
      BY <1>1, <2>1, <2>3 DEF Faithful, dirVars
  <1>5. StoredIsFaithful'
    BY <1>4, AllFaithful
  <1>6. RemovalIsExclusive'
    BY <1>1 DEF RemovalIsExclusive
  <1>7. HoldersAreCounted'
    <2>1. {x \in Bodies : phase'[x] \in ActiveIn} = {}
      BY <1>3
    <2> QED
      BY <1>1, <2>1, FS_EmptySet DEF HoldersAreCounted, ActiveIn
  <1>8. Pending'
    <2>1. QueuedChunks' = {}
      BY <1>3 DEF QueuedChunks
    <2>2. QueuedBytes' = {}
      BY <2>1 DEF QueuedBytes
    <2> QED
      BY <1>1, <2>1, <2>2, Limits, FS_EmptySet DEF Pending, PendingIsQueued
  <1>9. Used'
    BY <1>1, <1>2, <1>3, UsedCounted
  <1> QED
    BY <1>2, <1>5, <1>6, <1>7, <1>8, <1>9, Assembled, PTL

---------------------------------------------------------------------------
(* The invariant of the store *)

LEMMA BodyInit == Init => BodyInv
  <1> SUFFICES ASSUME Init PROVE BodyInv
    OBVIOUS
  <1>1. Shape
    BY DEF Init, Shape, ActiveIn
  <1>2. StoredIsFaithful
    BY Limits DEF Init, StoredIsFaithful, StoredIsPrefix, CompleteIsAll, WriterIsSound, IsChain,
                  Written, ActiveIn
  <1>3. RemovalIsExclusive
    BY DEF Init, RemovalIsExclusive
  <1>4. HoldersAreCounted
    <2>1. {b \in Bodies : phase[b] \in ActiveIn} = {}
      BY DEF Init, ActiveIn
    <2>2. activeBodies = 0 /\ activeReaders = 0 /\ reading = {} /\ recovering = NoBody
      BY DEF Init
    <2> QED
      BY <2>1, <2>2, FS_EmptySet DEF HoldersAreCounted
  <1>5. Pending
    <2>1. QueuedChunks = {}
      BY DEF Init, QueuedChunks
    <2>2. QueuedBytes = {}
      BY <2>1 DEF QueuedBytes
    <2> QED
      BY <2>1, <2>2, Limits, FS_EmptySet DEF Init, Pending, PendingIsQueued
  <1>6. Used
    <2>1. OnDisk = {} /\ Reserved = {}
      BY DEF Init, OnDisk, Reserved, ActiveIn
    <2>2. OnDisk \cup Reserved = {}
      BY <2>1
    <2>3. usedBytes = 0 /\ Quota \in Nat /\ Cardinality(OnDisk \cup Reserved) = 0
      BY <2>2, Limits, FS_EmptySet DEF Init
    <2> QED
      BY <2>3 DEF Used, UsedIsAccounted
  <1> QED
    BY <1>1, <1>2, <1>3, <1>4, <1>5, <1>6, Assembled

LEMMA StutterKeeps == ASSUME BodyInv, UNCHANGED vars PROVE BodyInv'
  <1>1. UNCHANGED <<dirVars, gauges, modes, writers, offered, exact>>
    BY DEF vars
  <1>2. Shape'
    BY <1>1, PartsHold DEF Shape, dirVars, modes, writers
  <1>3. StoredIsFaithful' /\ \A x \in Bodies : HeldOf(x)' = HeldOf(x)
    BY <1>1, BodiesSame
  <1>4. RemovalIsExclusive' /\ HoldersAreCounted' /\ Pending'
    BY <1>1, RemovalSame, HoldersSame, PendingSame DEF gauges, modes, writers
  <1>5. Used'
    BY <1>1, <1>2, <1>3, UsedSame DEF gauges, modes
  <1> QED
    BY <1>2, <1>3, <1>4, <1>5, Assembled, PTL

\* Every step of the store keeps the invariant.
LEMMA BodyStep == ASSUME BodyInv, [Next]_vars PROVE BodyInv'
  <1>1. ASSUME NEW b \in Bodies, Chain(b) PROVE BodyInv'
    <2>1. ASSUME NEW k \in 0..(MaxBody - 1), WriteFails(b, k) PROVE BodyInv'
      <3>1. k \in Nat
        BY Limits
      <3> QED
        BY <2>1, <3>1, WriteFailsKeeps
    <2> QED
      BY <1>1, <2>1, OpenedKeeps, OpenFailsKeeps, WriteChunkKeeps, SkipChunkKeeps, SealKeeps,
         SealFailsKeeps DEF Chain
  <1>2. ASSUME NEW b \in Bodies,
               \/ Begin(b) \/ OpenRead(b) \/ CloseRead(b) \/ Recover(b) \/ Unlink(b)
               \/ \E n \in ChunkSizes : AppendChunk(b, n)
               \/ \E interrupted \in BOOLEAN : Finish(b, interrupted)
        PROVE  BodyInv'
    BY <1>2, BeginKeeps, OpenReadKeeps, CloseReadKeeps, RecoverKeeps, UnlinkKeeps, AppendChunkKeeps,
       FinishKeeps
  <1>3. ASSUME NEW ids \in SUBSET Bodies, RemoveOriginals(ids) PROVE BodyInv'
    BY <1>3, RemoveOriginalsKeeps
  <1> QED
    BY <1>1, <1>2, <1>3, RecoveredKeeps, RemovalStepKeeps, RecountKeeps, RestartKeeps, StutterKeeps
       DEF Next

LEMMA BodyInvariant == Spec => []BodyInv
  <1>1. BodyInv /\ [Next]_vars => BodyInv'
    BY BodyStep
  <1> QED
    BY <1>1, BodyInit, PTL DEF Spec

\* The gauges all bodies share are exact, whatever fails: usedBytes is what the
\* directory holds and the writers reserved (more only while a removal awaits
\* its recount), the queue gauges are the chunks still queued, the holders are
\* counted, and quota and queue limits hold.
THEOREM AccountingStaysExact == Spec => []AccountingIsExact
  <1>1. BodyInv => AccountingIsExact
    BY DEF BodyInv
  <1> QED
    BY <1>1, BodyInvariant, PTL

\* A stored body is a prefix of what the proxy handed over, and one reported
\* complete is all of it, through every failure and crash.
THEOREM StoredStaysFaithful == Spec => []StoredIsFaithful
  <1>1. BodyInv => StoredIsFaithful
    BY DEF BodyInv
  <1> QED
    BY <1>1, BodyInvariant, PTL

\* Originals are removed only while nobody writes, reads or recovers one, and
\* recovered only while nobody writes.
THEOREM RemovalStaysExclusive == Spec => []RemovalIsExclusive
  <1>1. BodyInv => RemovalIsExclusive
    BY DEF BodyInv
  <1> QED
    BY <1>1, BodyInvariant, PTL
===========================================================================
