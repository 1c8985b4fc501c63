--------------------------- MODULE StorageProofs ---------------------------
(***************************************************************************)
(* Proofs about the write-ahead log, for any number of records, sessions,  *)
(* crashes and failed writes; about the sketches, for any hash functions;  *)
(* and about the two caches and the LSM tree, for any keys and sizes.      *)
(***************************************************************************)
EXTENDS Storage, Sequences, FiniteSetTheorems, NaturalsInduction, WellFoundedInduction, TLAPS

Rec == [id : Nat, seq : Nat, op : {"put", "delete"}, key : LogKeys,
        value : LogValues \cup {Log!NoValue}]
Item == Rec \cup {Log!Torn}

\* Item i of s comes before the first unreadable one, so that readAll returns it.
Good(s, i) == i \in 1 .. Len(s) /\ \A j \in 1 .. i : Log!Readable(s[j])

\* The records before the first unreadable item have increasing numbers, none above q.
Ordered(s) == \A i, j \in 1 .. Len(s) : i < j /\ Good(s, j) => s[i].seq < s[j].seq
Bounded(s, q) == \A i \in 1 .. Len(s) : Good(s, i) => s[i].seq <= q

\* The records of S are among the first n items and before the first unreadable one.
Durable(S, s, n) == \A x \in S : \E i \in 1 .. n : Good(s, i) /\ s[i].id = x

\* What is promised is on the device, before anything unreadable; what an unsynced
\* Truncate can bring back is older than every promise.
FileInv ==
    /\ log \in Seq(Item) /\ stale \in Seq(Item)
    /\ flushed \in Nat /\ synced \in Nat /\ synced <= flushed /\ flushed <= Len(log)
    /\ Durable(sound, log, synced)
    /\ stale # <<>> => sound = {}
    /\ Ordered(log) /\ Ordered(stale)

\* An open log numbers the next record above those it would recover.
SessionInv == seq \in Nat /\ appends \in Nat /\ (open => Bounded(log, seq))

LogInv == FileInv /\ SessionInv

-----------------------------------------------------------------------------
(* Loops. A set of numbers has a least element, which is how a loop's      *)
(* result is shown by induction: the first pass that breaks a claim does   *)
(* not exist.                                                              *)

LEMMA LeastOf ==
    ASSUME NEW S, S \subseteq Nat, S # {}
    PROVE  \E n \in S : \A k \in S : n <= k
<1>1. PICK n \in S : \A k \in S : ~ (<<k, n>> \in OpToRel(<, Nat))
  BY WFMin, NatLessThanWellFounded
<1>2. \A k \in S : ~ (k < n)
  BY <1>1 DEF OpToRel
<1> QED BY <1>2

\* A set of numbers that has 0 and with every number below N the next one, has them all.
LEMMA CountUp ==
    ASSUME NEW N \in Nat, NEW S, 0 \in S,
           \A k \in 1 .. N : k - 1 \in S => k \in S
    PROVE  \A k \in 0 .. N : k \in S
<1> DEFINE Bad == {k \in 0 .. N : k \notin S}
<1>1. SUFFICES ASSUME Bad # {} PROVE FALSE
  OBVIOUS
<1>2. Bad \subseteq Nat
  OBVIOUS
<1>3. PICK k \in Bad : \A l \in Bad : k <= l
  <2> HIDE DEF Bad
  <2> QED BY <1>1, <1>2, LeastOf
<1>4. k \in 1 .. N /\ k - 1 \in 0 .. N /\ ~ (k <= k - 1)
  BY <1>3
<1>5. k - 1 \in S
  BY <1>3, <1>4
<1> QED BY <1>3, <1>4, <1>5

\* A loop of N passes that starts from a and makes F[k][x] of x in pass k.
Passes(F, N, S) == F \in [1 .. N -> [S -> S]]

RunOf(g, F, N, S, a) ==
    g \in [0 .. N -> S] /\ g[0] = a /\ \A k \in 1 .. N : g[k] = F[k][g[k - 1]]

LEMMA LoopRuns ==
    ASSUME NEW N \in Nat, NEW S, NEW a \in S, NEW F, Passes(F, N, S)
    PROVE  \E g : RunOf(g, F, N, S, a)
<1> USE DEF Passes
<1> DEFINE Run(g, n) == g[0] = a /\ \A k \in 1 .. n : g[k] = F[k][g[k - 1]]
           Runs == {n \in 0 .. N : \E g \in [0 .. n -> S] : Run(g, n)}
<1>1. 0 \in Runs
  <2>1. [k \in 0 .. 0 |-> a] \in [0 .. 0 -> S] /\ Run([k \in 0 .. 0 |-> a], 0)
    OBVIOUS
  <2>2. 0 \in 0 .. N /\ \E f \in [0 .. 0 -> S] : Run(f, 0)
    <3> HIDE DEF Run
    <3> QED BY <2>1
  <2> HIDE DEF Run
  <2> QED BY <2>2
<1>2. ASSUME NEW n \in 1 .. N, n - 1 \in Runs PROVE n \in Runs
  <2>1. PICK g \in [0 .. (n - 1) -> S] : Run(g, n - 1)
    BY <1>2
  <2> DEFINE x == F[n][g[n - 1]]
             h == [k \in 0 .. n |-> IF k = n THEN x ELSE g[k]]
  <2>2. x \in S
    <3>1. n - 1 \in 0 .. (n - 1)
      OBVIOUS
    <3>2. g[n - 1] \in S
      BY <2>1, <3>1
    <3> QED BY <3>2
  <2>3. h \in [0 .. n -> S]
    BY <2>1, <2>2
  <2>4. h[0] = a
    BY <2>1
  <2>5. ASSUME NEW k \in 1 .. n PROVE h[k] = F[k][h[k - 1]]
    <3>1. h[k - 1] = g[k - 1]
      OBVIOUS
    <3>2. CASE k = n
      BY <3>1, <3>2
    <3>3. CASE k # n
      <4>1. k \in 1 .. (n - 1) /\ h[k] = g[k]
        BY <3>3
      <4> QED BY <2>1, <3>1, <4>1
    <3> QED BY <3>2, <3>3
  <2>6. Run(h, n)
    BY <2>4, <2>5
  <2>7. \E f \in [0 .. n -> S] : Run(f, n)
    <3> HIDE DEF Run, h
    <3> QED BY <2>3, <2>6
  <2>8. n \in 0 .. N
    OBVIOUS
  <2> HIDE DEF Run
  <2> QED BY <2>7, <2>8
<1>3. N \in 0 .. N
  OBVIOUS
<1>4. N \in Runs
  <2> HIDE DEF Runs
  <2> QED BY <1>1, <1>2, <1>3, CountUp
<1> QED BY <1>4 DEF RunOf

-----------------------------------------------------------------------------
(* The log file.                                                           *)

LEMMA ItemFacts ==
    /\ Log!Torn \in Item /\ Log!Torn.op = "torn"
    /\ \A r \in Rec : r \in Item /\ r.op # "torn" /\ r.seq \in Nat /\ r.id \in Nat /\ r.key \in LogKeys
    /\ ~ Log!Readable(Log!Torn)
    /\ \A r \in Item : Log!Readable(r) => r \in Rec
<1>1. Log!Torn \in Item /\ Log!Torn.op = "torn" /\ ~ Log!Readable(Log!Torn)
  BY DEF Item, Log!Torn, Log!Readable
<1>2. ASSUME NEW r \in Rec
      PROVE  r \in Item /\ r.op # "torn" /\ r.seq \in Nat /\ r.id \in Nat /\ r.key \in LogKeys
  <2>1. r \in Item
    BY DEF Item
  <2>2. r.seq \in Nat /\ r.id \in Nat /\ r.key \in LogKeys /\ r.op \in {"put", "delete"}
    BY DEF Rec
  <2> QED BY <2>1, <2>2
<1>3. \A r \in Item : Log!Readable(r) => r \in Rec
  BY <1>1 DEF Item
<1> QED BY <1>1, <1>2, <1>3

\* readAll returns the items before the first unreadable one.
Reads(r, s) ==
    /\ r \in Seq(Rec)
    /\ Len(r) <= Len(s)
    /\ \A i \in 1 .. Len(s) : i <= Len(r) <=> Good(s, i)
    /\ \A i \in 1 .. Len(r) : r[i] = s[i]

LEMMA readAllReads ==
    ASSUME NEW s \in Seq(Item)
    PROVE  Reads(Log!readAll(s), s)
<1> DEFINE ends == {i \in DOMAIN s : ~ Log!Readable(s[i])}
           first == CHOOSE i \in ends : \A j \in ends : i <= j
<1>1. Len(s) \in Nat /\ DOMAIN s = 1 .. Len(s) /\ \A i \in 1 .. Len(s) : s[i] \in Item
  OBVIOUS
<1>2. Log!readAll(s) = IF ends = {} THEN s ELSE SubSeq(s, 1, first - 1)
  BY DEF Log!readAll
<1>3. CASE ends = {}
  <2>1. Log!readAll(s) = s
    BY <1>2, <1>3
  <2>2. \A i \in 1 .. Len(s) : Log!Readable(s[i]) /\ s[i] \in Rec
    BY <1>1, <1>3, ItemFacts
  <2>3. \A i \in 1 .. Len(s) : Good(s, i)
    BY <1>1, <2>2 DEF Good
  <2>4. s \in Seq(Rec)
    BY <1>1, <2>2
  <2> QED BY <1>1, <2>1, <2>3, <2>4 DEF Reads
<1>4. CASE ends # {}
  <2>1. ends \subseteq Nat
    BY <1>1
  <2>2. \E i \in ends : \A j \in ends : i <= j
    <3> HIDE DEF ends
    <3> QED BY <1>4, <2>1, LeastOf
  <2>3. first \in ends /\ \A j \in ends : first <= j
    <3> HIDE DEF ends
    <3> QED BY <2>2
  <2> HIDE DEF first
  <2>4. first \in 1 .. Len(s) /\ ~ Log!Readable(s[first])
    BY <1>1, <2>3
  <2>5. \A i \in 1 .. Len(s) : i < first => Log!Readable(s[i]) /\ s[i] \in Rec
    <3> SUFFICES ASSUME NEW i \in 1 .. Len(s), i < first PROVE Log!Readable(s[i])
      BY <1>1, ItemFacts
    <3>1. i \notin ends
      BY <1>1, <2>3, <2>4
    <3> QED BY <1>1, <3>1
  <2> HIDE DEF ends
  <2> DEFINE r == SubSeq(s, 1, first - 1)
  <2>6. Len(r) = first - 1 /\ \A i \in 1 .. (first - 1) : r[i] = s[i]
    BY <1>1, <2>4
  <2>7. r \in Seq(Rec)
    <3>1. r = [i \in 1 .. (first - 1) |-> s[i]]
      BY <1>1, <2>4
    <3>2. r \in [1 .. (first - 1) -> Rec]
      <4>1. \A i \in 1 .. (first - 1) : i \in 1 .. Len(s) /\ i < first
        BY <1>1, <2>4
      <4>2. \A i \in 1 .. (first - 1) : s[i] \in Rec
        BY <2>5, <4>1
      <4> HIDE DEF r, Rec
      <4> QED BY <3>1, <4>2
    <3> HIDE DEF r
    <3> QED BY <1>1, <2>4, <3>2
  <2>8. \A i \in 1 .. Len(s) : i <= first - 1 <=> Good(s, i)
    BY <1>1, <2>4, <2>5 DEF Good
  <2>9. Log!readAll(s) = r
    BY <1>2, <1>4
  <2> HIDE DEF r
  <2> QED BY <1>1, <2>4, <2>6, <2>7, <2>8, <2>9 DEF Reads
<1> QED BY <1>3, <1>4

\* r is the first n items of s, perhaps with a fragment behind them.
Shortened(r, s, n) ==
    /\ r \in Seq(Item) /\ n \in 0 .. Len(s) /\ n <= Len(r)
    /\ \A i \in 1 .. n : r[i] = s[i]
    /\ \A i \in 1 .. Len(r) : i > n => ~ Log!Readable(r[i])

LEMMA Shortenings ==
    ASSUME NEW s \in Seq(Item), NEW n \in 0 .. Len(s)
    PROVE  /\ Shortened(s, s, Len(s))
           /\ Shortened(SubSeq(s, 1, n), s, n)
           /\ \A t \in {<<>>, <<Log!Torn>>} : Shortened(SubSeq(s, 1, n) \o t, s, n)
<1>1. Len(s) \in Nat
  OBVIOUS
<1>2. Shortened(s, s, Len(s))
  BY DEF Shortened
<1> DEFINE r == SubSeq(s, 1, n)
<1>3. r \in Seq(Item) /\ Len(r) = n /\ \A i \in 1 .. n : r[i] = s[i]
  BY <1>1
<1> HIDE DEF r
<1>4. Shortened(r, s, n)
  BY <1>3 DEF Shortened
<1>5. r \o <<>> = r
  BY <1>3
<1>6. Shortened(r \o <<Log!Torn>>, s, n)
  <2>1. /\ r \o <<Log!Torn>> \in Seq(Item) /\ Len(r \o <<Log!Torn>>) = n + 1
        /\ \A i \in 1 .. n : (r \o <<Log!Torn>>)[i] = r[i]
        /\ (r \o <<Log!Torn>>)[n + 1] = Log!Torn
    <3>1. Log!Torn \in Item
      BY ItemFacts
    <3> QED BY <1>3, <3>1
  <2> HIDE DEF Log!Torn
  <2> QED BY <1>1, <1>3, <2>1, ItemFacts DEF Shortened
<1> QED BY <1>2, <1>4, <1>5, <1>6 DEF r

LEMMA ShortenedKeeps ==
    ASSUME NEW s \in Seq(Item), NEW n, NEW r, Shortened(r, s, n)
    PROVE  /\ \A i \in 1 .. Len(r) : Good(r, i) <=> i <= n /\ Good(s, i)
           /\ \A i \in 1 .. n : Good(r, i) <=> Good(s, i)
           /\ \A i \in 1 .. Len(r) : Good(r, i) => r[i] = s[i]
           /\ Ordered(s) => Ordered(r)
           /\ \A q \in Nat : Bounded(s, q) => Bounded(r, q)
           /\ \A S : \A k \in 0 .. n : Durable(S, s, k) <=> Durable(S, r, k)
<1>1. /\ Len(s) \in Nat /\ Len(r) \in Nat /\ n \in Nat /\ n <= Len(s) /\ n <= Len(r)
      /\ \A i \in 1 .. n : r[i] = s[i]
      /\ \A i \in 1 .. Len(r) : i > n => ~ Log!Readable(r[i])
  BY DEF Shortened
<1>2. \A i \in 1 .. n : Good(r, i) <=> Good(s, i)
  BY <1>1 DEF Good
<1>3. \A i \in 1 .. Len(r) : Good(r, i) => i <= n
  BY <1>1 DEF Good
<1>4. \A i \in 1 .. Len(r) : Good(r, i) <=> i <= n /\ Good(s, i)
  BY <1>1, <1>2, <1>3
<1>5. \A i \in 1 .. Len(r) : Good(r, i) => r[i] = s[i]
  BY <1>1, <1>3
<1>6. Ordered(s) => Ordered(r)
  BY <1>1, <1>3, <1>4 DEF Ordered
<1>7. \A q \in Nat : Bounded(s, q) => Bounded(r, q)
  BY <1>1, <1>4, <1>5 DEF Bounded
<1>8. \A S : \A k \in 0 .. n : Durable(S, s, k) <=> Durable(S, r, k)
  BY <1>1, <1>2 DEF Durable
<1> QED BY <1>2, <1>4, <1>5, <1>6, <1>7, <1>8

\* A record numbered above the others keeps the order when it is appended.
LEMMA AppendKeeps ==
    ASSUME NEW s \in Seq(Item), NEW r \in Rec, NEW q \in Nat, r.seq = q + 1,
           Ordered(s), Bounded(s, q)
    PROVE  /\ Append(s, r) \in Seq(Item) /\ Len(Append(s, r)) = Len(s) + 1
           /\ \A i \in 1 .. Len(s) : Append(s, r)[i] = s[i]
           /\ Ordered(Append(s, r)) /\ Bounded(Append(s, r), q + 1)
<1> DEFINE a == Append(s, r)
<1>1. r \in Item /\ r.op # "torn" /\ Len(s) \in Nat
  BY ItemFacts
<1>2. /\ a \in Seq(Item) /\ Len(a) = Len(s) + 1
      /\ \A i \in 1 .. Len(s) : a[i] = s[i]
      /\ a[Len(s) + 1] = r
  BY <1>1
<1> HIDE DEF a
<1>3. \A i \in 1 .. Len(s) : Good(a, i) <=> Good(s, i)
  BY <1>1, <1>2 DEF Good
<1>4. Good(a, Len(s) + 1) => \A i \in 1 .. Len(s) : Good(s, i)
  BY <1>1, <1>2, SMTT(20) DEF Good
<1>5. \A i \in 1 .. Len(s) : Good(s, i) => s[i].seq \in Nat
  BY ItemFacts DEF Good
<1>6. Ordered(a)
  <2> SUFFICES ASSUME NEW i \in 1 .. Len(a), NEW j \in 1 .. Len(a), i < j, Good(a, j)
               PROVE  a[i].seq < a[j].seq
    BY DEF Ordered
  <2>1. i \in 1 .. Len(s) /\ a[i] = s[i]
    BY <1>1, <1>2
  <2>2. CASE j = Len(s) + 1
    <3>1. Good(s, i)
      BY <1>4, <2>1, <2>2
    <3>2. s[i].seq \in Nat /\ s[i].seq <= q
      BY <1>5, <2>1, <3>1 DEF Bounded
    <3>3. a[j].seq = q + 1
      BY <1>2, <2>2
    <3> QED BY <2>1, <3>2, <3>3
  <2>3. CASE j # Len(s) + 1
    <3>1. j \in 1 .. Len(s) /\ a[j] = s[j]
      BY <1>1, <1>2, <2>3
    <3>2. Good(s, j)
      BY <1>3, <3>1
    <3> QED BY <2>1, <3>1, <3>2 DEF Ordered
  <2> QED BY <2>2, <2>3
<1>7. Bounded(a, q + 1)
  <2> SUFFICES ASSUME NEW i \in 1 .. Len(a), Good(a, i) PROVE a[i].seq <= q + 1
    BY DEF Bounded
  <2>1. CASE i = Len(s) + 1
    BY <1>2, <2>1
  <2>2. CASE i # Len(s) + 1
    <3>1. i \in 1 .. Len(s) /\ a[i] = s[i]
      BY <1>1, <1>2, <2>2
    <3>2. s[i].seq \in Nat /\ s[i].seq <= q
      BY <1>3, <1>5, <3>1 DEF Bounded
    <3> QED BY <3>1, <3>2
  <2> QED BY <2>1, <2>2
<1> QED BY <1>2, <1>6, <1>7 DEF a

\* s is the log, perhaps with a record behind it, and its records stay in order.
Extends(s) == Shortened(log, s, Len(log)) /\ s \in Seq(Item) /\ Ordered(s)

\* What is written through to the device is promised, as far as it can be read back.
LEMMA FlushedIsDurable ==
    ASSUME NEW s, FileInv, Extends(s), Log!flushAndSync(s)
    PROVE  FileInv'
<1> DEFINE Promised == {s[i].id : i \in {i \in DOMAIN s : \A j \in 1 .. i : Log!Readable(s[j])}}
<1>1. /\ log \in Seq(Item) /\ synced \in Nat /\ flushed \in Nat /\ synced <= flushed /\ flushed <= Len(log)
      /\ Durable(sound, log, synced)
  BY DEF FileInv
<1>2. s \in Seq(Item) /\ Len(s) \in Nat /\ Len(log) \in 0 .. Len(s) /\ Ordered(s)
  BY DEF Extends, Shortened
<1>3. /\ log' = s /\ flushed' = Len(s) /\ synced' = Len(s) /\ stale' = <<>>
      /\ sound' = sound \cup Promised
  BY DEF Log!flushAndSync, Log!Acknowledge
<1>4. Durable(sound, s, synced)
  <2>1. synced \in 0 .. Len(log)
    BY <1>1, <1>2
  <2>2. Shortened(log, s, Len(log))
    BY DEF Extends
  <2> QED BY <1>1, <1>2, <2>1, <2>2, ShortenedKeeps
<1>5. Durable(sound, s, Len(s))
  BY <1>1, <1>2, <1>4 DEF Durable
<1>6. Durable(Promised, s, Len(s))
  <2>1. ASSUME NEW x \in Promised PROVE \E i \in 1 .. Len(s) : Good(s, i) /\ s[i].id = x
    <3>1. PICK i \in DOMAIN s : x = s[i].id /\ \A j \in 1 .. i : Log!Readable(s[j])
      BY <2>1
    <3>2. i \in 1 .. Len(s)
      BY <1>2
    <3> QED BY <3>1, <3>2 DEF Good
  <2> QED BY <2>1 DEF Durable
<1> HIDE DEF Promised
<1>7. Durable(sound', s, Len(s))
  BY <1>3, <1>5, <1>6 DEF Durable
<1>8. stale' \in Seq(Item) /\ Ordered(stale')
  BY <1>3 DEF Ordered
<1> QED BY <1>2, <1>3, <1>7, <1>8 DEF FileInv

\* A shortened log keeps what is on the device.
LEMMA CutKeepsPromises ==
    ASSUME NEW s, NEW n \in Nat, FileInv, Extends(s), synced <= n,
           Shortened(log', s, n), UNCHANGED <<synced, stale, sound>>,
           flushed' \in Nat, synced <= flushed', flushed' <= Len(log')
    PROVE  FileInv'
<1>1. /\ log \in Seq(Item) /\ synced \in Nat /\ synced <= Len(log)
      /\ Durable(sound, log, synced)
  BY DEF FileInv
<1>2. s \in Seq(Item) /\ Len(s) \in Nat /\ Len(log) \in 0 .. Len(s) /\ Ordered(s)
  BY DEF Extends, Shortened
<1>3. Durable(sound, s, synced)
  <2>1. synced \in 0 .. Len(log)
    BY <1>1, <1>2
  <2>2. Shortened(log, s, Len(log))
    BY DEF Extends
  <2> QED BY <1>1, <1>2, <2>1, <2>2, ShortenedKeeps
<1>4. log' \in Seq(Item)
  BY DEF Shortened
<1>5. Durable(sound, log', synced) /\ Ordered(log')
  <2>1. synced \in 0 .. n
    BY <1>1
  <2> QED BY <1>2, <1>3, <2>1, ShortenedKeeps
<1> QED BY <1>4, <1>5 DEF FileInv

\* Every way a write of s can end: it waits in the buffer, it fails, it is synced.
Written(s) ==
    \/ Log!flushAndSync(s)
    \/ Log!FlushFails(s)
    \/ Log!SyncFails(s)
    \/ log' = s /\ UNCHANGED <<flushed, synced, stale, acked, sound>>

LEMMA WriteKeepsFile ==
    ASSUME NEW s, NEW q \in Nat, FileInv, Extends(s), Written(s), Bounded(s, q)
    PROVE  FileInv' /\ Bounded(log', q)
<1>1. /\ log \in Seq(Item) /\ synced \in Nat /\ flushed \in Nat
      /\ synced <= flushed /\ flushed <= Len(log)
  BY DEF FileInv
<1>2. s \in Seq(Item) /\ Len(s) \in Nat /\ Len(log) \in 0 .. Len(s)
  BY DEF Extends, Shortened
<1>3. Len(s) \in 0 .. Len(s) /\ Shortened(s, s, Len(s))
  BY <1>2, Shortenings
<1>4. CASE Log!flushAndSync(s)
  BY <1>4, FlushedIsDurable DEF Log!flushAndSync
<1>5. CASE Log!FlushFails(s)
  <2>1. PICK n \in flushed .. (Len(s) - 1), t \in {<<>>, <<Log!Torn>>} :
             log' = SubSeq(s, 1, n) \o t
    BY <1>5 DEF Log!FlushFails
  <2>2. /\ flushed' = Len(log') /\ UNCHANGED <<synced, stale, sound>>
    BY <1>5 DEF Log!FlushFails, Log!ackVars
  <2>3. n \in 0 .. Len(s) /\ n \in Nat /\ synced <= n
    BY <1>1, <1>2
  <2>4. Shortened(log', s, n)
    BY <1>2, <2>1, <2>3, Shortenings
  <2>5. Len(log') \in Nat /\ n <= Len(log')
    BY <2>4 DEF Shortened
  <2>6. FileInv'
    BY <1>1, <2>2, <2>3, <2>4, <2>5, CutKeepsPromises
  <2> QED BY <1>2, <2>4, <2>6, ShortenedKeeps
<1>6. CASE Log!SyncFails(s)
  <2>1. log' = s /\ flushed' = Len(s) /\ UNCHANGED <<synced, stale, sound>>
    BY <1>6 DEF Log!SyncFails, Log!ackVars
  <2>2. FileInv'
    BY <1>1, <1>2, <1>3, <2>1, CutKeepsPromises
  <2> QED BY <2>1, <2>2
<1>7. CASE log' = s /\ UNCHANGED <<flushed, synced, stale, acked, sound>>
  <2>1. FileInv'
    BY <1>1, <1>2, <1>3, <1>7, CutKeepsPromises
  <2> QED BY <1>7, <2>1
<1> QED BY <1>4, <1>5, <1>6, <1>7 DEF Written

LEMMA LogInvInit == Log!Init => LogInv
<1> SUFFICES ASSUME Log!Init PROVE LogInv
  OBVIOUS
<1>1. /\ log = <<>> /\ flushed = 0 /\ synced = 0 /\ stale = <<>> /\ sound = {}
      /\ ~ open /\ seq = 0 /\ appends = 0
  BY DEF Log!Init
<1>2. FileInv
  BY <1>1 DEF FileInv, Durable, Ordered
<1>3. SessionInv
  BY <1>1 DEF SessionInv
<1> QED BY <1>2, <1>3 DEF LogInv

\* The last record read back has the highest number.
LEMMA OpenKeeps ==
    ASSUME LogInv, Log!Open
    PROVE  LogInv'
<1>1. log \in Seq(Item) /\ Ordered(log) /\ Len(log) \in Nat
  BY DEF LogInv, FileInv
<1> DEFINE r == Log!readAll(log)
<1>2. Reads(r, log)
  BY <1>1, readAllReads
<1>3. seq' = IF r = <<>> THEN 0 ELSE r[Len(r)].seq
  BY DEF Log!Open
<1>4. UNCHANGED <<log, flushed, synced, stale, sound, appends>>
  BY DEF Log!Open, Log!fileVars, Log!ackVars
<1> HIDE DEF r
<1>5. FileInv'
  BY <1>4 DEF LogInv, FileInv
<1>6. seq' \in Nat /\ Bounded(log, seq')
  <2>1. r \in Seq(Rec) /\ Len(r) \in Nat /\ Len(r) <= Len(log)
    BY <1>2 DEF Reads
  <2>2. CASE r = <<>>
    <3>1. Len(r) = 0
      BY <2>2
    <3>2. \A i \in 1 .. Len(log) : ~ Good(log, i)
      BY <1>1, <1>2, <3>1 DEF Reads
    <3> QED BY <1>3, <2>2, <3>2 DEF Bounded
  <2>3. CASE r # <<>>
    <3> DEFINE n == Len(r)
    <3>1. n \in 1 .. Len(log) /\ n \in 1 .. Len(r)
      BY <1>1, <2>1, <2>3
    <3>2. r[n] \in Rec /\ r[n] = log[n] /\ Good(log, n)
      BY <1>2, <2>1, <3>1 DEF Reads
    <3>3. r[n].seq \in Nat
      BY <3>2, ItemFacts
    <3>4. ASSUME NEW i \in 1 .. Len(log), Good(log, i) PROVE log[i].seq <= r[n].seq
      <4>1. i <= n
        BY <1>2, <3>4 DEF Reads
      <4>2. CASE i = n
        BY <3>2, <3>3, <4>2
      <4>3. CASE i < n
        <5>1. log[i].seq < log[n].seq
          BY <1>1, <3>1, <3>2, <4>3 DEF Ordered
        <5>2. log[i] = r[i] /\ r[i] \in Rec
          BY <1>2, <2>1, <4>1, <3>1 DEF Reads
        <5>3. log[i].seq \in Nat
          BY <5>2, ItemFacts
        <5> QED BY <3>2, <3>3, <5>1, <5>3
      <4> QED BY <1>1, <3>1, <4>1, <4>2, <4>3
    <3> QED BY <1>3, <2>3, <3>3, <3>4 DEF Bounded
  <2> QED BY <2>2, <2>3
<1> QED BY <1>4, <1>5, <1>6 DEF LogInv, SessionInv

LEMMA BoundedMore ==
    ASSUME NEW s \in Seq(Item), NEW q \in Nat, Bounded(s, q)
    PROVE  Bounded(s, q + 1)
<1>1. \A i \in 1 .. Len(s) : Good(s, i) => s[i].seq \in Nat
  <2>1. \A i \in 1 .. Len(s) : Good(s, i) => Log!Readable(s[i]) /\ s[i] \in Item
    BY DEF Good
  <2> QED BY <2>1, ItemFacts
<1> QED BY <1>1 DEF Bounded

LEMMA LogExtends ==
    ASSUME FileInv
    PROVE  Extends(log)
<1>1. log \in Seq(Item) /\ Ordered(log)
  BY DEF FileInv
<1>2. Len(log) \in 0 .. Len(log)
  BY <1>1
<1> QED BY <1>1, <1>2, Shortenings DEF Extends

LEMMA appendKeeps ==
    ASSUME LogInv, NEW o \in Log!Ops, Log!append(o)
    PROVE  LogInv'
<1> DEFINE r == Log!Record(o)
           s == Append(log, r)
<1>1. /\ FileInv /\ log \in Seq(Item) /\ Len(log) \in Nat /\ Ordered(log)
      /\ open /\ seq \in Nat /\ appends \in Nat /\ Bounded(log, seq)
  BY DEF LogInv, FileInv, SessionInv, Log!append
<1>2. seq' = seq + 1 /\ appends' = appends + 1
  BY DEF Log!append
<1>3. r \in Rec /\ r.seq = seq + 1
  <2>1. /\ o.op \in {"put", "delete"} /\ o.key \in LogKeys
        /\ o.value \in LogValues \cup {Log!NoValue}
    BY DEF Log!Ops
  <2> HIDE DEF Log!NoValue
  <2> QED BY <1>1, <2>1 DEF Rec, Log!Record
<1> HIDE DEF r
<1>4. /\ s \in Seq(Item) /\ Len(s) = Len(log) + 1
      /\ \A i \in 1 .. Len(log) : s[i] = log[i]
      /\ Ordered(s) /\ Bounded(s, seq + 1)
  BY <1>1, <1>3, AppendKeeps
<1>5. \/ broken /\ UNCHANGED <<log, flushed, synced, stale, sound>>
      \/ Written(s)
  BY DEF Log!append, Written, Log!ackVars, Log!fileVars, r
<1> HIDE DEF s
<1>6. Extends(s)
  BY <1>1, <1>4 DEF Extends, Shortened
<1>7. FileInv' /\ Bounded(log', seq + 1)
  <2>1. CASE UNCHANGED <<log, flushed, synced, stale, sound>>
    BY <1>1, <2>1, BoundedMore DEF FileInv
  <2>2. CASE Written(s)
    BY <1>1, <1>4, <1>6, <2>2, WriteKeepsFile
  <2> QED BY <1>5, <2>1, <2>2
<1> QED BY <1>1, <1>2, <1>7 DEF LogInv, SessionInv

\* Sync, Close and a failed Truncate write the log as it is.
LEMMA RewriteKeeps ==
    ASSUME LogInv, open, Written(log) \/ UNCHANGED <<log, flushed, synced, stale, sound>>,
           UNCHANGED <<seq, appends>>
    PROVE  LogInv'
<1>1. FileInv /\ seq \in Nat /\ appends \in Nat /\ Bounded(log, seq)
  BY DEF LogInv, SessionInv
<1>2. Extends(log)
  BY <1>1, LogExtends
<1>3. FileInv' /\ Bounded(log', seq)
  <2>1. CASE Written(log)
    BY <1>1, <1>2, <2>1, WriteKeepsFile
  <2>2. CASE UNCHANGED <<log, flushed, synced, stale, sound>>
    BY <1>1, <2>2 DEF FileInv
  <2> QED BY <2>1, <2>2
<1> QED BY <1>1, <1>3 DEF LogInv, SessionInv

LEMMA TruncateKeeps ==
    ASSUME LogInv, Log!Truncate
    PROVE  LogInv'
<1>1. /\ log \in Seq(Item) /\ stale \in Seq(Item) /\ synced \in Nat /\ synced <= Len(log)
      /\ Len(log) \in Nat /\ Ordered(log) /\ Ordered(stale) /\ seq \in Nat /\ appends \in Nat
  BY DEF LogInv, FileInv, SessionInv
<1>2. /\ log' = <<>> /\ flushed' = 0 /\ synced' = 0 /\ sound' = {}
      /\ stale' = IF synced > 0 THEN SubSeq(log, 1, synced) ELSE stale
      /\ UNCHANGED <<seq, appends>>
  BY DEF Log!Truncate, Log!sessionVars
<1>3. stale' \in Seq(Item) /\ Ordered(stale')
  <2>1. synced \in 0 .. Len(log)
    BY <1>1
  <2>2. Shortened(SubSeq(log, 1, synced), log, synced)
    BY <1>1, <2>1, Shortenings
  <2>3. Ordered(SubSeq(log, 1, synced)) /\ SubSeq(log, 1, synced) \in Seq(Item)
    BY <1>1, <2>2, ShortenedKeeps DEF Shortened
  <2> QED BY <1>1, <1>2, <2>3
<1>4. log' \in Seq(Item) /\ Len(log') = 0 /\ Ordered(log') /\ Bounded(log', seq) /\ Durable(sound', log', 0)
  BY <1>2 DEF Ordered, Bounded, Durable
<1>5. FileInv'
  BY <1>2, <1>3, <1>4 DEF FileInv
<1> QED BY <1>1, <1>2, <1>4, <1>5 DEF LogInv, SessionInv

LEMMA CrashKeeps ==
    ASSUME LogInv, Log!Crash
    PROVE  LogInv'
<1>1. /\ FileInv /\ log \in Seq(Item) /\ Len(log) \in Nat /\ synced \in Nat /\ Ordered(log)
      /\ Durable(sound, log, synced) /\ seq \in Nat /\ appends \in Nat
      /\ stale \in Seq(Item) /\ Ordered(stale) /\ (stale # <<>> => sound = {})
  BY DEF LogInv, FileInv, SessionInv
<1>2. /\ flushed' = Len(log') /\ synced' = Len(log') /\ stale' = <<>> /\ open' = FALSE
      /\ UNCHANGED <<seq, appends, sound>>
  BY DEF Log!Crash, Log!ackVars
<1>3. log' \in Seq(Item) /\ Len(log') \in Nat /\ Ordered(log') /\ Durable(sound, log', Len(log'))
  <2>1. CASE \E n \in synced .. Len(log) :
               \/ log' = SubSeq(log, 1, n)
               \/ n < Len(log) /\ log' = SubSeq(log, 1, n) \o <<Log!Torn>>
    <3>1. PICK n \in synced .. Len(log) :
               \/ log' = SubSeq(log, 1, n)
               \/ n < Len(log) /\ log' = SubSeq(log, 1, n) \o <<Log!Torn>>
      BY <2>1
    <3>2. n \in 0 .. Len(log) /\ synced \in 0 .. n
      BY <1>1
    <3>3. Shortened(log', log, n)
      BY <1>1, <3>1, <3>2, Shortenings
    <3>4. Durable(sound, log', synced) /\ Ordered(log')
      BY <1>1, <3>2, <3>3, ShortenedKeeps
    <3>5. log' \in Seq(Item) /\ Len(log') \in Nat /\ n <= Len(log')
      BY <3>3 DEF Shortened
    <3>6. Durable(sound, log', Len(log'))
      BY <1>1, <3>2, <3>4, <3>5 DEF Durable
    <3> QED BY <3>4, <3>5, <3>6
  <2>2. CASE stale # <<>> /\ log' = stale
    BY <1>1, <2>2 DEF Durable
  <2> QED BY <2>1, <2>2 DEF Log!Crash
<1>4. stale' \in Seq(Item) /\ Ordered(stale')
  BY <1>2 DEF Ordered
<1>5. FileInv'
  BY <1>2, <1>3, <1>4 DEF FileInv
<1> QED BY <1>1, <1>2, <1>5 DEF LogInv, SessionInv

LEMMA LogStepKeeps ==
    ASSUME LogInv, Log!Next
    PROVE  LogInv'
<1>1. CASE Log!Open
  BY <1>1, OpenKeeps
<1>2. CASE \E o \in Log!Ops : Log!append(o)
  BY <1>2, appendKeeps
<1>3. CASE Log!Sync
  BY <1>3, RewriteKeeps DEF Log!Sync, Written
<1>4. CASE Log!Close
  BY <1>4, RewriteKeeps DEF Log!Close, Written, Log!fileVars, Log!ackVars
<1>5. CASE Log!Truncate
  BY <1>5, TruncateKeeps
<1>6. CASE Log!TruncateFails
  BY <1>6, RewriteKeeps DEF Log!TruncateFails, Written
<1>7. CASE Log!Crash
  BY <1>7, CrashKeeps
<1> QED BY <1>1, <1>2, <1>3, <1>4, <1>5, <1>6, <1>7 DEF Log!Next

\* The inductive invariant of the log: every promise made with nothing unreadable up to it is
\* on the device, and the records before the first unreadable item are in the order of their
\* numbers.
THEOREM LogStaysSound == Spec => []LogInv
<1>1. Init => LogInv
  BY LogInvInit DEF Init, Start
<1>2. LogInv /\ [Next]_vars => LogInv'
  <2> SUFFICES ASSUME LogInv, [Next]_vars PROVE LogInv'
    OBVIOUS
  <2>1. CASE LogStep
    BY <2>1, LogStepKeeps DEF LogStep
  <2>2. CASE UNCHANGED logVars
    BY <2>2 DEF LogInv, FileInv, SessionInv, logVars
  <2>3. LogStep \/ UNCHANGED logVars
    BY DEF Next, LSMStep, LRUStep, LFUStep, SketchStep, vars
  <2> QED BY <2>1, <2>2, <2>3
<1> QED BY <1>1, <1>2, PTL DEF Spec

-----------------------------------------------------------------------------
(* What recovery reads.                                                    *)

LEMMA LogInvDurable == LogInv => DurableOnSoundLog
<1> SUFFICES ASSUME LogInv, NEW x \in sound PROVE x \in Log!Ids(Log!readAll(log))
  BY DEF DurableOnSoundLog, Log!DurableOnSoundLog, Log!Recovered
<1> DEFINE r == Log!readAll(log)
<1>1. /\ log \in Seq(Item) /\ Len(log) \in Nat /\ synced \in Nat /\ synced <= Len(log)
      /\ Durable(sound, log, synced)
  BY DEF LogInv, FileInv
<1>2. Reads(r, log)
  BY <1>1, readAllReads
<1> HIDE DEF r
<1>3. PICK i \in 1 .. synced : Good(log, i) /\ log[i].id = x
  BY <1>1 DEF Durable
<1>4. i \in 1 .. Len(r) /\ r[i] = log[i] /\ r \in Seq(Rec)
  BY <1>1, <1>2, <1>3 DEF Reads
<1>5. i \in DOMAIN r /\ r[i].op # "torn" /\ r[i].id = x
  BY <1>3, <1>4, ItemFacts
<1>6. r[i] \in Log!Whole(r)
  BY <1>5 DEF Log!Whole
<1> QED BY <1>5, <1>6 DEF Log!Ids, r

Outcome(r) == IF r.op = "put" THEN r.value ELSE Log!NoValue

\* After the first n records, v holds for every key what its last record says.
Latest(v, r, n) ==
    \A k \in LogKeys :
        /\ (\A i \in 1 .. n : r[i].key # k) => v[k] = Log!NoValue
        /\ \A i \in 1 .. n :
              r[i].key = k /\ (\A j \in i + 1 .. n : r[j].key # k) => v[k] = Outcome(r[i])

States == [LogKeys -> LogValues \cup {Log!NoValue}]

LEMMA ApplyIsLatest ==
    ASSUME NEW r \in Seq(Rec), NEW n \in 1 .. Len(r), NEW v \in States, Latest(v, r, n - 1)
    PROVE  Log!Apply(r[n], v) \in States /\ Latest(Log!Apply(r[n], v), r, n)
<1> DEFINE w == Log!Apply(r[n], v)
<1>1. Len(r) \in Nat /\ n \in Nat /\ n - 1 \in Nat /\ r[n] \in Rec
  OBVIOUS
<1>2. r[n].key \in LogKeys /\ Outcome(r[n]) \in LogValues \cup {Log!NoValue}
  <2> HIDE DEF Log!NoValue
  <2> QED BY <1>1 DEF Rec, Outcome
<1>3. /\ w \in States
      /\ \A k \in LogKeys : w[k] = IF k = r[n].key THEN Outcome(r[n]) ELSE v[k]
  <2>1. w = [v EXCEPT ![r[n].key] = Outcome(r[n])]
    BY DEF Log!Apply, Outcome
  <2> HIDE DEF w, Outcome, Log!NoValue
  <2> QED BY <1>2, <2>1 DEF States
<1> HIDE DEF w, Log!NoValue, Outcome
<1>4. ASSUME NEW k \in LogKeys
      PROVE  /\ (\A i \in 1 .. n : r[i].key # k) => w[k] = Log!NoValue
             /\ \A i \in 1 .. n :
                   r[i].key = k /\ (\A j \in i + 1 .. n : r[j].key # k) => w[k] = Outcome(r[i])
  <2>1. CASE k = r[n].key
    <3>1. n \in 1 .. n
      BY <1>1
    <3>2. ~ \A i \in 1 .. n : r[i].key # k
      BY <2>1, <3>1
    <3>3. ASSUME NEW i \in 1 .. n, \A j \in i + 1 .. n : r[j].key # k
          PROVE  w[k] = Outcome(r[i])
      <4>1. i = n
        <5>1. n \notin i + 1 .. n
          BY <2>1, <3>3
        <5> QED BY <1>1, <5>1
      <4> QED BY <1>3, <2>1, <4>1
    <3> QED BY <3>2, <3>3
  <2>2. CASE k # r[n].key
    <3>1. w[k] = v[k]
      BY <1>3, <2>2
    <3>2. ASSUME \A i \in 1 .. n : r[i].key # k PROVE w[k] = Log!NoValue
      <4>1. \A i \in 1 .. (n - 1) : r[i].key # k
        BY <1>1, <3>2
      <4> QED BY <3>1, <4>1 DEF Latest
    <3>3. ASSUME NEW i \in 1 .. n, r[i].key = k, \A j \in i + 1 .. n : r[j].key # k
          PROVE  w[k] = Outcome(r[i])
      <4>1. i \in 1 .. (n - 1)
        BY <1>1, <2>2, <3>3
      <4>2. \A j \in i + 1 .. (n - 1) : r[j].key # k
        BY <1>1, <3>3
      <4> QED BY <3>1, <3>3, <4>1, <4>2 DEF Latest
    <3> QED BY <3>2, <3>3
  <2> QED BY <2>1, <2>2
<1> QED BY <1>3, <1>4 DEF Latest, w

\* Recover's loop leaves every key with its last record.
LEMMA RecoverIsLatest ==
    ASSUME NEW s \in Seq(Item)
    PROVE  Latest(Log!Recover(s), Log!readAll(s), Len(Log!readAll(s)))
<1> DEFINE r == Log!readAll(s)
           N == Len(r)
           none == [k \in LogKeys |-> Log!NoValue]
           F == [n \in 1 .. N |-> [v \in States |-> Log!Apply(r[n], v)]]
           st == CHOOSE p : p = [n \in 0 .. N |-> IF n = 0 THEN none ELSE Log!Apply(r[n], p[n - 1])]
<1>1. r \in Seq(Rec) /\ N \in Nat /\ DOMAIN r = 1 .. N
  <2>1. r \in Seq(Rec)
    BY readAllReads DEF Reads
  <2> HIDE DEF r
  <2> QED BY <2>1
<1>2. Log!Recover(s) = st[N]
  BY DEF Log!Recover
<1> HIDE DEF r
<1>3. none \in States
  BY DEF States
<1>4. ASSUME NEW n \in 1 .. N, NEW v \in States PROVE Log!Apply(r[n], v) \in States
  <2>1. r[n].key \in LogKeys /\ Outcome(r[n]) \in LogValues \cup {Log!NoValue}
    <3>1. r[n] \in Rec
      BY <1>1
    <3> HIDE DEF Log!NoValue
    <3> QED BY <3>1 DEF Rec, Outcome
  <2>2. Log!Apply(r[n], v) = [v EXCEPT ![r[n].key] = Outcome(r[n])]
    BY DEF Log!Apply, Outcome
  <2> HIDE DEF Outcome, Log!NoValue
  <2> QED BY <2>1, <2>2 DEF States
<1>5. Passes(F, N, States)
  <2> HIDE DEF N, Log!Apply, States
  <2> QED BY <1>4 DEF Passes
<1>6. PICK g : RunOf(g, F, N, States, none)
  <2> HIDE DEF F, N, none, States
  <2> QED BY <1>1, <1>3, <1>5, LoopRuns
<1>7. g \in [0 .. N -> States] /\ g[0] = none /\ \A n \in 1 .. N : g[n] = Log!Apply(r[n], g[n - 1])
  <2>1. g \in [0 .. N -> States] /\ g[0] = none /\ \A n \in 1 .. N : g[n] = F[n][g[n - 1]]
    <3> HIDE DEF F, N, none, States
    <3> QED BY <1>6 DEF RunOf
  <2>2. ASSUME NEW n \in 1 .. N PROVE g[n] = Log!Apply(r[n], g[n - 1])
    <3>1. n - 1 \in 0 .. N
      BY <1>1
    <3> HIDE DEF N, none, States, Log!Apply
    <3>2. g[n - 1] \in States
      BY <2>1, <3>1
    <3> QED BY <2>1, <3>2
  <2> QED BY <2>1, <2>2
<1> HIDE DEF F, none, States, Log!Apply
<1>8. g = [n \in 0 .. N |-> IF n = 0 THEN none ELSE Log!Apply(r[n], g[n - 1])]
  <2>1. \A n \in 0 .. N : n # 0 => n \in 1 .. N
    BY <1>1
  <2> HIDE DEF N
  <2> QED BY <1>7, <2>1
<1>9. st = [n \in 0 .. N |-> IF n = 0 THEN none ELSE Log!Apply(r[n], st[n - 1])]
  <2> HIDE DEF N
  <2> QED BY <1>8
<1> HIDE DEF st
<1> DEFINE S == {n \in 0 .. N : st[n] \in States /\ Latest(st[n], r, n)}
<1>10. 0 \in S
  <2>1. 0 \in 0 .. N
    BY <1>1
  <2>2. st[0] = none
    BY <1>9, <2>1
  <2>3. Latest(none, r, 0)
    BY DEF Latest, none
  <2> QED BY <1>3, <2>1, <2>2, <2>3
<1>11. ASSUME NEW n \in 1 .. N, n - 1 \in S PROVE n \in S
  <2>1. n \in 0 .. N /\ n # 0
    BY <1>1
  <2>2. st[n] = Log!Apply(r[n], st[n - 1])
    BY <1>9, <2>1
  <2>3. st[n - 1] \in States /\ Latest(st[n - 1], r, n - 1)
    BY <1>11
  <2>4. st[n] \in States /\ Latest(st[n], r, n)
    BY <1>1, <2>2, <2>3, ApplyIsLatest
  <2> QED BY <2>1, <2>4
<1>12. N \in S
  <2>1. N \in 0 .. N
    BY <1>1
  <2> HIDE DEF S
  <2> QED BY <1>1, <1>10, <1>11, <2>1, CountUp
<1>13. Latest(st[N], r, N)
  BY <1>12
<1> QED BY <1>2, <1>13 DEF r

LEMMA LogInvReplays == LogInv => ReplayIsOrdered
<1> SUFFICES ASSUME LogInv PROVE Log!ReplayIsOrdered
  BY DEF ReplayIsOrdered
<1> DEFINE r == Log!readAll(log)
           v == Log!Recover(log)
<1>1. log \in Seq(Item) /\ Len(log) \in Nat /\ Ordered(log)
  BY DEF LogInv, FileInv
<1>2. Reads(r, log) /\ Latest(v, r, Len(r))
  BY <1>1, readAllReads, RecoverIsLatest
<1> HIDE DEF r, v
<1>3. /\ r \in Seq(Rec) /\ Len(r) \in Nat /\ Len(r) <= Len(log) /\ DOMAIN r = 1 .. Len(r)
      /\ \A i \in 1 .. Len(r) : r[i] = log[i] /\ Good(log, i)
  BY <1>1, <1>2 DEF Reads
<1>4. \A i \in 1 .. Len(r) : r[i] \in Rec
  BY <1>3
<1>5. \A i \in 1 .. Len(r) : r[i].seq \in Nat /\ r[i].op # "torn"
  BY <1>4, ItemFacts
<1>6. \A i, j \in DOMAIN r : i < j => r[i].seq < r[j].seq
  BY <1>1, <1>3 DEF Ordered
<1>7. Log!Whole(r) = {r[i] : i \in 1 .. Len(r)}
  BY <1>3, <1>5 DEF Log!Whole
<1> HIDE DEF Log!NoValue
<1>8. ASSUME NEW k \in LogKeys
      PROVE  LET hitsOf == {q \in Log!Whole(r) : q.key = k} IN
             /\ hitsOf = {} => v[k] = Log!NoValue
             /\ \A q \in hitsOf : (\A p \in hitsOf : p.seq <= q.seq) =>
                   v[k] = IF q.op = "put" THEN q.value ELSE Log!NoValue
  <2> DEFINE hitsOf == {q \in Log!Whole(r) : q.key = k}
  <2>1. ASSUME hitsOf = {} PROVE v[k] = Log!NoValue
    <3>1. \A i \in 1 .. Len(r) : r[i].key # k
      BY <1>7, <2>1
    <3> QED BY <1>2, <3>1 DEF Latest
  <2>2. ASSUME NEW q \in hitsOf, \A p \in hitsOf : p.seq <= q.seq
        PROVE  v[k] = IF q.op = "put" THEN q.value ELSE Log!NoValue
    <3>1. PICK i \in 1 .. Len(r) : q = r[i]
      BY <1>7
    <3>2. r[i].key = k
      BY <3>1
    <3>3. ASSUME NEW j \in i + 1 .. Len(r) PROVE r[j].key # k
      <4>1. j \in 1 .. Len(r) /\ i < j
        BY <1>3
      <4>2. r[i].seq < r[j].seq /\ ~ (r[j].seq <= r[i].seq)
        BY <1>3, <1>5, <1>6, <4>1, SMTT(20)
      <4> QED BY <1>7, <2>2, <3>1, <4>1, <4>2
    <3>4. v[k] = Outcome(r[i])
      BY <1>2, <3>2, <3>3 DEF Latest
    <3> QED BY <3>1, <3>4 DEF Outcome
  <2> QED BY <2>1, <2>2
<1> QED BY <1>6, <1>8 DEF Log!ReplayIsOrdered, r, v

\* wal.go:57-58: what was acknowledged is among the records that readAll returns, after any
\* crashes, failed writes and reopens, when neither it nor anything before it was a fragment
\* or longer than readAll takes.
THEOREM AcknowledgedSurvives == Spec => []DurableOnSoundLog
BY LogStaysSound, LogInvDurable, PTL

\* wal_test.go:72, wal.go:219: what Recover replays has increasing sequence numbers and
\* leaves every key with its last record.
THEOREM RecoveryIsOrdered == Spec => []ReplayIsOrdered
BY LogStaysSound, LogInvReplays, PTL

-----------------------------------------------------------------------------
(* The sketches.                                                           *)

IsMax(v, S) == v \in S /\ \A y \in S : y <= v

SketchTypes ==
    /\ h1 \in [Items -> Nat] /\ h2 \in [Items -> Nat]
    /\ truth \in [Items -> Nat] /\ total \in Nat
    /\ counts \in [Sketch!Rows -> [0 .. (Columns - 1) -> Nat]]
    /\ registers \in [Shards -> [Sketch!Registers -> Nat]]
    /\ held \in [Shards -> SUBSET Items]

\* A sketch that is not built yet has counted nothing.
Unbuilt ==
    sketch = "none" =>
        /\ \A x \in Items : truth[x] = 0
        /\ \A s \in Shards : held[s] = {}

BitsInv ==
    sketch = "BloomFilter" =>
        \A x \in Items : truth[x] > 0 =>
            \A i \in 0 .. (BloomHashes - 1) : Sketch!Index(x, i, BloomBits) \in bits

CountsInv ==
    /\ sketch = "CountMinSketch" =>
          \A x \in Items : \A i \in Sketch!Rows : truth[x] <= counts[i][Sketch!Index(x, i, Columns)]
    /\ \A i \in Sketch!Rows : \A c \in 0 .. (Columns - 1) : counts[i][c] <= total

\* A register holds the highest rank that an item the shard has seen gives it.
RegistersInv ==
    \A s \in Shards : \A i \in Sketch!Registers :
        /\ \/ registers[s][i] = 0
           \/ \E x \in held[s] : Sketch!register(x) = i /\ Sketch!rank(x) = registers[s][i]
        /\ \A x \in held[s] : Sketch!register(x) = i => Sketch!rank(x) <= registers[s][i]

SketchInv == SketchTypes /\ Unbuilt /\ BitsInv /\ CountsInv /\ RegistersInv

LEMMA SketchConstants ==
    /\ HashBits \in Nat /\ Precision \in 1 .. HashBits /\ 2^HashBits \in Nat \ {0}
    /\ BloomBits \in Nat \ {0} /\ BloomHashes \in Nat \ {0}
    /\ Columns \in Nat \ {0} /\ Depth \in Nat \ {0}
<1>1. Sketch!SketchAssumption
  BY Assumptions
<1> QED BY <1>1 DEF Sketch!SketchAssumption

LEMMA IndexRange ==
    ASSUME SketchTypes, NEW x \in Items, NEW i \in Nat, NEW n \in Nat \ {0}
    PROVE  Sketch!Index(x, i, n) \in 0 .. (n - 1)
<1> DEFINE a == h1[x] + i * h2[x]
           M == 2^HashBits
<1>1. h1[x] \in Nat /\ h2[x] \in Nat
  BY DEF SketchTypes
<1>2. a \in Nat
  <2>1. i * h2[x] \in Nat
    BY <1>1
  <2> QED BY <1>1, <2>1
<1>3. M \in Nat \ {0}
  BY SketchConstants
<1> HIDE DEF a, M
<1>4. (a % M) % n \in 0 .. (n - 1)
  BY <1>2, <1>3
<1> QED BY <1>4 DEF Sketch!Index, a, M

IndexInRange ==
    \A x \in Items : \A i \in Nat : \A n \in Nat \ {0} : Sketch!Index(x, i, n) \in 0 .. (n - 1)

LEMMA IndicesInRange == SketchTypes => IndexInRange
BY IndexRange DEF IndexInRange

LEMMA RankIsNat == \A x : Sketch!rank(x) \in Nat
<1> SUFFICES ASSUME NEW x PROVE Sketch!rank(x) \in Nat
  OBVIOUS
<1> DEFINE b == HashBits - Precision
           S == {j \in 0 .. b : h1[x] % 2^b < 2^j}
<1>1. b \in Int
  BY SketchConstants
<1>2. IsFiniteSet(0 .. b)
  <2> HIDE DEF b
  <2> QED BY <1>1, FS_Interval
<1>3. IsFiniteSet(S)
  <2>1. S \subseteq 0 .. b
    OBVIOUS
  <2> HIDE DEF S, b
  <2> QED BY <1>2, <2>1, FS_Subset
<1>4. Cardinality(S) \in Nat
  <2> HIDE DEF S
  <2> QED BY <1>3, FS_CardinalityType
<1>5. Sketch!rank(x) = Cardinality(S)
  <2>1. Sketch!Cardinality(S) = Cardinality(S)
    <3> HIDE DEF S
    <3> QED BY Zenon DEF Cardinality, IsFiniteSet, Sketch!Cardinality, Sketch!IsFiniteSet
  <2> QED BY <2>1 DEF Sketch!rank
<1> QED BY <1>4, <1>5

\* Max and Min pick the bound that is a member.
LEMMA MaxIs ==
    ASSUME NEW S, S \subseteq Nat, NEW v, IsMax(v, S)
    PROVE  Sketch!Max(S) = v
<1>1. v \in S /\ v \in Nat /\ \A y \in S : y \in Nat /\ v >= y
  BY DEF IsMax
<1>2. Sketch!Max(S) \in S /\ \A y \in S : Sketch!Max(S) >= y
  BY <1>1 DEF Sketch!Max
<1> DEFINE mx == Sketch!Max(S)
<1>3. mx \in S /\ \A y \in S : mx >= y
  BY <1>2
<1> HIDE DEF mx
<1>4. mx \in Nat /\ v >= mx /\ mx >= v
  BY <1>1, <1>3
<1>5. mx = v
  BY <1>1, <1>4
<1> QED BY <1>5 DEF mx

LEMMA MinIs ==
    ASSUME NEW S, S \subseteq Nat, S # {}
    PROVE  Sketch!Min(S) \in S
<1>1. \E n \in S : \A y \in S : n <= y
  BY LeastOf
<1> QED BY <1>1 DEF Sketch!Min

LEMMA SketchInit == Sketch!Init => SketchInv
<1> SUFFICES ASSUME Sketch!Init PROVE SketchInv
  OBVIOUS
<1>1. /\ sketch = "none" /\ h1 = [x \in Items |-> 0] /\ h2 = [x \in Items |-> 1]
      /\ counts = [i \in Sketch!Rows |-> [c \in 0 .. (Columns - 1) |-> 0]] /\ total = 0
      /\ registers = [s \in Shards |-> [i \in Sketch!Registers |-> 0]]
      /\ truth = [x \in Items |-> 0] /\ held = [s \in Shards |-> {}]
  BY DEF Sketch!Init
<1>2. SketchTypes
  BY <1>1 DEF SketchTypes
<1>3. Unbuilt /\ BitsInv
  BY <1>1 DEF Unbuilt, BitsInv
<1>4. CountsInv
  BY <1>1 DEF CountsInv
<1>5. RegistersInv
  BY <1>1 DEF RegistersInv
<1> QED BY <1>2, <1>3, <1>4, <1>5 DEF SketchInv

LEMMA SameHashes ==
    ASSUME UNCHANGED <<h1, h2>>
    PROVE  /\ \A x, i, n : Sketch!Index(x, i, n)' = Sketch!Index(x, i, n)
           /\ \A x : Sketch!register(x)' = Sketch!register(x) /\ Sketch!rank(x)' = Sketch!rank(x)
BY DEF Sketch!Index, Sketch!register, Sketch!rank

LEMMA NewKeeps ==
    ASSUME SketchInv, Sketch!New
    PROVE  SketchInv'
<1>1. /\ sketch = "none" /\ sketch' \in {"BloomFilter", "CountMinSketch", "HyperLogLog"}
      /\ h1' \in [Items -> Sketch!Hashes] /\ (h2' = h2 \/ h2' \in [Items -> Sketch!Strides])
      /\ UNCHANGED <<bits, counts, total, registers, truth, held>>
  BY DEF Sketch!New
<1>2. /\ SketchTypes /\ CountsInv /\ RegistersInv
      /\ \A x \in Items : truth[x] = 0
      /\ \A s \in Shards : held[s] = {}
  BY <1>1 DEF SketchInv, Unbuilt
<1>3. SketchTypes'
  <2>1. Sketch!Hashes \subseteq Nat /\ Sketch!Strides \subseteq Nat
    BY SketchConstants DEF Sketch!Hashes, Sketch!Strides
  <2>2. h1' \in [Items -> Nat] /\ h2' \in [Items -> Nat]
    BY <1>1, <1>2, <2>1 DEF SketchTypes
  <2> QED BY <1>1, <1>2, <2>2 DEF SketchTypes
<1>4. Unbuilt'
  BY <1>1 DEF Unbuilt
<1>5. BitsInv'
  BY <1>1, <1>2 DEF BitsInv
<1>6. CountsInv'
  <2>1. ASSUME NEW x \in Items, NEW i \in Sketch!Rows
        PROVE  0 <= counts[i][Sketch!Index(x, i, Columns)']
    <3>1. i \in Nat /\ Columns \in Nat \ {0}
      BY SketchConstants DEF Sketch!Rows
    <3>2. Sketch!Index(x, i, Columns)' \in 0 .. (Columns - 1)
      <4>1. IndexInRange'
        BY <1>3, IndicesInRange, PTL
      <4> QED BY <3>1, <4>1 DEF IndexInRange
    <3>3. counts[i] \in [0 .. (Columns - 1) -> Nat]
      BY <1>2 DEF SketchTypes
    <3>4. PICK c \in 0 .. (Columns - 1) : c = Sketch!Index(x, i, Columns)'
      BY <3>2
    <3>5. counts[i][c] \in Nat
      BY <3>3
    <3> QED BY <3>4, <3>5
  <2> QED BY <1>1, <1>2, <2>1 DEF CountsInv
<1>7. RegistersInv'
  BY <1>1, <1>2 DEF RegistersInv
<1> QED BY <1>3, <1>4, <1>5, <1>6, <1>7 DEF SketchInv

LEMMA BloomAddKeeps ==
    ASSUME SketchInv, NEW x \in Items, Sketch!BloomAdd(x)
    PROVE  SketchInv'
<1>1. /\ sketch = "BloomFilter"
      /\ bits' = bits \cup {Sketch!Index(x, i, BloomBits) : i \in 0 .. (BloomHashes - 1)}
      /\ truth' = [truth EXCEPT ![x] = 1]
      /\ UNCHANGED <<sketch, h1, h2, counts, total, registers, held>>
  BY DEF Sketch!BloomAdd
<1>2. SketchTypes'
  BY <1>1 DEF SketchInv, SketchTypes
<1>3. Unbuilt' /\ CountsInv'
  BY <1>1 DEF SketchInv, Unbuilt, CountsInv
<1>4. RegistersInv'
  BY <1>1, SameHashes DEF SketchInv, RegistersInv
<1>5. BitsInv'
  <2> SUFFICES ASSUME NEW y \in Items, truth'[y] > 0, NEW i \in 0 .. (BloomHashes - 1)
               PROVE  Sketch!Index(y, i, BloomBits)' \in bits'
    BY DEF BitsInv
  <2>1. Sketch!Index(y, i, BloomBits)' = Sketch!Index(y, i, BloomBits)
    BY <1>1, SameHashes
  <2>2. CASE y = x
    BY <1>1, <2>1, <2>2
  <2>3. CASE y # x
    <3>1. truth[y] > 0
      BY <1>1, <2>3 DEF SketchInv, SketchTypes
    <3> QED BY <1>1, <2>1, <3>1 DEF SketchInv, BitsInv
  <2> QED BY <2>2, <2>3
<1> QED BY <1>2, <1>3, <1>4, <1>5 DEF SketchInv

LEMMA CountAddKeeps ==
    ASSUME SketchInv, NEW x \in Items, NEW n \in 1 .. 2, Sketch!CountAdd(x, n)
    PROVE  SketchInv'
<1> DEFINE ix(y, i) == Sketch!Index(y, i, Columns)
<1>1. /\ sketch = "CountMinSketch"
      /\ counts' = [i \in Sketch!Rows |-> [counts[i] EXCEPT ![ix(x, i)] = @ + n]]
      /\ total' = total + n
      /\ truth' = [truth EXCEPT ![x] = @ + n]
      /\ UNCHANGED <<sketch, h1, h2, bits, registers, held>>
  BY DEF Sketch!CountAdd
<1>2. /\ SketchTypes /\ truth \in [Items -> Nat] /\ total \in Nat
      /\ \A i \in Sketch!Rows : counts[i] \in [0 .. (Columns - 1) -> Nat]
  BY DEF SketchInv, SketchTypes
<1>3. \A y \in Items : \A i \in Sketch!Rows : ix(y, i) \in 0 .. (Columns - 1) /\ ix(y, i)' = ix(y, i)
  <2>1. \A i \in Sketch!Rows : i \in Nat
    BY SketchConstants DEF Sketch!Rows
  <2> QED BY <1>1, <1>2, <2>1, SketchConstants, IndexRange, SameHashes
<1> HIDE DEF ix
<1>4. \A i \in Sketch!Rows :
        /\ counts'[i] \in [0 .. (Columns - 1) -> Nat]
        /\ \A c \in 0 .. (Columns - 1) :
              counts'[i][c] = IF c = ix(x, i) THEN counts[i][c] + n ELSE counts[i][c]
  <2> SUFFICES ASSUME NEW i \in Sketch!Rows
               PROVE  /\ counts'[i] \in [0 .. (Columns - 1) -> Nat]
                      /\ \A c \in 0 .. (Columns - 1) :
                            counts'[i][c] = IF c = ix(x, i) THEN counts[i][c] + n ELSE counts[i][c]
    OBVIOUS
  <2> DEFINE f == counts[i]
  <2>1. PICK z \in 0 .. (Columns - 1) : z = ix(x, i)
    BY <1>3
  <2>2. counts'[i] = [f EXCEPT ![z] = f[z] + n]
    BY <1>1, <2>1
  <2>3. f \in [0 .. (Columns - 1) -> Nat]
    BY <1>2
  <2> HIDE DEF f
  <2>4. [f EXCEPT ![z] = f[z] + n] \in [0 .. (Columns - 1) -> Nat]
    <3>1. f[z] + n \in Nat
      BY <2>1, <2>3
    <3> QED BY <2>3, <3>1
  <2> QED BY <2>1, <2>2, <2>3, <2>4 DEF f
<1>5. SketchTypes'
  <2>1. counts' \in [Sketch!Rows -> [0 .. (Columns - 1) -> Nat]]
    BY <1>1, <1>4
  <2>2. truth' \in [Items -> Nat] /\ total' \in Nat
    BY <1>1, <1>2
  <2> QED BY <1>1, <1>2, <2>1, <2>2 DEF SketchTypes
<1>6. Unbuilt' /\ BitsInv'
  BY <1>1 DEF Unbuilt, BitsInv
<1>7. RegistersInv'
  BY <1>1, SameHashes DEF SketchInv, RegistersInv
<1>8. CountsInv'
  <2>1. ASSUME NEW y \in Items, NEW i \in Sketch!Rows
        PROVE  truth'[y] <= counts'[i][ix(y, i)]
    <3> DEFINE c == ix(y, i)
               a == counts[i][c]
    <3>1. truth[y] \in Nat /\ a \in Nat /\ truth[y] <= a
      <4>1. truth[y] <= a
        BY <1>1 DEF SketchInv, CountsInv, ix
      <4> QED BY <1>2, <1>3, <4>1
    <3>2. counts'[i][c] = IF c = ix(x, i) THEN a + n ELSE a
      BY <1>3, <1>4
    <3>3. CASE y = x
      <4>1. truth'[y] = truth[y] + n
        BY <1>1, <1>2, <3>3
      <4> QED BY <3>1, <3>2, <3>3, <4>1
    <3>4. CASE y # x
      <4>1. truth'[y] = truth[y]
        BY <1>1, <1>2, <3>4
      <4> HIDE DEF a, c
      <4> QED BY <3>1, <3>2, <4>1 DEF c
    <3> QED BY <3>3, <3>4
  <2>2. ASSUME NEW i \in Sketch!Rows, NEW c \in 0 .. (Columns - 1)
        PROVE  counts'[i][c] <= total'
    <3>1. counts[i][c] \in Nat /\ counts[i][c] <= total
      BY <1>2 DEF SketchInv, CountsInv
    <3> QED BY <1>1, <1>2, <1>4, <3>1
  <2>3. ASSUME NEW y \in Items, NEW i \in Sketch!Rows
        PROVE  truth'[y] <= counts'[i][Sketch!Index(y, i, Columns)']
    BY <1>3, <2>1 DEF ix
  <2> QED BY <2>2, <2>3 DEF CountsInv
<1> QED BY <1>5, <1>6, <1>7, <1>8 DEF SketchInv

LEMMA MaxOfTwo ==
    ASSUME NEW a \in Nat, NEW b \in Nat
    PROVE  Sketch!Max({a, b}) = IF a >= b THEN a ELSE b
<1>1. CASE a >= b
  <2>1. IsMax(a, {a, b})
    BY <1>1 DEF IsMax
  <2> QED BY <1>1, <2>1, MaxIs
<1>2. CASE ~ (a >= b)
  <2>1. IsMax(b, {a, b})
    BY <1>2 DEF IsMax
  <2> QED BY <1>2, <2>1, MaxIs
<1> QED BY <1>1, <1>2

LEMMA HyperAddKeeps ==
    ASSUME SketchInv, NEW s \in Shards, NEW x \in Items, Sketch!HyperAdd(s, x)
    PROVE  SketchInv'
<1> DEFINE c == Sketch!register(x)
           k == Sketch!rank(x)
           f == registers[s]
           g == [f EXCEPT ![c] = Sketch!Max({f[c], k})]
<1>1. /\ sketch = "HyperLogLog"
      /\ registers' = [registers EXCEPT ![s] = g]
      /\ held' = [held EXCEPT ![s] = held[s] \cup {x}]
      /\ UNCHANGED <<sketch, h1, h2, bits, counts, total, truth>>
  BY DEF Sketch!HyperAdd
<1>2. /\ registers \in [Shards -> [Sketch!Registers -> Nat]] /\ held \in [Shards -> SUBSET Items]
      /\ f \in [Sketch!Registers -> Nat]
  BY DEF SketchInv, SketchTypes
<1>3. k \in Nat
  BY RankIsNat
<1> HIDE DEF c, k, f
<1>4. /\ g \in [Sketch!Registers -> Nat]
      /\ \A i \in Sketch!Registers :
            g[i] = IF i = c THEN IF f[i] >= k THEN f[i] ELSE k ELSE f[i]
  <2>1. CASE c \in Sketch!Registers
    <3>1. Sketch!Max({f[c], k}) = IF f[c] >= k THEN f[c] ELSE k
      BY <1>2, <1>3, <2>1, MaxOfTwo
    <3>2. Sketch!Max({f[c], k}) \in Nat
      BY <1>2, <1>3, <2>1, <3>1
    <3> QED BY <1>2, <2>1, <3>1, <3>2
  <2>2. CASE c \notin Sketch!Registers
    BY <1>2, <2>2
  <2> QED BY <2>1, <2>2
<1> HIDE DEF g
<1>5. /\ registers' \in [Shards -> [Sketch!Registers -> Nat]] /\ held' \in [Shards -> SUBSET Items]
      /\ registers'[s] = g /\ held'[s] = held[s] \cup {x}
      /\ \A t \in Shards : t # s => registers'[t] = registers[t] /\ held'[t] = held[t]
  BY <1>1, <1>2, <1>4
<1>6. SketchTypes'
  BY <1>1, <1>5 DEF SketchInv, SketchTypes
<1>7. Unbuilt' /\ BitsInv' /\ CountsInv'
  BY <1>1 DEF SketchInv, Unbuilt, BitsInv, CountsInv
<1>8. RegistersInv'
  <2> SUFFICES ASSUME NEW t \in Shards, NEW i \in Sketch!Registers
               PROVE  /\ \/ registers'[t][i] = 0
                         \/ \E y \in held'[t] : Sketch!register(y) = i /\ Sketch!rank(y) = registers'[t][i]
                      /\ \A y \in held'[t] : Sketch!register(y) = i => Sketch!rank(y) <= registers'[t][i]
    BY <1>1, SameHashes DEF RegistersInv
  <2>1. /\ \/ registers[t][i] = 0
           \/ \E y \in held[t] : Sketch!register(y) = i /\ Sketch!rank(y) = registers[t][i]
        /\ \A y \in held[t] : Sketch!register(y) = i => Sketch!rank(y) <= registers[t][i]
    BY DEF SketchInv, RegistersInv
  <2>2. CASE t # s
    BY <1>5, <2>1, <2>2
  <2>3. CASE t = s /\ i # c
    BY <1>4, <1>5, <2>1, <2>3 DEF c, f
  <2>4. CASE t = s /\ i = c
    <3>1. f[i] \in Nat /\ registers'[t][i] = IF f[i] >= k THEN f[i] ELSE k
      BY <1>2, <1>4, <1>5, <2>4
    <3>2. \A y \in held[t] : Sketch!register(y) = i => Sketch!rank(y) \in Nat /\ Sketch!rank(y) <= f[i]
      BY <2>1, <2>4, RankIsNat DEF f
    <3>3. CASE f[i] >= k
      <4>1. registers'[t][i] = registers[t][i]
        BY <2>4, <3>1, <3>3 DEF f
      <4> QED BY <1>3, <1>5, <2>1, <2>4, <3>1, <3>2, <3>3, <4>1 DEF k
    <3>4. CASE ~ (f[i] >= k)
      <4>1. registers'[t][i] = k /\ f[i] <= k
        BY <1>3, <3>1, <3>4
      <4>2. \E y \in held'[t] : Sketch!register(y) = i /\ Sketch!rank(y) = registers'[t][i]
        BY <1>5, <2>4, <4>1 DEF c, k
      <4>3. ASSUME NEW y \in held'[t], Sketch!register(y) = i PROVE Sketch!rank(y) <= k
        <5>1. CASE y = x
          BY <1>3, <5>1 DEF k
        <5>2. CASE y \in held[t]
          BY <1>3, <3>1, <3>2, <4>1, <4>3, <5>2
        <5> QED BY <1>5, <2>4, <5>1, <5>2
      <4> QED BY <4>1, <4>2, <4>3
    <3> QED BY <3>3, <3>4
  <2> QED BY <2>2, <2>3, <2>4
<1> QED BY <1>6, <1>7, <1>8 DEF SketchInv

LEMMA MergeKeeps ==
    ASSUME SketchInv, NEW s \in Shards, NEW t \in Shards, Sketch!Merge(s, t)
    PROVE  SketchInv'
<1> DEFINE f == registers[s]
           e == registers[t]
           g == [i \in Sketch!Registers |-> Sketch!Max({f[i], e[i]})]
<1>1. /\ sketch = "HyperLogLog"
      /\ registers' = [registers EXCEPT ![s] = g]
      /\ held' = [held EXCEPT ![s] = held[s] \cup held[t]]
      /\ UNCHANGED <<sketch, h1, h2, bits, counts, total, truth>>
  BY DEF Sketch!Merge
<1>2. /\ registers \in [Shards -> [Sketch!Registers -> Nat]] /\ held \in [Shards -> SUBSET Items]
      /\ f \in [Sketch!Registers -> Nat] /\ e \in [Sketch!Registers -> Nat]
  BY DEF SketchInv, SketchTypes
<1> HIDE DEF f, e
<1>4. /\ g \in [Sketch!Registers -> Nat]
      /\ \A i \in Sketch!Registers : g[i] = IF f[i] >= e[i] THEN f[i] ELSE e[i]
  <2>1. ASSUME NEW i \in Sketch!Registers
        PROVE  Sketch!Max({f[i], e[i]}) = (IF f[i] >= e[i] THEN f[i] ELSE e[i])
    <3>1. f[i] \in Nat /\ e[i] \in Nat
      BY <1>2
    <3> QED BY <3>1, MaxOfTwo
  <2> QED BY <1>2, <2>1
<1> HIDE DEF g
<1>5. /\ registers' \in [Shards -> [Sketch!Registers -> Nat]] /\ held' \in [Shards -> SUBSET Items]
      /\ registers'[s] = g /\ held'[s] = held[s] \cup held[t]
      /\ \A u \in Shards : u # s => registers'[u] = registers[u] /\ held'[u] = held[u]
  BY <1>1, <1>2, <1>4
<1>6. SketchTypes'
  BY <1>1, <1>5 DEF SketchInv, SketchTypes
<1>7. Unbuilt' /\ BitsInv' /\ CountsInv'
  BY <1>1 DEF SketchInv, Unbuilt, BitsInv, CountsInv
<1>8. RegistersInv'
  <2> SUFFICES ASSUME NEW u \in Shards, NEW i \in Sketch!Registers
               PROVE  /\ \/ registers'[u][i] = 0
                         \/ \E y \in held'[u] : Sketch!register(y) = i /\ Sketch!rank(y) = registers'[u][i]
                      /\ \A y \in held'[u] : Sketch!register(y) = i => Sketch!rank(y) <= registers'[u][i]
    BY <1>1, SameHashes DEF RegistersInv
  <2> DEFINE Held(v, v0) ==
               /\ \/ v0 = 0
                  \/ \E y \in held[v] : Sketch!register(y) = i /\ Sketch!rank(y) = v0
               /\ \A y \in held[v] : Sketch!register(y) = i => Sketch!rank(y) <= v0
  <2>1. Held(u, registers[u][i]) /\ Held(s, f[i]) /\ Held(t, e[i])
    BY DEF SketchInv, RegistersInv, f, e
  <2>2. CASE u # s
    BY <1>5, <2>1, <2>2
  <2>3. CASE u = s
    <3>1. f[i] \in Nat /\ e[i] \in Nat /\ registers'[u][i] = IF f[i] >= e[i] THEN f[i] ELSE e[i]
      BY <1>2, <1>4, <1>5, <2>3
    <3>2. held'[u] = held[s] \cup held[t]
      BY <1>5, <2>3
    <3>3. \A y : Sketch!rank(y) \in Nat
      BY RankIsNat
    <3>4. PICK v \in Nat : v = registers'[u][i]
      BY <3>1
    <3>5. f[i] <= v /\ e[i] <= v /\ (v = f[i] \/ v = e[i])
      BY <3>1, <3>4
    <3>6. \A y \in held'[u] : Sketch!register(y) = i => Sketch!rank(y) <= v
      BY <2>1, <3>1, <3>2, <3>3, <3>5
    <3>7. v = 0 \/ \E y \in held'[u] : Sketch!register(y) = i /\ Sketch!rank(y) = v
      BY <2>1, <3>2, <3>5
    <3> QED BY <3>4, <3>6, <3>7
  <2> QED BY <2>2, <2>3
<1> QED BY <1>6, <1>7, <1>8 DEF SketchInv

LEMMA SketchStepKeeps ==
    ASSUME SketchInv, Sketch!Next
    PROVE  SketchInv'
<1>1. CASE Sketch!New
  BY <1>1, NewKeeps
<1>2. CASE Sketch!Query
  <2>1. UNCHANGED <<sketch, h1, h2, bits, counts, total, registers, truth, held>>
    BY <1>2 DEF Sketch!Query, Sketch!vars
  <2>2. SketchTypes' /\ Unbuilt' /\ BitsInv' /\ CountsInv' /\ RegistersInv'
    BY <2>1, SameHashes DEF SketchInv, SketchTypes, Unbuilt, BitsInv, CountsInv, RegistersInv
  <2> QED BY <2>2 DEF SketchInv
<1>3. CASE \E x \in Items : Sketch!BloomAdd(x)
  BY <1>3, BloomAddKeeps
<1>4. CASE \E x \in Items : \E n \in 1 .. 2 : Sketch!CountAdd(x, n)
  BY <1>4, CountAddKeeps
<1>5. CASE \E s \in Shards : \E x \in Items : Sketch!HyperAdd(s, x)
  BY <1>5, HyperAddKeeps
<1>6. CASE \E s, t \in Shards : Sketch!Merge(s, t)
  BY <1>6, MergeKeeps
<1> QED BY <1>1, <1>2, <1>3, <1>4, <1>5, <1>6 DEF Sketch!Next

LEMMA SketchInvErrs == SketchInv => Sketch!ErrOnOneSide
<1> SUFFICES ASSUME SketchInv PROVE Sketch!ErrOnOneSide
  OBVIOUS
<1>1. Sketch!NoFalseNegative
  BY DEF SketchInv, BitsInv, Sketch!NoFalseNegative, Sketch!Contains
<1>2. Sketch!NeverUnderCounts
  <2> SUFFICES ASSUME sketch = "CountMinSketch" PROVE Sketch!NeverUnderCounts
    BY DEF Sketch!NeverUnderCounts
  <2>1. ASSUME NEW x \in Items
        PROVE  /\ truth[x] \in Nat /\ Sketch!Estimate(x) \in Nat
               /\ truth[x] <= Sketch!Estimate(x) /\ Sketch!Estimate(x) <= total
    <3> DEFINE S == {counts[i][Sketch!Index(x, i, Columns)] : i \in Sketch!Rows}
    <3>1. ASSUME NEW i \in Sketch!Rows
          PROVE  /\ counts[i][Sketch!Index(x, i, Columns)] \in Nat
                 /\ counts[i][Sketch!Index(x, i, Columns)] <= total
                 /\ truth[x] <= counts[i][Sketch!Index(x, i, Columns)]
      <4>1. i \in Nat /\ Columns \in Nat \ {0} /\ SketchTypes
        BY SketchConstants DEF Sketch!Rows, SketchInv
      <4>2. Sketch!Index(x, i, Columns) \in 0 .. (Columns - 1)
        BY <4>1, IndexRange
      <4>3. counts[i] \in [0 .. (Columns - 1) -> Nat]
        BY <4>1 DEF SketchTypes
      <4> QED BY <4>2, <4>3 DEF SketchInv, CountsInv
    <3>2. S \subseteq Nat /\ \A v \in S : truth[x] <= v /\ v <= total
      BY <3>1
    <3>3. S # {}
      <4>1. 0 \in Sketch!Rows
        BY SketchConstants DEF Sketch!Rows
      <4> QED BY <4>1
    <3>4. Sketch!Min(S) \in S
      <4> HIDE DEF S
      <4> QED BY <3>2, <3>3, MinIs
    <3>5. Sketch!Estimate(x) = Sketch!Min(S)
      BY DEF Sketch!Estimate
    <3>6. truth[x] \in Nat
      BY DEF SketchInv, SketchTypes
    <3> HIDE DEF S
    <3> QED BY <3>2, <3>4, <3>5, <3>6
  <2>2. ASSUME NEW t \in 0 .. total
        PROVE  {x \in Items : truth[x] >= t} \subseteq Sketch!HeavyHitters(Items, t)
    <3>1. total \in Nat
      BY DEF SketchInv, SketchTypes
    <3> QED BY <2>1, <3>1 DEF Sketch!HeavyHitters
  <2> QED BY <2>1, <2>2 DEF Sketch!NeverUnderCounts
<1>3. Sketch!MergesLosslessly
  <2> SUFFICES ASSUME NEW s \in Shards, NEW i \in Sketch!Registers
               PROVE  registers[s][i] = Sketch!Max({0} \cup {Sketch!rank(x) : x \in {y \in held[s] : Sketch!register(y) = i}})
    BY DEF Sketch!MergesLosslessly
  <2> DEFINE S == {0} \cup {Sketch!rank(x) : x \in {y \in held[s] : Sketch!register(y) = i}}
  <2>1. S \subseteq Nat
    BY RankIsNat
  <2>2. registers[s][i] \in Nat
    BY DEF SketchInv, SketchTypes
  <2>3. IsMax(registers[s][i], S)
    BY <2>2 DEF SketchInv, RegistersInv, IsMax
  <2> HIDE DEF S
  <2>4. registers[s][i] = Sketch!Max(S)
    BY <2>1, <2>3, MaxIs
  <2> QED BY <2>4 DEF S
<1> QED BY <1>1, <1>2, <1>3 DEF Sketch!ErrOnOneSide

\* bloom_test.go:9, cms.go:4-5, hll.go:107-108: whatever the hash functions and the
\* collisions, a Bloom filter has no false negative, a count-min sketch estimates between the
\* true count and the total, and a HyperLogLog that was merged equals one that saw it all.
THEOREM SketchesKeepTheirSide == Spec => []SketchesErrOnOneSide
<1>1. Init => SketchInv
  BY SketchInit DEF Init, Start
<1>2. SketchInv /\ [Next]_vars => SketchInv'
  <2> SUFFICES ASSUME SketchInv, [Next]_vars PROVE SketchInv'
    OBVIOUS
  <2>1. CASE SketchStep
    BY <2>1, SketchStepKeeps DEF SketchStep
  <2>2. CASE UNCHANGED sketchVars
    <3>1. UNCHANGED <<sketch, h1, h2, bits, counts, total, registers, truth, held>>
      BY <2>2 DEF sketchVars
    <3>2. SketchTypes' /\ Unbuilt' /\ BitsInv' /\ CountsInv' /\ RegistersInv'
      BY <3>1, SameHashes DEF SketchInv, SketchTypes, Unbuilt, BitsInv, CountsInv, RegistersInv
    <3> QED BY <3>2 DEF SketchInv
  <2>3. SketchStep \/ UNCHANGED sketchVars
    BY DEF Next, LogStep, LSMStep, LRUStep, LFUStep, vars
  <2> QED BY <2>1, <2>2, <2>3
<1>3. SketchInv => SketchesErrOnOneSide
  BY SketchInvErrs DEF SketchesErrOnOneSide
<1> QED BY <1>1, <1>2, <1>3, PTL DEF Spec

-----------------------------------------------------------------------------
(* The LRU cache. Its list is a path from one sentinel to the other: a     *)
(* function p on 0 .. n + 1 whose inner nodes are the keys held.           *)

LRUNodes == CacheKeys \cup {listHead, listTail}

Path(p, n) ==
    /\ n \in Nat /\ p \in [0 .. (n + 1) -> LRUNodes]
    /\ p[0] = listHead /\ p[n + 1] = listTail
    /\ \A i \in 1 .. n : p[i] \in CacheKeys
    /\ \A i, j \in 0 .. (n + 1) : p[i] = p[j] => i = j

Pointers(l) == l \in [prev : [LRUNodes -> LRUNodes], next : [LRUNodes -> LRUNodes]]

\* The pointers run along the path, both ways.
Linked(l, p, n) == \A i \in 0 .. n : l.next[p[i]] = p[i + 1] /\ l.prev[p[i + 1]] = p[i]

On(p, n) == {p[i] : i \in 1 .. n}

\* A path without its node at place i, and with a new first node.
Skip(p, n, i) == [j \in 0 .. n |-> IF j < i THEN p[j] ELSE p[j + 1]]
Lead(p, n, e) == [j \in 0 .. (n + 2) |-> IF j = 0 THEN listHead ELSE IF j = 1 THEN e ELSE p[j - 1]]

LEMMA CacheCountingIsShared ==
    /\ \A S : LRU!Cardinality(S) = Cardinality(S)
    /\ \A S : LRU!IsFiniteSet(S) <=> IsFiniteSet(S)
    /\ \A S : LFU!Cardinality(S) = Cardinality(S)
    /\ \A S : LFU!IsFiniteSet(S) <=> IsFiniteSet(S)
<1>1. \A S : LRU!Cardinality(S) = Cardinality(S)
  BY DEF LRU!Cardinality, Cardinality
<1>2. \A S : LRU!IsFiniteSet(S) <=> IsFiniteSet(S)
  BY DEF LRU!IsFiniteSet, IsFiniteSet
<1>3. \A S : LFU!Cardinality(S) = Cardinality(S)
  BY DEF LFU!Cardinality, Cardinality
<1>4. \A S : LFU!IsFiniteSet(S) <=> IsFiniteSet(S)
  BY DEF LFU!IsFiniteSet, IsFiniteSet
<1> QED BY <1>1, <1>2, <1>3, <1>4

LEMMA LRUConstants ==
    /\ IsFiniteSet(CacheKeys) /\ Missing \notin CacheValues /\ Missing \notin CacheKeys
    /\ capacity \in Nat \ {0}
    /\ listHead \notin CacheKeys /\ listTail \notin CacheKeys /\ listHead # listTail
<1>1. LRU!LRUAssumption
  BY Assumptions
<1> QED BY <1>1, CacheCountingIsShared DEF LRU!LRUAssumption

LEMMA SkipPath ==
    ASSUME NEW p, NEW n, Path(p, n), NEW i \in 1 .. n
    PROVE  /\ Path(Skip(p, n, i), n - 1)
           /\ On(Skip(p, n, i), n - 1) = On(p, n) \ {p[i]}
<1> DEFINE q == Skip(p, n, i)
<1>1. n - 1 \in Nat /\ n \in Nat /\ i \in Nat /\ n - 1 + 1 = n
  BY DEF Path
<1>2. ASSUME NEW j \in 0 .. n
      PROVE  q[j] = IF j < i THEN p[j] ELSE p[j + 1]
  BY DEF Skip
<1>3. q \in [0 .. n -> LRUNodes]
  <2>1. \A j \in 0 .. n : j \in 0 .. (n + 1) /\ j + 1 \in 0 .. (n + 1)
    BY <1>1
  <2> QED BY <2>1 DEF Skip, Path
<1>4. q[0] = listHead /\ q[n] = listTail
  BY <1>1, <1>2 DEF Path
<1>5. \A j \in 1 .. (n - 1) : q[j] \in CacheKeys
  BY <1>1, <1>2 DEF Path
<1>6. ASSUME NEW j \in 0 .. n, NEW k \in 0 .. n, q[j] = q[k] PROVE j = k
  <2>1. /\ j \in 0 .. (n + 1) /\ j + 1 \in 0 .. (n + 1) /\ k \in 0 .. (n + 1) /\ k + 1 \in 0 .. (n + 1)
    BY <1>1
  <2> QED BY <1>1, <1>2, <1>6, <2>1 DEF Path
<1>7. Path(q, n - 1)
  <2> HIDE DEF q
  <2> QED BY <1>1, <1>3, <1>4, <1>5, <1>6 DEF Path
<1>8. On(q, n - 1) = On(p, n) \ {p[i]}
  <2>1. ASSUME NEW j \in 1 .. (n - 1) PROVE q[j] \in On(p, n) \ {p[i]}
    <3>1. PICK k \in 1 .. n : k # i /\ q[j] = p[k]
      <4>1. CASE j < i
        BY <1>1, <1>2, <4>1
      <4>2. CASE ~ (j < i)
        <5>1. j + 1 \in 1 .. n /\ j + 1 # i /\ q[j] = p[j + 1]
          BY <1>1, <1>2, <4>2
        <5> QED BY <5>1
      <4> QED BY <4>1, <4>2
    <3>2. k \in 0 .. (n + 1) /\ i \in 0 .. (n + 1)
      BY <1>1
    <3>3. p[k] # p[i]
      BY <3>1, <3>2 DEF Path
    <3> QED BY <3>1, <3>3 DEF On
  <2>2. ASSUME NEW k \in 1 .. n, p[k] # p[i] PROVE p[k] \in On(q, n - 1)
    <3>1. CASE k < i
      <4>1. k \in 1 .. (n - 1) /\ q[k] = p[k]
        BY <1>1, <1>2, <3>1
      <4> HIDE DEF q
      <4> QED BY <4>1 DEF On
    <3>2. CASE ~ (k < i)
      <4>1. k - 1 \in 1 .. (n - 1) /\ q[k - 1] = p[k]
        BY <1>1, <1>2, <2>2, <3>2
      <4> HIDE DEF q
      <4> QED BY <4>1 DEF On
    <3> QED BY <3>1, <3>2
  <2> HIDE DEF q
  <2> QED BY <2>1, <2>2 DEF On
<1> QED BY <1>7, <1>8

LEMMA LeadPath ==
    ASSUME NEW p, NEW n, Path(p, n), NEW e \in CacheKeys, e \notin On(p, n)
    PROVE  /\ Path(Lead(p, n, e), n + 1)
           /\ On(Lead(p, n, e), n + 1) = On(p, n) \cup {e}
<1> DEFINE q == Lead(p, n, e)
<1>1. n \in Nat /\ n + 1 \in Nat /\ n + 1 + 1 = n + 2
  BY DEF Path
<1>2. ASSUME NEW j \in 0 .. (n + 2)
      PROVE  q[j] = IF j = 0 THEN listHead ELSE IF j = 1 THEN e ELSE p[j - 1]
  BY DEF Lead
<1>3. q \in [0 .. (n + 2) -> LRUNodes]
  <2>1. ASSUME NEW j \in 0 .. (n + 2) PROVE q[j] \in LRUNodes
    <3>1. j \in {0, 1} \/ j - 1 \in 0 .. (n + 1)
      BY <1>1
    <3> QED BY <1>2, <3>1 DEF Path, LRUNodes
  <2>2. q = [j \in 0 .. (n + 2) |-> q[j]]
    BY DEF Lead
  <2> HIDE DEF q
  <2> QED BY <2>1, <2>2
<1>4. q[0] = listHead /\ q[n + 2] = listTail
  <2>1. 0 \in 0 .. (n + 2) /\ n + 2 \in 0 .. (n + 2) /\ n + 2 - 1 = n + 1 /\ n + 2 # 0 /\ n + 2 # 1
    BY <1>1
  <2> HIDE DEF q
  <2> QED BY <1>2, <2>1 DEF Path
<1>5. \A j \in 1 .. (n + 1) : q[j] = IF j = 1 THEN e ELSE p[j - 1]
  <2>1. \A j \in 1 .. (n + 1) : j \in 0 .. (n + 2) /\ j # 0
    BY <1>1
  <2> HIDE DEF q
  <2> QED BY <1>2, <2>1
<1>6. \A j \in 1 .. (n + 1) : q[j] \in CacheKeys
  <2>1. \A j \in 1 .. (n + 1) : j # 1 => j - 1 \in 1 .. n
    BY <1>1
  <2> HIDE DEF q
  <2> QED BY <1>5, <2>1 DEF Path
<1>7. ASSUME NEW j \in 0 .. (n + 1) PROVE p[j] # e
  <2>1. j = 0 \/ j = n + 1 \/ j \in 1 .. n
    BY <1>1
  <2> QED BY <2>1, LRUConstants DEF Path, On
<1>8. ASSUME NEW j \in 0 .. (n + 2), NEW k \in 0 .. (n + 2), q[j] = q[k] PROVE j = k
  <2>1. \A x \in 0 .. (n + 2) : x # 0 /\ x # 1 => x - 1 \in 1 .. (n + 1) /\ x - 1 \in 0 .. (n + 1)
    BY <1>1
  <2>2. \A x \in 1 .. (n + 1) : p[x] # listHead
    <3>1. \A x \in 1 .. (n + 1) : x \in 0 .. (n + 1) /\ 0 \in 0 .. (n + 1) /\ x # 0
      BY <1>1
    <3> QED BY <3>1 DEF Path
  <2>3. e # listHead
    BY LRUConstants
  <2> HIDE DEF q
  <2>4. CASE j = 0 \/ j = 1 \/ k = 0 \/ k = 1
    BY <1>2, <1>7, <1>8, <2>1, <2>2, <2>3, <2>4
  <2>5. CASE ~ (j = 0 \/ j = 1 \/ k = 0 \/ k = 1)
    <3>1. p[j - 1] = p[k - 1] /\ j - 1 \in 0 .. (n + 1) /\ k - 1 \in 0 .. (n + 1)
      BY <1>2, <1>8, <2>1, <2>5
    <3>2. j - 1 = k - 1
      BY <3>1 DEF Path
    <3> QED BY <3>2
  <2> QED BY <2>4, <2>5
<1>9. Path(q, n + 1)
  <2> HIDE DEF q
  <2> QED BY <1>1, <1>3, <1>4, <1>6, <1>8 DEF Path
<1>10. On(q, n + 1) = On(p, n) \cup {e}
  <2>1. ASSUME NEW j \in 1 .. (n + 1) PROVE q[j] \in On(p, n) \cup {e}
    <3>1. j = 1 \/ j - 1 \in 1 .. n
      BY <1>1
    <3> HIDE DEF q
    <3> QED BY <1>5, <3>1 DEF On
  <2>2. ASSUME NEW k \in 1 .. n PROVE p[k] \in On(q, n + 1)
    <3>1. k + 1 \in 1 .. (n + 1) /\ k + 1 # 1 /\ k + 1 - 1 = k
      BY <1>1
    <3> HIDE DEF q
    <3> QED BY <1>5, <3>1 DEF On
  <2>3. e \in On(q, n + 1)
    <3>1. 1 \in 1 .. (n + 1)
      BY <1>1
    <3> HIDE DEF q
    <3> QED BY <1>5, <3>1 DEF On
  <2> HIDE DEF q
  <2> QED BY <2>1, <2>2, <2>3 DEF On
<1> QED BY <1>9, <1>10

LEMMA UnlinkLinks ==
    ASSUME NEW l, Pointers(l), NEW p, NEW n, Path(p, n), Linked(l, p, n), NEW i \in 1 .. n
    PROVE  /\ Pointers(LRU!unlink(l, p[i]))
           /\ Linked(LRU!unlink(l, p[i]), Skip(p, n, i), n - 1)
<1> DEFINE m == LRU!unlink(l, p[i])
           q == Skip(p, n, i)
<1>1. n \in Nat /\ i \in 0 .. (n + 1) /\ i - 1 \in 0 .. (n + 1) /\ i + 1 \in 0 .. (n + 1)
      /\ i \in 0 .. n /\ i - 1 \in 0 .. n /\ i - 1 + 1 = i
  BY DEF Path
<1>2. l.prev[p[i]] = p[i - 1] /\ l.next[p[i]] = p[i + 1]
  BY <1>1 DEF Linked
<1>3. p[i] \in LRUNodes /\ p[i - 1] \in LRUNodes /\ p[i + 1] \in LRUNodes
  BY <1>1 DEF Path
<1>4. l \in [prev : [LRUNodes -> LRUNodes], next : [LRUNodes -> LRUNodes]]
  BY DEF Pointers
<1>5. m = [l EXCEPT !.next[p[i - 1]] = p[i + 1], !.prev[p[i + 1]] = p[i - 1]]
  BY <1>2 DEF LRU!unlink
<1>6. /\ m \in [prev : [LRUNodes -> LRUNodes], next : [LRUNodes -> LRUNodes]]
      /\ \A x \in LRUNodes : m.next[x] = IF x = p[i - 1] THEN p[i + 1] ELSE l.next[x]
      /\ \A x \in LRUNodes : m.prev[x] = IF x = p[i + 1] THEN p[i - 1] ELSE l.prev[x]
  <2> HIDE DEF m
  <2> QED BY <1>3, <1>4, <1>5
<1> HIDE DEF m
<1>7. ASSUME NEW j \in 0 .. (n - 1)
      PROVE  m.next[q[j]] = q[j + 1] /\ m.prev[q[j + 1]] = q[j]
  <2>1. /\ j \in 0 .. (n + 1) /\ j + 1 \in 0 .. (n + 1) /\ j + 2 \in 0 .. (n + 1)
        /\ j \in 0 .. n /\ j + 1 \in 0 .. n /\ j + 1 + 1 = j + 2
    BY <1>1
  <2>2. /\ q[j] = IF j < i THEN p[j] ELSE p[j + 1]
        /\ q[j + 1] = IF j + 1 < i THEN p[j + 1] ELSE p[j + 2]
    BY <2>1 DEF Skip
  <2>3. p[j] \in LRUNodes /\ p[j + 1] \in LRUNodes /\ p[j + 2] \in LRUNodes
    BY <2>1 DEF Path
  <2>4. /\ l.next[p[j]] = p[j + 1] /\ l.prev[p[j + 1]] = p[j]
        /\ l.next[p[j + 1]] = p[j + 2] /\ l.prev[p[j + 2]] = p[j + 1]
    BY <2>1 DEF Linked
  <2> HIDE DEF q
  <2>5. CASE j + 1 < i
    <3>1. p[j] # p[i - 1] /\ p[j + 1] # p[i + 1]
      BY <1>1, <2>1, <2>5 DEF Path
    <3> QED BY <1>6, <2>2, <2>3, <2>4, <2>5, <3>1
  <2>6. CASE j + 1 = i
    <3>1. j = i - 1 /\ j + 2 = i + 1 /\ j < i /\ ~ (j + 1 < i)
      BY <1>1, <2>6
    <3> QED BY <1>6, <2>2, <2>3, <3>1
  <2>7. CASE j + 1 > i
    <3>1. p[j + 1] # p[i - 1] /\ p[j + 2] # p[i + 1]
      BY <1>1, <2>1, <2>7 DEF Path
    <3>2. ~ (j < i) /\ ~ (j + 1 < i)
      BY <1>1, <2>7
    <3> QED BY <1>6, <2>2, <2>3, <2>4, <3>1, <3>2
  <2> QED BY <1>1, <2>1, <2>5, <2>6, <2>7
<1>8. Pointers(m)
  BY <1>6 DEF Pointers
<1>9. Linked(m, q, n - 1)
  <2> HIDE DEF q
  <2> QED BY <1>7 DEF Linked
<1> QED BY <1>8, <1>9 DEF m

LEMMA PushLinks ==
    ASSUME NEW l, Pointers(l), NEW p, NEW n, Path(p, n), Linked(l, p, n),
           NEW e \in CacheKeys, e \notin On(p, n)
    PROVE  /\ Pointers(LRU!pushFront(l, e))
           /\ Linked(LRU!pushFront(l, e), Lead(p, n, e), n + 1)
<1> DEFINE m == LRU!pushFront(l, e)
           q == Lead(p, n, e)
<1>1. n \in Nat /\ 0 \in 0 .. n /\ 0 \in 0 .. (n + 1) /\ 1 \in 0 .. (n + 1)
  BY DEF Path
<1>2. l.next[listHead] = p[1]
  BY <1>1 DEF Linked, Path
<1>3. e \in LRUNodes /\ listHead \in LRUNodes /\ p[1] \in LRUNodes /\ p[0] = listHead
  BY <1>1 DEF Path, LRUNodes
<1>4. l \in [prev : [LRUNodes -> LRUNodes], next : [LRUNodes -> LRUNodes]]
  BY DEF Pointers
<1>5. m = [l EXCEPT !.next = [@ EXCEPT ![e] = p[1], ![listHead] = e],
                    !.prev = [@ EXCEPT ![e] = listHead, ![p[1]] = e]]
  BY <1>2 DEF LRU!pushFront
<1>6. /\ m \in [prev : [LRUNodes -> LRUNodes], next : [LRUNodes -> LRUNodes]]
      /\ \A x \in LRUNodes : m.next[x] = IF x = listHead THEN e ELSE IF x = e THEN p[1] ELSE l.next[x]
      /\ \A x \in LRUNodes : m.prev[x] = IF x = p[1] THEN e ELSE IF x = e THEN listHead ELSE l.prev[x]
  <2> HIDE DEF m
  <2> QED BY <1>3, <1>4, <1>5
<1> HIDE DEF m
<1>7. ASSUME NEW j \in 0 .. (n + 1) PROVE p[j] # e
  <2>1. j = 0 \/ j = n + 1 \/ j \in 1 .. n
    BY <1>1
  <2> QED BY <2>1, LRUConstants DEF Path, On
<1>8. ASSUME NEW j \in 0 .. (n + 1)
      PROVE  m.next[q[j]] = q[j + 1] /\ m.prev[q[j + 1]] = q[j]
  <2>1. /\ q[j] = IF j = 0 THEN listHead ELSE IF j = 1 THEN e ELSE p[j - 1]
        /\ q[j + 1] = IF j = 0 THEN e ELSE p[j]
    <3>1. j \in 0 .. (n + 2) /\ j + 1 \in 0 .. (n + 2) /\ j + 1 # 0 /\ (j + 1 = 1 <=> j = 0) /\ j + 1 - 1 = j
      BY <1>1
    <3>2. /\ q[j] = IF j = 0 THEN listHead ELSE IF j = 1 THEN e ELSE p[j - 1]
          /\ q[j + 1] = IF j + 1 = 0 THEN listHead ELSE IF j + 1 = 1 THEN e ELSE p[j + 1 - 1]
      BY <3>1 DEF Lead
    <3> HIDE DEF q
    <3> QED BY <3>1, <3>2
  <2> HIDE DEF q
  <2>2. e # listHead /\ e # p[1]
    BY <1>1, <1>7, LRUConstants
  <2>3. CASE j = 0
    BY <1>3, <1>6, <2>1, <2>2, <2>3
  <2>4. CASE j = 1
    BY <1>3, <1>6, <2>1, <2>2, <2>4
  <2>5. CASE j # 0 /\ j # 1
    <3>1. j - 1 \in 0 .. n /\ j - 1 \in 0 .. (n + 1) /\ j - 1 # 0 /\ j - 1 + 1 = j
      BY <1>1, <2>5
    <3>2. p[j - 1] \in LRUNodes /\ p[j] \in LRUNodes /\ p[j - 1] # listHead /\ p[j - 1] # e
          /\ p[j] # p[1] /\ p[j] # e
      BY <1>1, <1>3, <1>7, <2>5, <3>1 DEF Path
    <3>3. l.next[p[j - 1]] = p[j] /\ l.prev[p[j]] = p[j - 1]
      BY <3>1 DEF Linked
    <3> QED BY <1>6, <2>1, <2>5, <3>2, <3>3
  <2> QED BY <2>3, <2>4, <2>5
<1>9. Pointers(m)
  BY <1>6 DEF Pointers
<1>10. Linked(m, q, n + 1)
  <2> HIDE DEF q
  <2> QED BY <1>8 DEF Linked
<1> QED BY <1>9, <1>10 DEF m
\* Taking node i out and putting e in front, which is how an entry moves and how an
\* evicted entry makes room.
Moved(p, n, i, e) == Lead(Skip(p, n, i), n - 1, e)

LEMMA MoveLinks ==
    ASSUME NEW l, Pointers(l), NEW p, NEW n, Path(p, n), Linked(l, p, n), NEW i \in 1 .. n,
           NEW e \in CacheKeys, e = p[i] \/ e \notin On(p, n)
    PROVE  /\ Pointers(LRU!pushFront(LRU!unlink(l, p[i]), e))
           /\ Path(Moved(p, n, i, e), n)
           /\ Linked(LRU!pushFront(LRU!unlink(l, p[i]), e), Moved(p, n, i, e), n)
           /\ On(Moved(p, n, i, e), n) = (On(p, n) \ {p[i]}) \cup {e}
<1> DEFINE m == LRU!unlink(l, p[i])
           q == Skip(p, n, i)
<1>1. n - 1 + 1 = n
  BY DEF Path
<1>2. Pointers(m) /\ Linked(m, q, n - 1) /\ Path(q, n - 1) /\ On(q, n - 1) = On(p, n) \ {p[i]}
  BY UnlinkLinks, SkipPath
<1>3. e \notin On(q, n - 1)
  BY <1>2
<1> HIDE DEF m, q
<1>4. /\ Pointers(LRU!pushFront(m, e))
      /\ Linked(LRU!pushFront(m, e), Lead(q, n - 1, e), n - 1 + 1)
  BY <1>2, <1>3, PushLinks
<1>5. /\ Path(Lead(q, n - 1, e), n - 1 + 1)
      /\ On(Lead(q, n - 1, e), n - 1 + 1) = On(q, n - 1) \cup {e}
  BY <1>2, <1>3, LeadPath
<1> QED BY <1>1, <1>2, <1>4, <1>5 DEF m, q, Moved

\* The list of the cache is the path p, and its inner nodes are the keys held.
ListOf(p, n) ==
    /\ Path(p, n) /\ Pointers(list) /\ Linked(list, p, n)
    /\ On(p, n) = LRU!Held /\ Cardinality(LRU!Held) = n

Inner(p, n) == [i \in 1 .. n |-> p[i]]

\* The walk from one sentinel reads the inner nodes in their order.
WalkReads == \A p, n : ListOf(p, n) => LRU!keysMRUFirst = Inner(p, n)

LEMMA PathsAreShort ==
    ASSUME NEW p, NEW n, ListOf(p, n)
    PROVE  Cardinality(LRU!Nodes) \in Nat /\ n + 1 <= Cardinality(LRU!Nodes)
<1>1. IsFiniteSet(CacheKeys) /\ LRU!Held \subseteq CacheKeys
  BY LRUConstants DEF LRU!Held
<1>2. Cardinality(LRU!Held) <= Cardinality(CacheKeys) /\ Cardinality(CacheKeys) \in Nat
  BY <1>1, FS_Subset, FS_CardinalityType
<1>3. IsFiniteSet(CacheKeys \cup {listHead}) /\ Cardinality(CacheKeys \cup {listHead}) = Cardinality(CacheKeys) + 1
  BY <1>1, LRUConstants, FS_AddElement
<1>4. LRU!Nodes = (CacheKeys \cup {listHead}) \cup {listTail} /\ listTail \notin CacheKeys \cup {listHead}
  BY LRUConstants DEF LRU!Nodes
<1>5. Cardinality(LRU!Nodes) = Cardinality(CacheKeys \cup {listHead}) + 1
  BY <1>3, <1>4, FS_AddElement
<1> QED BY <1>2, <1>3, <1>5 DEF ListOf, Path

LEMMA WalkFollows ==
    ASSUME NEW p, NEW n, ListOf(p, n)
    PROVE  \A i \in 0 .. (n + 1) : LRU!Walk(list.next, listHead)[i] = p[i]
<1> DEFINE C == Cardinality(LRU!Nodes)
           F == [i \in 1 .. C |-> [x \in LRUNodes |-> list.next[x]]]
           at == CHOOSE f : f = [i \in 0 .. C |-> IF i = 0 THEN listHead ELSE list.next[f[i - 1]]]
<1>1. C \in Nat /\ n \in Nat /\ n + 1 <= C
  BY PathsAreShort DEF ListOf, Path
<1>2. LRU!Walk(list.next, listHead) = at
  BY CacheCountingIsShared DEF LRU!Walk
<1> HIDE DEF C
<1>3. listHead \in LRUNodes /\ list.next \in [LRUNodes -> LRUNodes]
  BY DEF LRUNodes, ListOf, Pointers
<1>4. Passes(F, C, LRUNodes)
  BY <1>3 DEF Passes
<1>5. PICK g : RunOf(g, F, C, LRUNodes, listHead)
  <2> HIDE DEF F
  <2> QED BY <1>1, <1>3, <1>4, LoopRuns
<1>6. g \in [0 .. C -> LRUNodes] /\ g[0] = listHead /\ \A i \in 1 .. C : g[i] = list.next[g[i - 1]]
  <2>1. g \in [0 .. C -> LRUNodes] /\ g[0] = listHead /\ \A i \in 1 .. C : g[i] = F[i][g[i - 1]]
    <3> HIDE DEF F
    <3> QED BY <1>5 DEF RunOf
  <2>2. ASSUME NEW i \in 1 .. C PROVE g[i] = list.next[g[i - 1]]
    <3>1. i - 1 \in 0 .. C
      BY <1>1
    <3>2. g[i - 1] \in LRUNodes
      BY <2>1, <3>1
    <3> QED BY <2>1, <3>2
  <2> QED BY <2>1, <2>2
<1> HIDE DEF F
<1>7. g = [i \in 0 .. C |-> IF i = 0 THEN listHead ELSE list.next[g[i - 1]]]
  <2>1. \A i \in 0 .. C : i # 0 => i \in 1 .. C
    BY <1>1
  <2> QED BY <1>6, <2>1
<1>8. at = [i \in 0 .. C |-> IF i = 0 THEN listHead ELSE list.next[at[i - 1]]]
  BY <1>7
<1> HIDE DEF at
<1> DEFINE S == {i \in 0 .. (n + 1) : at[i] = p[i]}
<1>9. 0 \in S
  <2>1. 0 \in 0 .. C /\ 0 \in 0 .. (n + 1)
    BY <1>1
  <2>2. at[0] = listHead
    BY <1>8, <2>1
  <2> QED BY <2>1, <2>2 DEF ListOf, Path
<1>10. ASSUME NEW i \in 1 .. (n + 1), i - 1 \in S PROVE i \in S
  <2>1. i \in 0 .. C /\ i # 0 /\ i \in 0 .. (n + 1) /\ i - 1 \in 0 .. n /\ i - 1 + 1 = i
    BY <1>1
  <2>2. at[i] = list.next[at[i - 1]]
    BY <1>8, <2>1
  <2>3. list.next[p[i - 1]] = p[i]
    BY <2>1 DEF ListOf, Linked
  <2> QED BY <1>10, <2>1, <2>2, <2>3
<1>11. \A i \in 0 .. (n + 1) : i \in S
  <2>1. n + 1 \in Nat
    BY <1>1
  <2> HIDE DEF S
  <2> QED BY <1>9, <1>10, <2>1, CountUp
<1> QED BY <1>2, <1>11

LEMMA WalkFinds == WalkReads
<1> SUFFICES ASSUME NEW p, NEW n, ListOf(p, n) PROVE LRU!keysMRUFirst = Inner(p, n)
  BY DEF WalkReads
<1> DEFINE at == LRU!Walk(list.next, listHead)
           C == Cardinality(LRU!Nodes)
           Ends(m) == at[m] = listTail /\ \A i \in 1 .. (m - 1) : at[i] # listTail
           upto == CHOOSE m \in 1 .. C : Ends(m)
<1>1. C \in Nat /\ n \in Nat /\ n + 1 <= C
  BY PathsAreShort DEF ListOf, Path
<1>2. \A i \in 0 .. (n + 1) : at[i] = p[i]
  BY WalkFollows
<1>3. LRU!keysMRUFirst = [i \in 1 .. (upto - 1) |-> at[i]]
  BY CacheCountingIsShared DEF LRU!keysMRUFirst
<1> HIDE DEF at, C
<1>4. ASSUME NEW i \in 1 .. n PROVE at[i] # listTail
  <2>1. i \in 0 .. (n + 1) /\ n + 1 \in 0 .. (n + 1) /\ i # n + 1
    BY <1>1
  <2> QED BY <1>2, <2>1 DEF ListOf, Path
<1>5. n + 1 \in 1 .. C /\ Ends(n + 1)
  <2>1. n + 1 \in 0 .. (n + 1) /\ n + 1 \in 1 .. C /\ n + 1 - 1 = n
    BY <1>1
  <2>2. at[n + 1] = listTail
    BY <1>2, <2>1 DEF ListOf, Path
  <2>3. ASSUME NEW m \in 1 .. C, m = n + 1 PROVE Ends(m)
    <3>1. m - 1 = n
      BY <1>1, <2>3
    <3>2. \A i \in 1 .. (m - 1) : at[i] # listTail
      BY <1>4, <3>1
    <3> QED BY <2>2, <2>3, <3>2
  <2> HIDE DEF Ends
  <2> QED BY <2>1, <2>3
<1>6. ASSUME NEW m \in 1 .. C, Ends(m) PROVE m = n + 1
  <2>1. m \in Nat /\ ~ (m \in 1 .. n)
    BY <1>1, <1>4, <1>6
  <2>2. CASE m > n + 1
    <3>1. n + 1 \in 1 .. (m - 1)
      BY <1>1, <2>1, <2>2
    <3> QED BY <1>5, <1>6, <3>1
  <2> QED BY <1>1, <1>6, <2>1, <2>2
<1>7. upto = n + 1
  <2> HIDE DEF Ends
  <2> QED BY <1>5, <1>6
<1> HIDE DEF upto
<1>8. [i \in 1 .. (upto - 1) |-> at[i]] = [i \in 1 .. n |-> p[i]]
  <2>1. upto - 1 = n /\ \A i \in 1 .. n : i \in 0 .. (n + 1)
    BY <1>1, <1>7
  <2> QED BY <1>2, <2>1
<1> QED BY <1>3, <1>8 DEF Inner

\* A sequence without its element at place i, and with e in front.
Dropped(r, s, i, S) ==
    /\ r \in Seq(S) /\ Len(r) = Len(s) - 1
    /\ \A j \in 1 .. (Len(s) - 1) : r[j] = IF j < i THEN s[j] ELSE s[j + 1]

Led(r, s, e, S) ==
    /\ r \in Seq(S) /\ Len(r) = Len(s) + 1 /\ r[1] = e
    /\ \A j \in 1 .. Len(s) : r[j + 1] = s[j]

LEMMA DropAt ==
    ASSUME NEW S, NEW s \in Seq(S), NEW i \in 1 .. Len(s)
    PROVE  Dropped(SubSeq(s, 1, i - 1) \o SubSeq(s, i + 1, Len(s)), s, i, S)
<1> DEFINE a == SubSeq(s, 1, i - 1)
           b == SubSeq(s, i + 1, Len(s))
           n == Len(s)
<1>1. n \in Nat /\ i \in Nat /\ i <= n /\ i >= 1
  OBVIOUS
<1>2. a \in Seq(S) /\ Len(a) = i - 1 /\ \A j \in 1 .. (i - 1) : a[j] = s[j]
  OBVIOUS
<1>3. b \in Seq(S) /\ Len(b) = n - i /\ \A j \in 1 .. (n - i) : b[j] = s[j + i]
  OBVIOUS
<1> HIDE DEF a, b, n
<1>4. a \o b \in Seq(S) /\ Len(a \o b) = n - 1
  <2>1. a \in Seq(S) /\ b \in Seq(S)
    BY <1>2, <1>3
  <2>2. a \o b \in Seq(S) /\ Len(a \o b) = Len(a) + Len(b)
    BY ONLY <2>1
  <2> QED BY <1>1, <1>2, <1>3, <2>2
<1>5. ASSUME NEW j \in 1 .. (n - 1) PROVE (a \o b)[j] = IF j < i THEN s[j] ELSE s[j + 1]
  <2>1. CASE j < i
    <3>1. (a \o b)[j] = a[j] /\ j \in 1 .. (i - 1)
      BY <1>1, <1>2, <1>3, <2>1
    <3> QED BY <1>2, <2>1, <3>1
  <2>2. CASE ~ (j < i)
    <3>1. j - (i - 1) \in 1 .. (n - i) /\ (j - (i - 1)) + i = j + 1
      BY <1>1, <2>2
    <3>2. (a \o b)[j] = b[j - (i - 1)]
      BY <1>1, <1>2, <1>3, <2>2
    <3>3. b[j - (i - 1)] = s[(j - (i - 1)) + i]
      BY <1>3, <3>1
    <3> QED BY <2>2, <3>1, <3>2, <3>3
  <2> QED BY <2>1, <2>2
<1> QED BY <1>4, <1>5 DEF Dropped, a, b, n

LEMMA LeadSeq ==
    ASSUME NEW S, NEW s \in Seq(S), NEW e \in S
    PROVE  Led(<<e>> \o s, s, e, S)
<1>1. Len(s) \in Nat /\ <<e>> \in Seq(S) /\ Len(<<e>>) = 1
  OBVIOUS
<1>2. <<e>> \o s \in Seq(S) /\ Len(<<e>> \o s) = Len(s) + 1 /\ (<<e>> \o s)[1] = e
  BY <1>1
<1>3. ASSUME NEW j \in 1 .. Len(s) PROVE (<<e>> \o s)[j + 1] = s[j]
  BY <1>1
<1> QED BY <1>2, <1>3 DEF Led

LEMMA InnerFacts ==
    ASSUME NEW p, NEW n, Path(p, n)
    PROVE  /\ Inner(p, n) \in Seq(CacheKeys) /\ Len(Inner(p, n)) = n
           /\ \A i \in 1 .. n : Inner(p, n)[i] = p[i]
BY DEF Path, Inner

LEMMA SeqIs ==
    ASSUME NEW S, NEW t \in Seq(S)
    PROVE  t = [j \in 1 .. Len(t) |-> t[j]]
OBVIOUS

\* The inner nodes of a path with a new first node.
LEMMA InnerOfLead ==
    ASSUME NEW p, NEW n, Path(p, n), NEW e \in CacheKeys
    PROVE  Inner(Lead(p, n, e), n + 1) = <<e>> \o Inner(p, n)
<1> DEFINE s == Inner(p, n)
           t == <<e>> \o s
           q == Lead(p, n, e)
<1>1. n \in Nat /\ s \in Seq(CacheKeys) /\ Len(s) = n /\ \A i \in 1 .. n : s[i] = p[i]
  BY InnerFacts DEF Path
<1> HIDE DEF s
<1>2. Led(t, s, e, CacheKeys)
  BY <1>1, LeadSeq
<1> HIDE DEF t
<1>3. t \in Seq(CacheKeys) /\ Len(t) = n + 1 /\ t[1] = e /\ \A j \in 1 .. n : t[j + 1] = p[j]
  BY <1>1, <1>2 DEF Led
<1>4. t = [j \in 1 .. (n + 1) |-> t[j]]
  BY <1>3, SeqIs
<1>5. ASSUME NEW j \in 1 .. (n + 1) PROVE q[j] = t[j]
  <2>1. j \in 0 .. (n + 2) /\ j # 0 /\ (j # 1 => j - 1 \in 1 .. n /\ j - 1 + 1 = j)
    BY <1>1
  <2>2. q[j] = IF j = 1 THEN e ELSE p[j - 1]
    BY <2>1 DEF Lead
  <2>3. t[j] = IF j = 1 THEN e ELSE p[j - 1]
    <3>1. j # 1 => t[j - 1 + 1] = p[j - 1]
      BY <1>3, <2>1
    <3> QED BY <1>3, <2>1, <3>1
  <2> QED BY <2>2, <2>3
<1>6. Inner(q, n + 1) = t
  <2> HIDE DEF q
  <2> QED BY <1>4, <1>5 DEF Inner
<1> QED BY <1>6 DEF t, s

\* The inner nodes of a path that leaves one out.
LEMMA InnerOfSkip ==
    ASSUME NEW p, NEW n, Path(p, n), NEW i \in 1 .. n, NEW r,
           Dropped(r, Inner(p, n), i, CacheKeys)
    PROVE  r = Inner(Skip(p, n, i), n - 1)
<1> DEFINE s == Inner(p, n)
           q == Skip(p, n, i)
<1>1. n \in Nat /\ s \in Seq(CacheKeys) /\ Len(s) = n /\ \A j \in 1 .. n : s[j] = p[j]
  BY InnerFacts DEF Path
<1>2. /\ r \in Seq(CacheKeys) /\ Len(r) = n - 1
      /\ \A j \in 1 .. (n - 1) : r[j] = IF j < i THEN s[j] ELSE s[j + 1]
  <2>1. Dropped(r, s, i, CacheKeys)
    OBVIOUS
  <2> HIDE DEF s
  <2> QED BY <1>1, <2>1 DEF Dropped
<1> HIDE DEF s
<1>3. r = [j \in 1 .. (n - 1) |-> r[j]]
  BY <1>2, SeqIs
<1>4. ASSUME NEW j \in 1 .. (n - 1) PROVE q[j] = r[j]
  <2>1. j \in 0 .. n /\ j \in 1 .. n /\ j + 1 \in 1 .. n
    BY <1>1
  <2>2. q[j] = IF j < i THEN p[j] ELSE p[j + 1]
    BY <2>1 DEF Skip
  <2> HIDE DEF q
  <2> QED BY <1>1, <1>2, <2>1, <2>2
<1> HIDE DEF q
<1>5. r = Inner(q, n - 1)
  BY <1>3, <1>4 DEF Inner
<1> QED BY <1>5 DEF q

LEMMA InnerOfMoved ==
    ASSUME NEW p, NEW n, Path(p, n), NEW i \in 1 .. n, NEW e \in CacheKeys, NEW r,
           Dropped(r, Inner(p, n), i, CacheKeys)
    PROVE  Inner(Moved(p, n, i, e), n) = <<e>> \o r
<1>1. n - 1 + 1 = n /\ Path(Skip(p, n, i), n - 1)
  <2>1. n - 1 + 1 = n
    BY DEF Path
  <2> QED BY <2>1, SkipPath
<1>2. r = Inner(Skip(p, n, i), n - 1)
  BY InnerOfSkip
<1>3. Inner(Lead(Skip(p, n, i), n - 1, e), n - 1 + 1) = <<e>> \o Inner(Skip(p, n, i), n - 1)
  BY <1>1, InnerOfLead
<1> QED BY <1>1, <1>2, <1>3 DEF Moved

\* What RecencyCache makes of the order of use is what happens to the list: the key used
\* moves to the front, a new key comes in front, the last one goes for a new one.
LEMMA MoveTouches ==
    ASSUME NEW p, NEW n, Path(p, n), NEW i \in 1 .. n
    PROVE  Inner(Moved(p, n, i, p[i]), n) = <<p[i]>> \o Recency!Without(Inner(p, n), p[i])
<1> DEFINE s == Inner(p, n)
           r == Recency!RemoveAt(s, i)
<1>1. n \in Nat /\ i \in 1 .. n /\ p[i] \in CacheKeys /\ \A j \in 1 .. n : j \in 0 .. (n + 1)
  BY DEF Path
<1>2. s \in Seq(CacheKeys) /\ Len(s) = n /\ \A j \in 1 .. n : s[j] = p[j]
  BY InnerFacts
<1> HIDE DEF s
<1>3. \A j \in 1 .. n : s[j] = p[i] <=> j = i
  BY <1>1, <1>2 DEF Path
<1>4. Recency!Without(s, p[i]) = r
  <2>1. Recency!Contains(s, p[i])
    BY <1>1, <1>2, <1>3 DEF Recency!Contains
  <2>2. Recency!PlaceOf(s, p[i]) = i
    BY <1>1, <1>2, <1>3 DEF Recency!PlaceOf
  <2> QED BY <2>1, <2>2 DEF Recency!Without
<1>5. Dropped(r, s, i, CacheKeys)
  <2>1. r = SubSeq(s, 1, i - 1) \o SubSeq(s, i + 1, Len(s))
    BY DEF Recency!RemoveAt
  <2> HIDE DEF r
  <2> QED BY <1>2, <2>1, DropAt
<1> HIDE DEF r
<1>6. Inner(Moved(p, n, i, p[i]), n) = <<p[i]>> \o r
  BY <1>1, <1>5, InnerOfMoved DEF s
<1> QED BY <1>4, <1>6 DEF s

LEMMA LeadTouches ==
    ASSUME NEW p, NEW n, Path(p, n), NEW e \in CacheKeys, e \notin On(p, n)
    PROVE  Inner(Lead(p, n, e), n + 1) = <<e>> \o Recency!Without(Inner(p, n), e)
<1>1. ~ Recency!Contains(Inner(p, n), e)
  BY InnerFacts DEF Recency!Contains, On
<1>2. Recency!Without(Inner(p, n), e) = Inner(p, n)
  BY <1>1 DEF Recency!Without
<1> QED BY <1>2, InnerOfLead

LEMMA MoveReplaces ==
    ASSUME NEW p, NEW n, Path(p, n), NEW e \in CacheKeys, n # 0
    PROVE  /\ Inner(Moved(p, n, n, e), n) = <<e>> \o Recency!Front(Inner(p, n))
           /\ Recency!Last(Inner(p, n)) = p[n]
<1> DEFINE s == Inner(p, n)
           r == Recency!Front(s)
<1>1. n \in Nat /\ n \in 1 .. n
  BY DEF Path
<1>2. s \in Seq(CacheKeys) /\ Len(s) = n /\ \A j \in 1 .. n : s[j] = p[j]
  BY InnerFacts
<1> HIDE DEF s
<1>3. Dropped(r, s, n, CacheKeys)
  <2>1. r = SubSeq(s, 1, n - 1)
    BY <1>2 DEF Recency!Front
  <2> HIDE DEF r
  <2>2. r \in Seq(CacheKeys) /\ Len(r) = n - 1 /\ \A j \in 1 .. (n - 1) : r[j] = s[j]
    BY <1>1, <1>2, <2>1
  <2>3. \A j \in 1 .. (n - 1) : j < n
    BY <1>1
  <2> QED BY <1>2, <2>2, <2>3 DEF Dropped
<1> HIDE DEF r
<1>4. Inner(Moved(p, n, n, e), n) = <<e>> \o r
  BY <1>1, <1>3, InnerOfMoved DEF s
<1>5. Recency!Last(s) = p[n]
  BY <1>1, <1>2 DEF Recency!Last
<1> QED BY <1>4, <1>5 DEF s, r
LRUTypes == entries \in [CacheKeys -> CacheValues \cup {Missing}]

\* The pointers are one path through the keys held, which are no more than capacity.
LRUInv == LRUTypes /\ \E p, n : ListOf(p, n) /\ n <= capacity

LEMMA WalkFindsNext == WalkReads'
BY WalkFinds, PTL

LEMMA LRUInit == LRU!Init => LRUInv /\ LRU!keysMRUFirst = <<>>
<1> SUFFICES ASSUME LRU!Init PROVE LRUInv /\ LRU!keysMRUFirst = <<>>
  OBVIOUS
<1> DEFINE p == [i \in 0 .. 1 |-> IF i = 0 THEN listHead ELSE listTail]
<1>1. /\ entries = [k \in CacheKeys |-> Missing]
      /\ list = [prev |-> [x \in LRUNodes |-> listHead], next |-> [x \in LRUNodes |-> listTail]]
  BY DEF LRU!Init, LRU!Nodes, LRUNodes
<1>2. listHead \in LRUNodes /\ listTail \in LRUNodes
  BY DEF LRUNodes
<1>3. LRU!Held = {}
  BY <1>1 DEF LRU!Held
<1>4. Path(p, 0)
  <2>1. p \in [0 .. (0 + 1) -> LRUNodes] /\ p[0] = listHead /\ p[0 + 1] = listTail
    BY <1>2
  <2>2. \A i, j \in 0 .. (0 + 1) : p[i] = p[j] => i = j
    BY LRUConstants
  <2> HIDE DEF p
  <2> QED BY <2>1, <2>2 DEF Path
<1>5. Pointers(list)
  BY <1>1, <1>2 DEF Pointers
<1>6. Linked(list, p, 0)
  BY <1>1, <1>2 DEF Linked
<1>7. On(p, 0) = {}
  BY DEF On
<1>8. Cardinality(LRU!Held) = 0
  BY <1>3, FS_EmptySet
<1> HIDE DEF p
<1>9. ListOf(p, 0)
  BY <1>3, <1>4, <1>5, <1>6, <1>7, <1>8 DEF ListOf
<1>10. 0 <= capacity
  BY LRUConstants
<1>11. LRUInv
  BY <1>1, <1>9, <1>10 DEF LRUInv, LRUTypes
<1>12. LRU!keysMRUFirst = Inner(p, 0)
  BY <1>9, WalkFinds DEF WalkReads
<1>13. Inner(p, 0) = <<>>
  BY DEF Inner
<1> QED BY <1>11, <1>12, <1>13

LEMMA UseMoves ==
    ASSUME LRUInv, LRUTypes', LRU!Held' = LRU!Held, NEW k \in LRU!Held,
           list' = LRU!pushFront(LRU!unlink(list, k), k)
    PROVE  LRUInv' /\ LRU!keysMRUFirst' = <<k>> \o Recency!Without(LRU!keysMRUFirst, k)
<1>1. PICK p, n : ListOf(p, n) /\ n <= capacity
  BY DEF LRUInv
<1>2. Path(p, n) /\ Pointers(list) /\ Linked(list, p, n) /\ On(p, n) = LRU!Held /\ Cardinality(LRU!Held) = n
  BY <1>1 DEF ListOf
<1>3. PICK i \in 1 .. n : p[i] = k
  BY <1>2 DEF On
<1>4. k \in CacheKeys
  BY DEF LRU!Held
<1>5. /\ Pointers(list') /\ Path(Moved(p, n, i, k), n) /\ Linked(list', Moved(p, n, i, k), n)
      /\ On(Moved(p, n, i, k), n) = (On(p, n) \ {p[i]}) \cup {k}
  BY <1>2, <1>3, <1>4, MoveLinks
<1>6. ListOf(Moved(p, n, i, k), n)'
  BY <1>2, <1>3, <1>5 DEF ListOf
<1>7. LRUInv'
  BY <1>1, <1>6 DEF LRUInv
<1>8. LRU!keysMRUFirst' = Inner(Moved(p, n, i, k), n)
  BY <1>6, WalkFindsNext DEF WalkReads
<1>9. LRU!keysMRUFirst = Inner(p, n)
  BY <1>1, WalkFinds DEF WalkReads
<1> QED BY <1>2, <1>3, <1>7, <1>8, <1>9, MoveTouches

LEMMA InsertLeads ==
    ASSUME LRUInv, LRUTypes', NEW k \in CacheKeys, k \notin LRU!Held, LRU!Held' = LRU!Held \cup {k},
           Cardinality(LRU!Held) < capacity, list' = LRU!pushFront(list, k)
    PROVE  /\ LRUInv' /\ LRU!keysMRUFirst' = <<k>> \o Recency!Without(LRU!keysMRUFirst, k)
           /\ Len(LRU!keysMRUFirst) < capacity
<1>1. PICK p, n : ListOf(p, n) /\ n <= capacity
  BY DEF LRUInv
<1>2. /\ n \in Nat /\ Path(p, n) /\ Pointers(list) /\ Linked(list, p, n)
      /\ On(p, n) = LRU!Held /\ Cardinality(LRU!Held) = n
  BY <1>1 DEF ListOf, Path
<1>3. /\ Pointers(list') /\ Linked(list', Lead(p, n, k), n + 1)
      /\ Path(Lead(p, n, k), n + 1) /\ On(Lead(p, n, k), n + 1) = On(p, n) \cup {k}
  BY <1>2, PushLinks, LeadPath
<1>4. Cardinality(LRU!Held') = n + 1
  <2>1. IsFiniteSet(LRU!Held)
    <3>1. LRU!Held \subseteq CacheKeys
      BY DEF LRU!Held
    <3> QED BY <3>1, LRUConstants, FS_Subset
  <2> QED BY <1>2, <2>1, FS_AddElement
<1>5. ListOf(Lead(p, n, k), n + 1)'
  BY <1>2, <1>3, <1>4 DEF ListOf
<1>6. n + 1 <= capacity
  BY <1>2, LRUConstants
<1>7. LRUInv'
  BY <1>5, <1>6 DEF LRUInv
<1>8. LRU!keysMRUFirst' = Inner(Lead(p, n, k), n + 1)
  BY <1>5, WalkFindsNext DEF WalkReads
<1>9. LRU!keysMRUFirst = Inner(p, n) /\ Len(Inner(p, n)) = n
  BY <1>1, <1>2, WalkFinds, InnerFacts DEF WalkReads
<1> QED BY <1>2, <1>7, <1>8, <1>9, LeadTouches

LEMMA EvictReplaces ==
    ASSUME LRUInv, LRUTypes', NEW k \in CacheKeys, k \notin LRU!Held,
           LRU!Held' = (LRU!Held \ {LRU!victim}) \cup {k},
           Cardinality(LRU!Held) >= capacity, list' = LRU!pushFront(LRU!unlink(list, LRU!victim), k)
    PROVE  /\ LRUInv' /\ LRU!keysMRUFirst' = <<k>> \o Recency!Front(LRU!keysMRUFirst)
           /\ Len(LRU!keysMRUFirst) = capacity
           /\ Recency!Last(LRU!keysMRUFirst) = LRU!victim
<1>1. PICK p, n : ListOf(p, n) /\ n <= capacity
  BY DEF LRUInv
<1>2. /\ n \in Nat /\ Path(p, n) /\ Pointers(list) /\ Linked(list, p, n)
      /\ On(p, n) = LRU!Held /\ Cardinality(LRU!Held) = n
  BY <1>1 DEF ListOf, Path
<1>3. n = capacity /\ n # 0 /\ n \in 1 .. n
  BY <1>1, <1>2, LRUConstants
<1>4. LRU!victim = p[n]
  <2>1. n \in 0 .. n /\ p[n + 1] = listTail
    BY <1>2 DEF Path
  <2> QED BY <1>2, <2>1 DEF LRU!victim, Linked
<1>5. /\ Pointers(list') /\ Path(Moved(p, n, n, k), n) /\ Linked(list', Moved(p, n, n, k), n)
      /\ On(Moved(p, n, n, k), n) = (On(p, n) \ {p[n]}) \cup {k}
  BY <1>2, <1>3, <1>4, MoveLinks
<1>6. Cardinality(LRU!Held') = n
  <2>1. IsFiniteSet(LRU!Held)
    <3>1. LRU!Held \subseteq CacheKeys
      BY DEF LRU!Held
    <3> QED BY <3>1, LRUConstants, FS_Subset
  <2>2. p[n] \in LRU!Held
    BY <1>2, <1>3 DEF On
  <2>3. IsFiniteSet(LRU!Held \ {p[n]}) /\ Cardinality(LRU!Held \ {p[n]}) = n - 1
    BY <1>2, <2>1, <2>2, FS_RemoveElement
  <2>4. k \notin LRU!Held \ {p[n]}
    OBVIOUS
  <2>5. Cardinality((LRU!Held \ {p[n]}) \cup {k}) = n - 1 + 1
    BY <2>3, <2>4, FS_AddElement
  <2> QED BY <1>2, <1>4, <2>5
<1>7. ListOf(Moved(p, n, n, k), n)'
  BY <1>2, <1>4, <1>5, <1>6 DEF ListOf
<1>8. LRUInv'
  BY <1>1, <1>7 DEF LRUInv
<1>9. LRU!keysMRUFirst' = Inner(Moved(p, n, n, k), n)
  BY <1>7, WalkFindsNext DEF WalkReads
<1>10. LRU!keysMRUFirst = Inner(p, n) /\ Len(Inner(p, n)) = n
  BY <1>1, <1>2, WalkFinds, InnerFacts DEF WalkReads
<1> QED BY <1>2, <1>3, <1>4, <1>8, <1>9, <1>10, MoveReplaces
LEMMA LRUStepRefines ==
    ASSUME LRUInv, part = "lru", part' = part, LRU!Next
    PROVE  LRUInv' /\ [Recency!Next]_(Recency!vars)
<1> DEFINE keys == LRU!keysMRUFirst
<1>1. entries \in [CacheKeys -> CacheValues \cup {Missing}]
  BY DEF LRUInv, LRUTypes
<1>2. \A k \in CacheKeys : k \in LRU!Held <=> entries[k] # Missing
  BY DEF LRU!Held
<1>3. PICK k \in CacheKeys :
        LRU!Get(k) \/ LRU!GetMiss(k) \/ \E v \in CacheValues : LRU!Put(k, v)
  BY DEF LRU!Next
<1>4. CASE LRU!GetMiss(k)
  <2>1. entries' = entries /\ list' = list /\ used' = used
    BY <1>4 DEF LRU!GetMiss
  <2>2. LRU!Held' = LRU!Held
    BY <2>1 DEF LRU!Held
  <2>3. PICK p, n : ListOf(p, n) /\ n <= capacity
    BY DEF LRUInv
  <2>4. ListOf(p, n)'
    BY <2>1, <2>2, <2>3 DEF ListOf
  <2>5. LRUInv'
    BY <1>1, <2>1, <2>3, <2>4 DEF LRUInv, LRUTypes
  <2>6. keys' = keys
    BY <2>3, <2>4, WalkFinds, WalkFindsNext DEF WalkReads
  <2> HIDE DEF keys
  <2>7. UNCHANGED Recency!vars
    BY <2>1, <2>6 DEF Recency!vars, keys
  <2> QED BY <2>5, <2>7
<1>5. CASE LRU!Get(k)
  <2>1. /\ entries[k] # Missing /\ entries' = entries /\ used' = k
        /\ list' = LRU!pushFront(LRU!unlink(list, k), k)
    BY <1>5 DEF LRU!Get
  <2>2. LRU!Held' = LRU!Held /\ k \in LRU!Held /\ LRUTypes'
    BY <1>1, <1>2, <2>1 DEF LRU!Held, LRUTypes
  <2>3. LRUInv' /\ keys' = <<k>> \o Recency!Without(keys, k)
    BY <2>1, <2>2, UseMoves
  <2> HIDE DEF keys
  <2>4. Recency!Read(k)
    BY <2>1, <2>3 DEF Recency!Read, Recency!Touch, keys
  <2> QED BY <2>3, <2>4 DEF Recency!Next
<1>6. ASSUME NEW v \in CacheValues, LRU!Put(k, v)
      PROVE  LRUInv' /\ Recency!Next
  <2>1. v # Missing
    BY LRUConstants
  <2>2. CASE LRU!PutUpdate(k, v)
    <3>1. /\ entries[k] # Missing /\ entries' = [entries EXCEPT ![k] = v] /\ used' = k
          /\ list' = LRU!pushFront(LRU!unlink(list, k), k)
      BY <2>2 DEF LRU!PutUpdate
    <3>2. LRU!Held' = LRU!Held /\ k \in LRU!Held /\ LRUTypes'
      BY <1>1, <1>2, <2>1, <3>1 DEF LRU!Held, LRUTypes
    <3>3. LRUInv' /\ keys' = <<k>> \o Recency!Without(keys, k)
      BY <3>1, <3>2, UseMoves
    <3> HIDE DEF keys
    <3>4. Recency!Update(k, v)
      BY <3>1, <3>3 DEF Recency!Update, Recency!Touch, keys
    <3> QED BY <3>3, <3>4 DEF Recency!Next
  <2>3. CASE LRU!PutInsert(k, v)
    <3>1. /\ entries[k] = Missing /\ entries' = [entries EXCEPT ![k] = v] /\ used' = k
          /\ list' = LRU!pushFront(list, k) /\ Cardinality(LRU!Held) < capacity
      BY <2>3, CacheCountingIsShared DEF LRU!PutInsert
    <3>2. LRU!Held' = LRU!Held \cup {k} /\ k \notin LRU!Held /\ LRUTypes'
      BY <1>1, <1>2, <2>1, <3>1 DEF LRU!Held, LRUTypes
    <3>3. /\ LRUInv' /\ keys' = <<k>> \o Recency!Without(keys, k)
          /\ Len(keys) < capacity
      BY <3>1, <3>2, InsertLeads
    <3> HIDE DEF keys
    <3>4. Recency!Insert(k, v)
      BY <3>1, <3>3 DEF Recency!Insert, Recency!Touch, keys
    <3> QED BY <3>3, <3>4 DEF Recency!Next
  <2>4. CASE LRU!PutEvict(k, v)
    <3> DEFINE g == LRU!victim
    <3>1. /\ entries[k] = Missing /\ entries' = [entries EXCEPT ![g] = Missing, ![k] = v]
          /\ used' = k /\ Cardinality(LRU!Held) >= capacity
          /\ list' = LRU!pushFront(LRU!unlink(list, g), k)
      BY <2>4, CacheCountingIsShared DEF LRU!PutEvict
    <3>2. g \in LRU!Held
      <4>1. PICK p, n : ListOf(p, n) /\ n <= capacity
        BY DEF LRUInv
      <4>2. n \in Nat /\ n \in 0 .. n /\ n \in 1 .. n /\ p[n + 1] = listTail
        BY <3>1, <4>1, LRUConstants DEF ListOf, Path
      <4>3. g = p[n]
        BY <4>1, <4>2 DEF ListOf, Linked, LRU!victim
      <4> QED BY <4>1, <4>2, <4>3 DEF ListOf, On
    <3> HIDE DEF g
    <3>3. g \in CacheKeys /\ g # k
      BY <1>2, <3>1, <3>2 DEF LRU!Held
    <3>4. LRU!Held' = (LRU!Held \ {g}) \cup {k} /\ k \notin LRU!Held /\ LRUTypes'
      BY <1>1, <1>2, <2>1, <3>1, <3>3 DEF LRU!Held, LRUTypes
    <3>5. /\ LRUInv' /\ keys' = <<k>> \o Recency!Front(keys)
          /\ Len(keys) = capacity /\ Recency!Last(keys) = g
      BY <3>1, <3>4, EvictReplaces DEF g
    <3> HIDE DEF keys
    <3>6. entries' = [entries EXCEPT ![k] = v, ![Recency!Last(keys)] = Missing]
      BY <1>1, <3>1, <3>3, <3>5
    <3>7. Recency!Replace(k, v)
      BY <3>1, <3>5, <3>6 DEF Recency!Replace, keys
    <3> QED BY <3>5, <3>7 DEF Recency!Next
  <2> QED BY <1>6, <2>2, <2>3, <2>4 DEF LRU!Put
<1> QED BY <1>3, <1>4, <1>5, <1>6

\* lru.go:12: the cache with its pointers implements RecencyCache, the walk of the list being
\* the order of use: at most capacity keys, and to make room the one used longest ago goes.
THEOREM LRUImplementsRecency == Spec => Recency!Spec
<1>1. Init => LRUInv /\ Recency!Init
  <2> SUFFICES ASSUME Init PROVE LRUInv /\ Recency!Init
    OBVIOUS
  <2>1. LRU!Init
    BY DEF Init, Start
  <2>2. entries = [k \in CacheKeys |-> Missing] /\ used = Missing
    BY <2>1 DEF LRU!Init
  <2> QED BY <2>1, <2>2, LRUInit DEF Recency!Init
<1>2. LRUInv /\ [Next]_vars => LRUInv' /\ [Recency!Next]_(Recency!vars)
  <2> SUFFICES ASSUME LRUInv, [Next]_vars PROVE LRUInv' /\ [Recency!Next]_(Recency!vars)
    OBVIOUS
  <2>1. CASE LRUStep
    <3>1. part = "lru" /\ part' = part /\ LRU!Next
      BY <2>1 DEF LRUStep
    <3> QED BY <3>1, LRUStepRefines
  <2>2. CASE UNCHANGED <<part, lruVars>>
    <3>1. part' = part /\ entries' = entries /\ list' = list /\ used' = used
      BY <2>2 DEF lruVars
    <3>2. LRU!Held' = LRU!Held
      BY <3>1 DEF LRU!Held
    <3>3. PICK p, n : ListOf(p, n) /\ n <= capacity
      BY DEF LRUInv
    <3>4. ListOf(p, n)'
      BY <3>1, <3>2, <3>3 DEF ListOf
    <3>5. LRUInv'
      BY <3>1, <3>3, <3>4 DEF LRUInv, LRUTypes
    <3>6. LRU!keysMRUFirst' = LRU!keysMRUFirst
      BY <3>3, <3>4, WalkFinds, WalkFindsNext DEF WalkReads
    <3>7. UNCHANGED Recency!vars
      BY <3>1, <3>6 DEF Recency!vars
    <3> QED BY <3>5, <3>7
  <2>3. LRUStep \/ UNCHANGED <<part, lruVars>>
    BY DEF Next, LogStep, LSMStep, LFUStep, SketchStep, vars
  <2> QED BY <2>1, <2>2, <2>3
<1> QED BY <1>1, <1>2, PTL DEF Spec, Recency!Spec

-----------------------------------------------------------------------------
(* The LFU cache. What its buckets say is, for every frequency, the list   *)
(* of the keys used that often; buckets and their order are how it is kept.*)

Joined(r, s, t, S) ==
    /\ r \in Seq(S) /\ Len(r) = Len(s) + Len(t)
    /\ \A j \in 1 .. Len(s) : r[j] = s[j]
    /\ \A j \in 1 .. Len(t) : r[Len(s) + j] = t[j]

LEMMA JoinSeqs ==
    ASSUME NEW S, NEW s \in Seq(S), NEW t \in Seq(S)
    PROVE  Joined(s \o t, s, t, S)
<1>1. Len(s) \in Nat /\ Len(t) \in Nat
  OBVIOUS
<1>2. s \o t \in Seq(S) /\ Len(s \o t) = Len(s) + Len(t)
  OBVIOUS
<1>3. ASSUME NEW j \in 1 .. Len(s) PROVE (s \o t)[j] = s[j]
  BY <1>1
<1>4. ASSUME NEW j \in 1 .. Len(t) PROVE (s \o t)[Len(s) + j] = t[j]
  BY <1>1
<1> QED BY <1>2, <1>3, <1>4 DEF Joined

Bucket == [freq : Nat \ {0}, nodes : Seq(CacheKeys)]

\* The buckets come in ascending order, one for a frequency.
Rising(bs) ==
    /\ bs \in Seq(Bucket)
    /\ \A i, j \in 1 .. Len(bs) : i < j => bs[i].freq < bs[j].freq

\* The list of the keys of frequency f, empty where there is no bucket.
IsAt(s, bs, f) ==
    \/ \E i \in 1 .. Len(bs) : bs[i].freq = f /\ s = bs[i].nodes
    \/ s = <<>> /\ \A i \in 1 .. Len(bs) : bs[i].freq # f

Says(L, bs) == L \in [Nat -> Seq(CacheKeys)] /\ \A f \in Nat : IsAt(L[f], bs, f)

\* No bucket is empty, but perhaps the one at place i.
FullBut(bs, i) == \A j \in 1 .. Len(bs) : j # i => bs[j].nodes # <<>>

LEMMA BucketFacts ==
    ASSUME NEW bs, Rising(bs)
    PROVE  /\ Len(bs) \in Nat
           /\ \A i \in 1 .. Len(bs) :
                 /\ bs[i] \in Bucket /\ bs[i].freq \in Nat /\ bs[i].freq >= 1
                 /\ bs[i].nodes \in Seq(CacheKeys)
           /\ \A i, j \in 1 .. Len(bs) : i < j => bs[i].freq < bs[j].freq
           /\ \A i, j \in 1 .. Len(bs) : bs[i].freq = bs[j].freq => i = j
<1>1. bs \in Seq(Bucket) /\ \A i, j \in 1 .. Len(bs) : i < j => bs[i].freq < bs[j].freq
  BY DEF Rising
<1>2. Len(bs) \in Nat /\ \A i \in 1 .. Len(bs) : bs[i] \in Bucket
  BY <1>1
<1>3. ASSUME NEW i \in 1 .. Len(bs)
      PROVE  bs[i].freq \in Nat /\ bs[i].freq >= 1 /\ bs[i].nodes \in Seq(CacheKeys)
  <2>1. bs[i] \in Bucket
    BY <1>2
  <2> QED BY <2>1 DEF Bucket
<1>4. ASSUME NEW i \in 1 .. Len(bs), NEW j \in 1 .. Len(bs), bs[i].freq = bs[j].freq PROVE i = j
  <2>1. i \in Nat /\ j \in Nat /\ (i < j \/ j < i \/ i = j)
    BY <1>2
  <2> QED BY <1>1, <1>3, <1>4, <2>1
<1> QED BY <1>1, <1>2, <1>3, <1>4

LEMMA SaysNodes ==
    ASSUME NEW bs, Rising(bs), NEW L, Says(L, bs), NEW i \in 1 .. Len(bs)
    PROVE  L[bs[i].freq] = bs[i].nodes
<1>1. bs[i].freq \in Nat /\ \A j \in 1 .. Len(bs) : bs[j].freq = bs[i].freq => j = i
  BY BucketFacts
<1>2. IsAt(L[bs[i].freq], bs, bs[i].freq)
  BY <1>1 DEF Says
<1> QED BY <1>1, <1>2 DEF IsAt

\* Finding or adding the bucket for f behind place i changes no list.
LEMMA FindOrAdd ==
    ASSUME NEW bs, Rising(bs), NEW L, Says(L, bs), FullBut(bs, 0),
           NEW i \in 0 .. Len(bs), NEW f \in Nat \ {0},
           i > 0 => bs[i].freq < f,
           i < Len(bs) => f <= bs[i + 1].freq
    PROVE  LET c == LFU!withBucketAfter(bs, i, f) IN
           /\ Rising(c) /\ Says(L, c) /\ FullBut(c, i + 1)
           /\ i + 1 \in 1 .. Len(c) /\ c[i + 1].freq = f
           /\ \A j \in 1 .. i : j \in 1 .. Len(c) /\ c[j] = bs[j]
<1> DEFINE c == LFU!withBucketAfter(bs, i, f)
           n == Len(bs)
           b == LFU!newBucket(f)
<1>1. /\ n \in Nat /\ bs \in Seq(Bucket)
      /\ \A j \in 1 .. n : bs[j] \in Bucket /\ bs[j].freq \in Nat
      /\ \A j, k \in 1 .. n : j < k => bs[j].freq < bs[k].freq
  BY BucketFacts DEF Rising
<1>2. CASE i < n /\ bs[i + 1].freq = f
  <2>1. c = bs
    BY <1>2 DEF LFU!withBucketAfter
  <2>2. FullBut(bs, i + 1)
    BY <1>1 DEF FullBut
  <2>3. i + 1 \in 1 .. n /\ \A j \in 1 .. i : j \in 1 .. n
    BY <1>1, <1>2
  <2> HIDE DEF c
  <2> QED BY <1>2, <2>1, <2>2, <2>3 DEF c
<1>3. CASE ~ (i < n /\ bs[i + 1].freq = f)
  <2>1. c = SubSeq(bs, 1, i) \o <<b>> \o SubSeq(bs, i + 1, n)
    <3> HIDE DEF b
    <3>3. c = LFU!InsertAt(bs, i + 1, b)
      BY <1>3 DEF LFU!withBucketAfter, b
    <3> HIDE DEF c
    <3>4. \A s, j, e : LFU!InsertAt(s, j, e) = SubSeq(s, 1, j - 1) \o <<e>> \o SubSeq(s, j, Len(s))
      BY DEF LFU!InsertAt
    <3>5. ASSUME NEW j, j = i + 1
          PROVE  LFU!InsertAt(bs, j, b) = SubSeq(bs, 1, i) \o <<b>> \o SubSeq(bs, j, n)
      <4>1. j - 1 = i
        BY <1>1, <3>5
      <4>2. LFU!InsertAt(bs, j, b) = SubSeq(bs, 1, j - 1) \o <<b>> \o SubSeq(bs, j, Len(bs))
        BY <3>4
      <4> QED BY <4>1, <4>2
    <3>6. LFU!InsertAt(bs, i + 1, b) = SubSeq(bs, 1, i) \o <<b>> \o SubSeq(bs, i + 1, n)
      BY <3>5
    <3> HIDE DEF c
    <3> QED BY <3>3, <3>6
  <2>2. b \in Bucket /\ b.freq = f /\ b.nodes = <<>>
    BY DEF LFU!newBucket, Bucket
  <2> HIDE DEF b
  <2>3. /\ c \in Seq(Bucket) /\ Len(c) = n + 1 /\ c[i + 1] = b
        /\ \A j \in 1 .. i : c[j] = bs[j]
        /\ \A j \in i + 1 .. n : c[j + 1] = bs[j]
    <3> DEFINE x == SubSeq(bs, 1, i)
               y == SubSeq(bs, i + 1, n)
    <3>1. x \in Seq(Bucket) /\ Len(x) = i /\ \A j \in 1 .. i : x[j] = bs[j]
      BY <1>1
    <3>2. y \in Seq(Bucket) /\ Len(y) = n - i /\ \A j \in 1 .. (n - i) : y[j] = bs[i + j]
      BY <1>1
    <3> HIDE DEF x, y
    <3>3. <<b>> \in Seq(Bucket) /\ Len(<<b>>) = 1 /\ <<b>>[1] = b
      BY <2>2
    <3> DEFINE w == x \o <<b>>
    <3>4. w \in Seq(Bucket) /\ Len(w) = i + 1 /\ w[i + 1] = b /\ \A j \in 1 .. i : w[j] = bs[j]
      BY <1>1, <2>2, <3>1
    <3> HIDE DEF w
    <3>5. Joined(w \o y, w, y, Bucket)
      BY <3>2, <3>4, JoinSeqs
    <3>6. c = w \o y
      BY <2>1 DEF w, x, y
    <3> HIDE DEF c
    <3>7. Joined(c, w, y, Bucket)
      BY <3>5, <3>6
    <3>8. /\ c \in Seq(Bucket) /\ Len(c) = Len(w) + Len(y)
          /\ \A j \in 1 .. Len(w) : c[j] = w[j]
          /\ \A j \in 1 .. Len(y) : c[Len(w) + j] = y[j]
      BY <3>7 DEF Joined
    <3>9. Len(c) = n + 1 /\ i + 1 \in 1 .. Len(w)
      BY <1>1, <3>2, <3>4, <3>8
    <3>10. ASSUME NEW j \in 1 .. i PROVE c[j] = bs[j]
      <4>1. j \in 1 .. Len(w)
        BY <1>1, <3>4
      <4> QED BY <3>4, <3>8, <4>1
    <3>11. ASSUME NEW j \in i + 1 .. n PROVE c[j + 1] = bs[j]
      <4>1. j - i \in 1 .. Len(y) /\ i + (j - i) = j /\ Len(w) + (j - i) = j + 1
        BY <1>1, <3>2, <3>4
      <4>2. c[Len(w) + (j - i)] = y[j - i]
        BY <3>8, <4>1
      <4>3. y[j - i] = bs[i + (j - i)]
        BY <3>2, <4>1
      <4> QED BY <4>1, <4>2, <4>3
    <3> QED BY <3>4, <3>8, <3>9, <3>10, <3>11
  <2> HIDE DEF c
  <2>4. ASSUME NEW j \in 1 .. Len(c)
        PROVE  \/ j \in 1 .. i /\ j \in 1 .. n /\ c[j] = bs[j]
               \/ j = i + 1 /\ c[j] = b
               \/ j > i + 1 /\ j - 1 \in i + 1 .. n /\ j - 1 \in 1 .. n /\ c[j] = bs[j - 1]
    <3>1. CASE j <= i
      BY <1>1, <2>3, <3>1
    <3>2. CASE j = i + 1
      BY <2>3, <3>2
    <3>3. CASE j > i + 1
      <4>1. j - 1 \in i + 1 .. n /\ j - 1 \in 1 .. n /\ j - 1 + 1 = j
        BY <1>1, <2>3, <3>3
      <4>2. c[j - 1 + 1] = bs[j - 1]
        BY <2>3, <4>1
      <4> QED BY <3>3, <4>1, <4>2
    <3> QED BY <1>1, <2>3, <3>1, <3>2, <3>3
  <2>5. /\ \A j \in 1 .. i : j \in 1 .. n /\ bs[j].freq < f
        /\ \A j \in i + 1 .. n : j \in 1 .. n /\ bs[j].freq > f
    <3>1. ASSUME NEW j \in 1 .. i PROVE j \in 1 .. n /\ bs[j].freq < f
      <4>1. j \in 1 .. n /\ i \in 1 .. n /\ i > 0 /\ (j = i \/ j < i)
        BY <1>1
      <4> QED BY <1>1, <4>1
    <3>2. ASSUME NEW j \in i + 1 .. n PROVE j \in 1 .. n /\ bs[j].freq > f
      <4>1. j \in 1 .. n /\ i + 1 \in 1 .. n /\ i < n /\ (j = i + 1 \/ i + 1 < j)
        BY <1>1
      <4>2. f <= bs[i + 1].freq /\ bs[i + 1].freq # f
        BY <1>3, <4>1
      <4> QED BY <1>1, <4>1, <4>2
    <3> QED BY <3>1, <3>2
  <2>6. Rising(c)
    <3>1. ASSUME NEW j \in 1 .. Len(c), NEW k \in 1 .. Len(c), j < k PROVE c[j].freq < c[k].freq
      <4>1. CASE k <= i
        <5>1. j \in 1 .. n /\ k \in 1 .. n /\ c[j] = bs[j] /\ c[k] = bs[k]
          BY <1>1, <2>3, <2>4, <3>1, <4>1
        <5> QED BY <1>1, <3>1, <5>1
      <4>2. CASE j > i + 1
        <5>1. j - 1 \in 1 .. n /\ k - 1 \in 1 .. n /\ c[j] = bs[j - 1] /\ c[k] = bs[k - 1] /\ j - 1 < k - 1
          BY <1>1, <2>3, <2>4, <3>1, <4>2
        <5> QED BY <1>1, <5>1
      <4>3. CASE j <= i + 1 /\ k > i
        <5>1. c[j].freq \in Nat /\ c[j].freq <= f /\ (j <= i => c[j].freq < f)
          BY <1>1, <2>2, <2>4, <2>5, <4>3
        <5>2. c[k].freq \in Nat /\ c[k].freq >= f /\ (k > i + 1 => c[k].freq > f)
          BY <1>1, <2>2, <2>4, <2>5, <4>3
        <5>3. j <= i \/ k > i + 1
          BY <1>1, <2>3, <3>1, <4>3
        <5> QED BY <5>1, <5>2, <5>3
      <4> QED BY <1>1, <2>3, <4>1, <4>2, <4>3
    <3> QED BY <2>3, <3>1 DEF Rising
  <2>7. ASSUME NEW g \in Nat PROVE IsAt(L[g], c, g)
    <3>1. IsAt(L[g], bs, g)
      BY DEF Says
    <3>2. ASSUME NEW j \in 1 .. n, bs[j].freq = g, L[g] = bs[j].nodes PROVE IsAt(L[g], c, g)
      <4>1. PICK k \in 1 .. Len(c) : c[k] = bs[j]
        <5>1. CASE j <= i
          BY <1>1, <2>3, <5>1
        <5>2. CASE j > i
          <6>1. j \in i + 1 .. n /\ j + 1 \in 1 .. Len(c)
            BY <1>1, <2>3, <5>2
          <6> QED BY <2>3, <6>1
        <5> QED BY <1>1, <5>1, <5>2
      <4> QED BY <3>2, <4>1 DEF IsAt
    <3>3. ASSUME L[g] = <<>>, \A j \in 1 .. n : bs[j].freq # g PROVE IsAt(L[g], c, g)
      <4>1. CASE g = f
        <5>1. i + 1 \in 1 .. Len(c)
          BY <1>1, <2>3
        <5> QED BY <2>2, <2>3, <3>3, <4>1, <5>1 DEF IsAt
      <4>2. CASE g # f
        <5>1. \A j \in 1 .. Len(c) : c[j].freq # g
          BY <2>2, <2>4, <3>3, <4>2
        <5> QED BY <3>3, <5>1 DEF IsAt
      <4> QED BY <4>1, <4>2
    <3> QED BY <3>1, <3>2, <3>3 DEF IsAt
  <2>8. Says(L, c)
    BY <2>7 DEF Says
  <2>9. FullBut(c, i + 1)
    <3>1. ASSUME NEW j \in 1 .. Len(c), j # i + 1 PROVE c[j].nodes # <<>>
      <4>1. PICK k \in 1 .. n : c[j] = bs[k]
        BY <2>4, <3>1
      <4>2. k # 0
        BY <1>1
      <4> QED BY <4>1, <4>2 DEF FullBut
    <3> QED BY <3>1 DEF FullBut
  <2>10. i + 1 \in 1 .. Len(c) /\ c[i + 1].freq = f /\ \A j \in 1 .. i : j \in 1 .. Len(c)
    BY <1>1, <2>2, <2>3
  <2> QED BY <2>3, <2>6, <2>8, <2>9, <2>10 DEF c
<1> QED BY <1>2, <1>3
\* c is bs with the list s in the bucket at place i.
Holds(c, bs, i, s) ==
    /\ Len(c) = Len(bs) /\ Rising(c)
    /\ \A j \in 1 .. Len(bs) : c[j].freq = bs[j].freq
    /\ \A j \in 1 .. Len(bs) : j # i => c[j].nodes = bs[j].nodes
    /\ c[i].nodes = s

\* A new list for a bucket is a new list for its frequency only.
LEMMA SetNodes ==
    ASSUME NEW bs, Rising(bs), NEW L, Says(L, bs), NEW i \in 1 .. Len(bs), NEW s \in Seq(CacheKeys)
    PROVE  LET c == [bs EXCEPT ![i].nodes = s] IN
           Holds(c, bs, i, s) /\ Says([L EXCEPT ![bs[i].freq] = s], c)
<1> DEFINE c == [bs EXCEPT ![i].nodes = s]
           M == [L EXCEPT ![bs[i].freq] = s]
           n == Len(bs)
<1>1. /\ n \in Nat /\ bs \in Seq(Bucket)
      /\ \A j \in 1 .. n : bs[j] \in Bucket /\ bs[j].freq \in Nat
      /\ \A j, k \in 1 .. n : j < k => bs[j].freq < bs[k].freq
      /\ \A j, k \in 1 .. n : bs[j].freq = bs[k].freq => j = k
  BY BucketFacts DEF Rising
<1>2. L \in [Nat -> Seq(CacheKeys)] /\ \A f \in Nat : IsAt(L[f], bs, f)
  BY DEF Says
<1>3. [bs[i] EXCEPT !.nodes = s] \in Bucket /\ [bs[i] EXCEPT !.nodes = s].freq = bs[i].freq
      /\ [bs[i] EXCEPT !.nodes = s].nodes = s
  <2>1. bs[i] \in [freq : Nat \ {0}, nodes : Seq(CacheKeys)]
    BY <1>1 DEF Bucket
  <2> QED BY <2>1 DEF Bucket
<1>4. c = [bs EXCEPT ![i] = [bs[i] EXCEPT !.nodes = s]]
  OBVIOUS
<1>5. /\ c \in Seq(Bucket) /\ Len(c) = n
      /\ \A j \in 1 .. n : c[j] = IF j = i THEN [bs[i] EXCEPT !.nodes = s] ELSE bs[j]
  <2> DEFINE b == [bs[i] EXCEPT !.nodes = s]
  <2>1. b \in Bucket
    BY <1>3
  <2> HIDE DEF b
  <2>2. c = [bs EXCEPT ![i] = b]
    BY <1>4 DEF b
  <2> HIDE DEF c
  <2>3. c \in Seq(Bucket) /\ Len(c) = n /\ \A j \in 1 .. n : c[j] = IF j = i THEN b ELSE bs[j]
    BY <1>1, <2>1, <2>2
  <2> QED BY <2>3 DEF b
<1> HIDE DEF c
<1>6. \A j \in 1 .. n : c[j].freq = bs[j].freq /\ c[j].nodes = IF j = i THEN s ELSE bs[j].nodes
  BY <1>3, <1>5
<1>7. Rising(c)
  BY <1>1, <1>5, <1>6 DEF Rising
<1>8. Holds(c, bs, i, s)
  BY <1>5, <1>6, <1>7 DEF Holds
<1>9. ASSUME NEW f \in Nat PROVE IsAt(M[f], c, f)
  <2>1. M[f] = IF f = bs[i].freq THEN s ELSE L[f]
    BY <1>2
  <2> HIDE DEF M
  <2>2. CASE f = bs[i].freq
    BY <1>5, <1>6, <2>1, <2>2 DEF IsAt
  <2>3. CASE f # bs[i].freq
    <3>1. IsAt(L[f], bs, f)
      BY <1>2
    <3> QED BY <1>5, <1>6, <2>1, <2>3, <3>1 DEF IsAt
  <2> QED BY <2>2, <2>3
<1>10. M \in [Nat -> Seq(CacheKeys)]
  BY <1>1, <1>2
<1>11. Says(M, c)
  <2> HIDE DEF M
  <2> QED BY <1>9, <1>10 DEF Says
<1> QED BY <1>8, <1>11 DEF c

\* Taking an empty bucket out changes no list, and leaves no bucket empty.
LEMMA TakeOut ==
    ASSUME NEW bs, Rising(bs), NEW L, Says(L, bs), NEW i \in 1 .. Len(bs), FullBut(bs, i)
    PROVE  LET c == LFU!removeIfEmpty(bs, i) IN
           Rising(c) /\ Says(L, c) /\ FullBut(c, 0)
<1> DEFINE c == LFU!removeIfEmpty(bs, i)
           n == Len(bs)
<1>1. /\ n \in Nat /\ bs \in Seq(Bucket)
      /\ \A j \in 1 .. n : bs[j] \in Bucket /\ bs[j].freq \in Nat
      /\ \A j, k \in 1 .. n : j < k => bs[j].freq < bs[k].freq
      /\ \A j, k \in 1 .. n : bs[j].freq = bs[k].freq => j = k
  BY BucketFacts DEF Rising
<1>2. CASE bs[i].nodes # <<>>
  <2>1. c = bs
    BY <1>2 DEF LFU!removeIfEmpty
  <2>2. FullBut(bs, 0)
    BY <1>2 DEF FullBut
  <2> HIDE DEF c
  <2> QED BY <2>1, <2>2 DEF c
<1>3. CASE bs[i].nodes = <<>>
  <2>1. c = LFU!RemoveAt(bs, i)
    BY <1>3 DEF LFU!removeIfEmpty
  <2>2. LFU!RemoveAt(bs, i) = SubSeq(bs, 1, i - 1) \o SubSeq(bs, i + 1, Len(bs))
    BY DEF LFU!RemoveAt
  <2> HIDE DEF c
  <2>3. Dropped(c, bs, i, Bucket)
    <3>1. Dropped(SubSeq(bs, 1, i - 1) \o SubSeq(bs, i + 1, Len(bs)), bs, i, Bucket)
      BY <1>1, DropAt
    <3> QED BY <2>1, <2>2, <3>1
  <2>4. /\ c \in Seq(Bucket) /\ Len(c) = n - 1
        /\ \A j \in 1 .. (n - 1) : c[j] = IF j < i THEN bs[j] ELSE bs[j + 1]
    BY <2>3 DEF Dropped
  <2>5. \A j \in 1 .. (n - 1) : j \in 1 .. n /\ j + 1 \in 1 .. n
    BY <1>1
  <2>6. ASSUME NEW j \in 1 .. (n - 1), NEW k \in 1 .. (n - 1), j < k PROVE c[j].freq < c[k].freq
    <3> DEFINE x == IF j < i THEN j ELSE j + 1
               y == IF k < i THEN k ELSE k + 1
    <3>1. x \in 1 .. n /\ y \in 1 .. n /\ x < y
      BY <1>1, <2>6
    <3>2. c[j] = bs[x] /\ c[k] = bs[y]
      BY <2>4
    <3> HIDE DEF x, y
    <3> QED BY <1>1, <3>1, <3>2
  <2>7. Rising(c)
    BY <2>4, <2>6 DEF Rising
  <2>8. ASSUME NEW k \in 1 .. n, k # i
        PROVE  \E j \in 1 .. Len(c) : c[j] = bs[k]
    <3>1. CASE k < i
      <4>1. k \in 1 .. (n - 1)
        BY <1>1, <3>1
      <4> QED BY <2>4, <3>1, <4>1
    <3>2. CASE k > i
      <4>1. k - 1 \in 1 .. (n - 1) /\ ~ (k - 1 < i) /\ k - 1 + 1 = k
        BY <1>1, <3>2
      <4> QED BY <2>4, <4>1
    <3> QED BY <1>1, <2>8, <3>1, <3>2
  <2>9. ASSUME NEW f \in Nat PROVE IsAt(L[f], c, f)
    <3>1. IsAt(L[f], bs, f)
      BY DEF Says
    <3>2. ASSUME NEW k \in 1 .. n, bs[k].freq = f, L[f] = bs[k].nodes PROVE IsAt(L[f], c, f)
      <4>1. CASE k # i
        BY <2>8, <3>2, <4>1 DEF IsAt
      <4>2. CASE k = i
        <5>1. \A j \in 1 .. (n - 1) : c[j].freq # f
          <6> SUFFICES ASSUME NEW j \in 1 .. (n - 1) PROVE c[j].freq # f
            OBVIOUS
          <6>1. j < i => j # i
            BY <1>1
          <6>2. ~ (j < i) => j + 1 # i
            BY <1>1
          <6> QED BY <1>1, <2>4, <2>5, <3>2, <4>2, <6>1, <6>2
        <5> QED BY <1>3, <2>4, <3>2, <4>2, <5>1 DEF IsAt
      <4> QED BY <4>1, <4>2
    <3>3. ASSUME L[f] = <<>>, \A k \in 1 .. n : bs[k].freq # f PROVE IsAt(L[f], c, f)
      <4>1. \A j \in 1 .. Len(c) : c[j].freq # f
        BY <2>4, <2>5, <3>3
      <4> QED BY <3>3, <4>1 DEF IsAt
    <3> QED BY <3>1, <3>2, <3>3 DEF IsAt
  <2>10. Says(L, c)
    BY <2>9 DEF Says
  <2>11. FullBut(c, 0)
    <3>1. ASSUME NEW j \in 1 .. (n - 1) PROVE c[j].nodes # <<>>
      <4>1. j < i => j # i
        BY <1>1
      <4>2. ~ (j < i) => j + 1 # i
        BY <1>1
      <4> QED BY <2>4, <2>5, <4>1, <4>2 DEF FullBut
    <3> QED BY <2>4, <3>1 DEF FullBut
  <2> QED BY <2>7, <2>10, <2>11 DEF c
<1> QED BY <1>2, <1>3
\* The order of use: k was used after g.
After(r, k, g) == \E i, j \in 1 .. Len(r) : r[i] = k /\ r[j] = g /\ i < j

NoTwice(r) == r \in Seq(CacheKeys) /\ \A i, j \in 1 .. Len(r) : r[i] = r[j] => i = j

In(k, r) == \E i \in 1 .. Len(r) : r[i] = k

\* Where k occurs once, taking it out is dropping that place.
LEMMA WithoutDrops ==
    ASSUME NEW s \in Seq(CacheKeys), NEW k, NEW a \in 1 .. Len(s),
           \A b \in 1 .. Len(s) : s[b] = k <=> b = a
    PROVE  Dropped(LFU!Without(s, k), s, a, CacheKeys)
<1>1. LFU!Contains(s, k)
  BY DEF LFU!Contains
<1>2. LFU!PlaceOf(s, k) = a
  BY DEF LFU!PlaceOf
<1>3. LFU!Without(s, k) = LFU!RemoveAt(s, a)
  BY <1>1, <1>2 DEF LFU!Without
<1>4. LFU!RemoveAt(s, a) = SubSeq(s, 1, a - 1) \o SubSeq(s, a + 1, Len(s))
  BY DEF LFU!RemoveAt
<1> QED BY <1>3, <1>4, DropAt

\* Using k puts it before all others and leaves their order.
UsedOnTop(t, r, k) ==
    /\ NoTwice(t) /\ In(k, t)
    /\ \A g : In(g, r) => In(g, t)
    /\ \A g : In(g, r) /\ g # k => After(t, k, g)
    /\ \A x, y : After(r, x, y) /\ x # k /\ y # k => After(t, x, y)

LEMMA TopOfOthers ==
    ASSUME NEW r, NEW k \in CacheKeys, NEW s, NoTwice(s), ~ In(k, s),
           \A g : In(g, r) /\ g # k => In(g, s),
           \A x, y : After(r, x, y) /\ x # k /\ y # k => After(s, x, y)
    PROVE  UsedOnTop(<<k>> \o s, r, k)
<1> DEFINE t == <<k>> \o s
           n == Len(s)
<1>1. s \in Seq(CacheKeys) /\ n \in Nat /\ (\A i, j \in 1 .. n : s[i] = s[j] => i = j)
      /\ \A i \in 1 .. n : s[i] # k
  BY DEF NoTwice, In
<1>2. Led(t, s, k, CacheKeys)
  BY <1>1, LeadSeq
<1> HIDE DEF t
<1>3. t \in Seq(CacheKeys) /\ Len(t) = n + 1 /\ t[1] = k /\ \A j \in 1 .. n : t[j + 1] = s[j]
  BY <1>2 DEF Led
<1>4. \A j \in 1 .. n : j + 1 \in 1 .. (n + 1) /\ 1 \in 1 .. (n + 1) /\ 1 < j + 1
  BY <1>1
<1>5. NoTwice(t)
  <2>1. ASSUME NEW i \in 1 .. (n + 1), NEW j \in 1 .. (n + 1), t[i] = t[j] PROVE i = j
    <3>1. ASSUME NEW x \in 1 .. (n + 1), x # 1 PROVE x - 1 \in 1 .. n /\ t[x] = s[x - 1] /\ t[x] # k
      <4>1. x - 1 \in 1 .. n /\ x - 1 + 1 = x
        BY <1>1, <3>1
      <4>2. t[x - 1 + 1] = s[x - 1]
        BY <1>3, <4>1
      <4> QED BY <1>1, <4>1, <4>2
    <3>2. CASE i = 1
      BY <1>3, <2>1, <3>1, <3>2
    <3>3. CASE j = 1
      BY <1>3, <2>1, <3>1, <3>3
    <3>4. CASE i # 1 /\ j # 1
      <4>1. i - 1 \in 1 .. n /\ j - 1 \in 1 .. n /\ s[i - 1] = s[j - 1]
        BY <2>1, <3>1, <3>4
      <4>2. i - 1 = j - 1
        BY <1>1, <4>1
      <4> QED BY <4>2
    <3> QED BY <3>2, <3>3, <3>4
  <2> QED BY <1>3, <2>1 DEF NoTwice
<1>6. In(k, t)
  <2>1. 1 \in 1 .. (n + 1)
    BY <1>1
  <2> QED BY <1>3, <2>1 DEF In
<1>7. ASSUME NEW g, In(g, s) PROVE In(g, t) /\ After(t, k, g)
  <2>1. PICK j \in 1 .. n : s[j] = g
    BY <1>7 DEF In
  <2>2. t[j + 1] = g /\ j + 1 \in 1 .. Len(t) /\ 1 \in 1 .. Len(t) /\ 1 < j + 1 /\ t[1] = k
    BY <1>3, <1>4, <2>1
  <2> QED BY <2>2 DEF In, After
<1>8. ASSUME NEW x, NEW y, After(s, x, y) PROVE After(t, x, y)
  <2>1. PICK i, j \in 1 .. n : s[i] = x /\ s[j] = y /\ i < j
    BY <1>8 DEF After
  <2>2. t[i + 1] = x /\ t[j + 1] = y /\ i + 1 \in 1 .. Len(t) /\ j + 1 \in 1 .. Len(t)
    BY <1>3, <1>4, <2>1
  <2>3. i + 1 < j + 1
    BY <1>1, <2>1
  <2> QED BY <2>2, <2>3 DEF After
<1> QED BY <1>5, <1>6, <1>7, <1>8 DEF UsedOnTop, t

LEMMA UseComesOnTop ==
    ASSUME NEW r, NoTwice(r), NEW k \in CacheKeys
    PROVE  UsedOnTop(<<k>> \o LFU!Without(r, k), r, k)
<1>1. r \in Seq(CacheKeys) /\ Len(r) \in Nat /\ \A i, j \in 1 .. Len(r) : r[i] = r[j] => i = j
  BY DEF NoTwice
<1>2. CASE ~ In(k, r)
  <2>1. LFU!Without(r, k) = r
    BY <1>2 DEF LFU!Without, LFU!Contains, In
  <2>2. UsedOnTop(<<k>> \o r, r, k)
    BY <1>2, TopOfOthers
  <2> QED BY <2>1, <2>2
<1>3. CASE In(k, r)
  <2> DEFINE s == LFU!Without(r, k)
             n == Len(r)
  <2>1. PICK a \in 1 .. n : r[a] = k
    BY <1>3 DEF In
  <2>2. \A b \in 1 .. n : r[b] = k <=> b = a
    BY <1>1, <2>1
  <2>3. Dropped(s, r, a, CacheKeys)
    BY <1>1, <2>2, WithoutDrops
  <2> HIDE DEF s
  <2>4. /\ s \in Seq(CacheKeys) /\ Len(s) = n - 1
        /\ \A j \in 1 .. (n - 1) : s[j] = IF j < a THEN r[j] ELSE r[j + 1]
    BY <2>3 DEF Dropped
  <2> DEFINE to(i) == IF i < a THEN i ELSE i - 1
  <2>5. ASSUME NEW i \in 1 .. n, i # a
        PROVE  to(i) \in 1 .. Len(s) /\ s[to(i)] = r[i]
    <3>1. to(i) \in 1 .. (n - 1) /\ (i < a => to(i) < a) /\ (~ (i < a) => ~ (to(i) < a) /\ to(i) + 1 = i)
          /\ (i < a => to(i) = i)
      BY <1>1, <2>5
    <3> HIDE DEF to
    <3> QED BY <2>4, <3>1
  <2>6. \A i, j \in 1 .. n : i # a /\ j # a /\ i < j => to(i) < to(j)
    BY <1>1
  <2> HIDE DEF to
  <2>7. ASSUME NEW g, In(g, r), g # k PROVE In(g, s)
    <3>1. PICK i \in 1 .. n : r[i] = g
      BY <2>7 DEF In
    <3>2. i # a
      BY <2>1, <2>7, <3>1
    <3> QED BY <2>5, <3>1, <3>2 DEF In
  <2>8. ASSUME NEW x, NEW y, After(r, x, y), x # k, y # k PROVE After(s, x, y)
    <3>1. PICK i, j \in 1 .. n : r[i] = x /\ r[j] = y /\ i < j
      BY <2>8 DEF After
    <3>2. i # a /\ j # a
      BY <2>1, <2>8, <3>1
    <3> QED BY <2>5, <2>6, <3>1, <3>2 DEF After
  <2> DEFINE from(i) == IF i < a THEN i ELSE i + 1
  <2>9. ASSUME NEW i \in 1 .. (n - 1) PROVE from(i) \in 1 .. n /\ from(i) # a /\ s[i] = r[from(i)]
    <3>1. from(i) \in 1 .. n /\ from(i) # a
      BY <1>1
    <3> QED BY <2>4, <3>1
  <2>10. \A i, j \in 1 .. (n - 1) : from(i) = from(j) => i = j
    BY <1>1
  <2> HIDE DEF from
  <2>11. NoTwice(s)
    BY <1>1, <2>4, <2>9, <2>10 DEF NoTwice
  <2>12. ~ In(k, s)
    BY <2>2, <2>4, <2>9 DEF In
  <2>13. UsedOnTop(<<k>> \o s, r, k)
    BY <2>7, <2>8, <2>11, <2>12, TopOfOthers
  <2> QED BY <2>13 DEF s
<1> QED BY <1>2, <1>3
\* The lists L hold the keys of H, each in the list of its count, the last used first.
Sorted(L, u, r, H) ==
    /\ L \in [Nat -> Seq(CacheKeys)] /\ u \in [CacheKeys -> Nat] /\ NoTwice(r) /\ H \subseteq CacheKeys
    /\ \A f \in Nat : \A a \in 1 .. Len(L[f]) : L[f][a] \in H /\ u[L[f][a]] = f
    /\ \A f \in Nat : \A a, b \in 1 .. Len(L[f]) : a < b => After(r, L[f][a], L[f][b])
    /\ \A k \in H : In(k, L[u[k]]) /\ In(k, r)

LEMMA ListedOnce ==
    ASSUME NEW L, NEW u, NEW r, NEW H, Sorted(L, u, r, H), NEW f \in Nat,
           NEW a \in 1 .. Len(L[f]), NEW b \in 1 .. Len(L[f]), L[f][a] = L[f][b]
    PROVE  a = b
<1>1. Len(L[f]) \in Nat
  BY DEF Sorted
<1>2. \A x : ~ After(r, x, x)
  <2> SUFFICES ASSUME NEW x, After(r, x, x) PROVE FALSE
    OBVIOUS
  <2>1. PICK i, j \in 1 .. Len(r) : r[i] = x /\ r[j] = x /\ i < j
    BY DEF After
  <2>2. NoTwice(r)
    BY DEF Sorted
  <2>3. i = j
    BY <2>1, <2>2 DEF NoTwice
  <2> QED BY <2>1, <2>3
<1>3. ~ (a < b)
  BY <1>2 DEF Sorted
<1>4. ~ (b < a)
  BY <1>2 DEF Sorted
<1> QED BY <1>1, <1>3, <1>4

\* A key goes from its list.
LEMMA GoesFromList ==
    ASSUME NEW L, NEW u, NEW r, NEW H, Sorted(L, u, r, H), NEW k \in H,
           NEW a \in 1 .. Len(L[u[k]]), L[u[k]][a] = k,
           NEW s, Dropped(s, L[u[k]], a, CacheKeys),
           NEW v \in [CacheKeys -> Nat], \A x \in H \ {k} : v[x] = u[x]
    PROVE  Sorted([L EXCEPT ![u[k]] = s], v, r, H \ {k})
<1> DEFINE M == [L EXCEPT ![u[k]] = s]
           f == u[k]
           n == Len(L[f])
<1>1. /\ L \in [Nat -> Seq(CacheKeys)] /\ u \in [CacheKeys -> Nat] /\ NoTwice(r) /\ H \subseteq CacheKeys
      /\ \A g \in Nat : \A b \in 1 .. Len(L[g]) : L[g][b] \in H /\ u[L[g][b]] = g
      /\ \A g \in Nat : \A b, c \in 1 .. Len(L[g]) : b < c => After(r, L[g][b], L[g][c])
      /\ \A x \in H : In(x, L[u[x]]) /\ In(x, r)
  BY DEF Sorted
<1>13. ASSUME NEW g \in Nat, NEW b \in 1 .. Len(L[g]) PROVE L[g][b] \in H /\ u[L[g][b]] = g
  BY <1>1
<1>2. f \in Nat /\ n \in Nat /\ L[f] \in Seq(CacheKeys)
  BY <1>1
<1>3. /\ s \in Seq(CacheKeys) /\ Len(s) = n - 1
      /\ \A j \in 1 .. (n - 1) : s[j] = IF j < a THEN L[f][j] ELSE L[f][j + 1]
  BY DEF Dropped
<1>4. M \in [Nat -> Seq(CacheKeys)] /\ \A g \in Nat : M[g] = IF g = f THEN s ELSE L[g]
  BY <1>1, <1>2, <1>3
<1> HIDE DEF M
<1> DEFINE from(j) == IF j < a THEN j ELSE j + 1
<1>5. ASSUME NEW j \in 1 .. (n - 1) PROVE from(j) \in 1 .. n /\ from(j) # a /\ s[j] = L[f][from(j)]
  <2>1. from(j) \in 1 .. n /\ from(j) # a
    BY <1>2
  <2> QED BY <1>3, <2>1
<1>6. \A i, j \in 1 .. (n - 1) : i < j => from(i) < from(j)
  BY <1>2
<1>7. ASSUME NEW i \in 1 .. n, i # a PROVE \E j \in 1 .. (n - 1) : from(j) = i
  <2>1. CASE i < a
    BY <1>2, <2>1
  <2>2. CASE ~ (i < a)
    <3>1. i - 1 \in 1 .. (n - 1) /\ ~ (i - 1 < a) /\ i - 1 + 1 = i
      BY <1>2, <1>7, <2>2
    <3> QED BY <3>1
  <2> QED BY <2>1, <2>2
<1> HIDE DEF from
<1>8. \A b \in 1 .. n : b # a => L[f][b] # k
  BY <1>2, ListedOnce
<1>9. ASSUME NEW g \in Nat, NEW b \in 1 .. Len(M[g]) PROVE M[g][b] \in H \ {k} /\ v[M[g][b]] = g
  <2>1. M[g][b] \in H \ {k} /\ u[M[g][b]] = g
    <3>1. CASE g = f
      <4>1. M[g] = s /\ b \in 1 .. (n - 1)
        BY <1>3, <1>4, <3>1
      <4>2. M[g][b] = L[f][from(b)] /\ from(b) \in 1 .. n /\ from(b) # a
        BY <1>5, <4>1
      <4>3. L[f][from(b)] \in H /\ u[L[f][from(b)]] = f /\ L[f][from(b)] # k
        BY <1>2, <1>8, <1>13, <4>2
      <4> QED BY <3>1, <4>2, <4>3
    <3>2. CASE g # f
      <4>1. M[g] = L[g] /\ b \in 1 .. Len(L[g])
        BY <1>4, <3>2
      <4>2. L[g][b] \in H /\ u[L[g][b]] = g
        BY <1>13, <4>1
      <4> QED BY <3>2, <4>1, <4>2
    <3> QED BY <3>1, <3>2
  <2> QED BY <2>1
<1>10. ASSUME NEW g \in Nat, NEW b \in 1 .. Len(M[g]), NEW c \in 1 .. Len(M[g]), b < c
       PROVE  After(r, M[g][b], M[g][c])
  <2>1. CASE g = f
    <3>1. M[g] = s /\ b \in 1 .. (n - 1) /\ c \in 1 .. (n - 1)
      BY <1>3, <1>4, <2>1
    <3>2. from(b) < from(c)
      BY <1>6, <1>10, <3>1
    <3> QED BY <1>1, <1>2, <1>5, <3>1, <3>2
  <2>2. CASE g # f
    <3>1. M[g] = L[g]
      BY <1>4, <2>2
    <3> QED BY <1>1, <1>10, <3>1
  <2> QED BY <2>1, <2>2
<1>11. ASSUME NEW x \in H \ {k} PROVE In(x, M[v[x]]) /\ In(x, r)
  <2>1. v[x] = u[x] /\ u[x] \in Nat
    BY <1>1
  <2>2. PICK b \in 1 .. Len(L[u[x]]) : L[u[x]][b] = x
    BY <1>1 DEF In
  <2>3. CASE u[x] = f
    <3>1. b \in 1 .. n /\ b # a /\ M[v[x]] = s
      BY <1>4, <2>1, <2>2, <2>3
    <3>2. PICK j \in 1 .. (n - 1) : from(j) = b
      BY <1>7, <3>1
    <3>3. s[j] = x
      BY <1>5, <2>2, <2>3, <3>2
    <3> QED BY <1>1, <1>3, <3>1, <3>3 DEF In
  <2>4. CASE u[x] # f
    <3>1. M[v[x]] = L[u[x]]
      BY <1>4, <2>1, <2>4
    <3> QED BY <1>1, <3>1
  <2> QED BY <2>3, <2>4
<1>12. Sorted(M, v, r, H \ {k})
  BY <1>1, <1>4, <1>9, <1>10, <1>11 DEF Sorted
<1> QED BY <1>12 DEF M

\* A key that was just used comes in front of the list of its count.
LEMMA ComesToList ==
    ASSUME NEW L, NEW u, NEW r, NEW H, Sorted(L, u, r, H), NEW k \in CacheKeys, k \notin H,
           NEW f \in Nat, NEW s, Led(s, L[f], k, CacheKeys),
           NEW v \in [CacheKeys -> Nat], v[k] = f, \A x \in H : v[x] = u[x],
           NEW t, UsedOnTop(t, r, k)
    PROVE  Sorted([L EXCEPT ![f] = s], v, t, H \cup {k})
<1> DEFINE M == [L EXCEPT ![f] = s]
           n == Len(L[f])
<1>1. /\ L \in [Nat -> Seq(CacheKeys)] /\ u \in [CacheKeys -> Nat] /\ NoTwice(r) /\ H \subseteq CacheKeys
      /\ \A g \in Nat : \A b \in 1 .. Len(L[g]) : L[g][b] \in H /\ u[L[g][b]] = g
      /\ \A g \in Nat : \A b, c \in 1 .. Len(L[g]) : b < c => After(r, L[g][b], L[g][c])
      /\ \A x \in H : In(x, L[u[x]]) /\ In(x, r)
  BY DEF Sorted
<1>14. ASSUME NEW g \in Nat, NEW b \in 1 .. Len(L[g]) PROVE L[g][b] \in H /\ u[L[g][b]] = g
  BY <1>1
<1>2. n \in Nat /\ L[f] \in Seq(CacheKeys)
  BY <1>1
<1>3. s \in Seq(CacheKeys) /\ Len(s) = n + 1 /\ s[1] = k /\ \A j \in 1 .. n : s[j + 1] = L[f][j]
  BY DEF Led
<1>4. M \in [Nat -> Seq(CacheKeys)] /\ \A g \in Nat : M[g] = IF g = f THEN s ELSE L[g]
  BY <1>1, <1>3
<1> HIDE DEF M
<1>5. /\ NoTwice(t) /\ In(k, t) /\ (\A g : In(g, r) => In(g, t))
      /\ (\A g : In(g, r) /\ g # k => After(t, k, g))
      /\ \A x, y : After(r, x, y) /\ x # k /\ y # k => After(t, x, y)
  BY DEF UsedOnTop
<1>6. ASSUME NEW b \in 1 .. (n + 1), b # 1
      PROVE  b - 1 \in 1 .. n /\ s[b] = L[f][b - 1]
  <2>1. b - 1 \in 1 .. n /\ b - 1 + 1 = b
    BY <1>2, <1>6
  <2>2. s[b - 1 + 1] = L[f][b - 1]
    BY <1>3, <2>1
  <2> QED BY <2>1, <2>2
<1>7. ASSUME NEW g \in Nat, NEW b \in 1 .. Len(M[g]) PROVE M[g][b] \in H \cup {k} /\ v[M[g][b]] = g
  <2>1. CASE g = f
    <3>1. M[g] = s /\ b \in 1 .. (n + 1)
      BY <1>3, <1>4, <2>1
    <3>2. CASE b = 1
      BY <1>3, <2>1, <3>1, <3>2
    <3>3. CASE b # 1
      <4>1. b - 1 \in 1 .. n /\ M[g][b] = L[f][b - 1]
        BY <1>6, <3>1, <3>3
      <4>2. L[f][b - 1] \in H /\ u[L[f][b - 1]] = f
        BY <1>14, <4>1
      <4> QED BY <2>1, <4>1, <4>2
    <3> QED BY <3>2, <3>3
  <2>2. CASE g # f
    <3>1. M[g] = L[g] /\ b \in 1 .. Len(L[g])
      BY <1>4, <2>2
    <3>2. L[g][b] \in H /\ u[L[g][b]] = g
      BY <1>14, <3>1
    <3> QED BY <3>1, <3>2
  <2> QED BY <2>1, <2>2
<1>8. ASSUME NEW g \in Nat, NEW b \in 1 .. Len(L[g]) PROVE L[g][b] # k /\ In(L[g][b], r)
  <2>1. L[g][b] \in H
    BY <1>14
  <2> QED BY <1>1, <2>1
<1>9. ASSUME NEW g \in Nat, NEW b \in 1 .. Len(M[g]), NEW c \in 1 .. Len(M[g]), b < c
      PROVE  After(t, M[g][b], M[g][c])
  <2>1. CASE g = f
    <3>5. M[g] = s /\ Len(s) = n + 1
      BY <1>3, <1>4, <2>1
    <3>6. b \in 1 .. (n + 1) /\ c \in 1 .. (n + 1)
      BY <3>5
    <3>7. c # 1
      BY <1>2, <1>9, <3>6
    <3>1. M[g] = s /\ b \in 1 .. (n + 1) /\ c \in 1 .. (n + 1) /\ c # 1
      BY <3>5, <3>6, <3>7
    <3>2. c - 1 \in 1 .. n /\ s[c] = L[f][c - 1]
      BY <1>6, <3>1
    <3>3. CASE b = 1
      <4>1. M[g][b] = k /\ M[g][c] = L[f][c - 1]
        BY <1>3, <3>1, <3>2, <3>3
      <4>2. In(L[f][c - 1], r) /\ L[f][c - 1] # k
        BY <1>8, <3>2
      <4>3. After(t, k, L[f][c - 1])
        BY <1>5, <4>2
      <4> QED BY <4>1, <4>3
    <3>4. CASE b # 1
      <4>4. b - 1 \in 1 .. n /\ s[b] = L[f][b - 1]
        BY <1>6, <3>1, <3>4
      <4>5. b - 1 < c - 1
        BY <1>2, <1>9, <3>1
      <4>1. b - 1 \in 1 .. n /\ s[b] = L[f][b - 1] /\ b - 1 < c - 1
        BY <4>4, <4>5
      <4>2. After(r, L[f][b - 1], L[f][c - 1])
        BY <1>1, <3>2, <4>1
      <4>3. L[f][b - 1] # k /\ L[f][c - 1] # k
        BY <1>8, <3>2, <4>1
      <4> QED BY <1>5, <3>1, <3>2, <4>1, <4>2, <4>3
    <3> QED BY <3>3, <3>4
  <2>2. CASE g # f
    <3>1. M[g] = L[g]
      BY <1>4, <2>2
    <3>2. After(r, L[g][b], L[g][c]) /\ L[g][b] # k /\ L[g][c] # k
      BY <1>1, <1>8, <1>9, <3>1
    <3> QED BY <1>5, <3>1, <3>2
  <2> QED BY <2>1, <2>2
<1>10. In(k, s)
  <2>1. 1 \in 1 .. Len(s)
    BY <1>2, <1>3
  <2> QED BY <1>3, <2>1 DEF In
<1>11. ASSUME NEW x \in H PROVE In(x, M[v[x]]) /\ In(x, t)
  <2>1. v[x] = u[x] /\ u[x] \in Nat /\ In(x, t)
    BY <1>1, <1>5
  <2>2. PICK b \in 1 .. Len(L[u[x]]) : L[u[x]][b] = x
    BY <1>1 DEF In
  <2>3. CASE u[x] = f
    <3>3. b \in 1 .. n /\ M[v[x]] = s
      BY <1>4, <2>1, <2>2, <2>3
    <3>1. b \in 1 .. n /\ b + 1 \in 1 .. Len(s) /\ M[v[x]] = s
      BY <1>2, <1>3, <3>3
    <3>2. s[b + 1] = x
      BY <1>3, <2>2, <2>3, <3>1
    <3> QED BY <2>1, <3>1, <3>2 DEF In
  <2>4. CASE u[x] # f
    <3>1. M[v[x]] = L[u[x]]
      BY <1>4, <2>1, <2>4
    <3> QED BY <1>1, <2>1, <3>1
  <2> QED BY <2>3, <2>4
<1>12. In(k, M[v[k]])
  BY <1>4, <1>10
<1>13. Sorted(M, v, t, H \cup {k})
  <2>1. \A x \in H \cup {k} : In(x, M[v[x]]) /\ In(x, t)
    BY <1>5, <1>11, <1>12
  <2>2. NoTwice(t) /\ H \cup {k} \subseteq CacheKeys /\ M \in [Nat -> Seq(CacheKeys)]
    BY <1>1, <1>4, <1>5
  <2> QED BY <1>7, <1>9, <2>1, <2>2, Zenon DEF Sorted
<1> QED BY <1>13 DEF M
LEMMA PushKey ==
    ASSUME NEW bs, Rising(bs), NEW L, Says(L, bs), NEW i \in 1 .. Len(bs), NEW k \in CacheKeys,
           NEW f, f = bs[i].freq
    PROVE  LET c == LFU!pushFront(bs, i, k)
               s == <<k>> \o L[f] IN
           /\ s \in Seq(CacheKeys) /\ s # <<>> /\ Led(s, L[f], k, CacheKeys)
           /\ Holds(c, bs, i, s) /\ Says([L EXCEPT ![f] = s], c)
<1> DEFINE c == LFU!pushFront(bs, i, k)
           old == L[f]
           s == <<k>> \o old
<1>1. old = bs[i].nodes /\ old \in Seq(CacheKeys)
  BY SaysNodes, BucketFacts
<1>2. c = [bs EXCEPT ![i].nodes = <<k>> \o bs[i].nodes]
  BY DEF LFU!pushFront
<1> HIDE DEF c, old
<1>3. c = [bs EXCEPT ![i].nodes = s]
  BY <1>1, <1>2
<1>4. Led(s, old, k, CacheKeys)
  BY <1>1, LeadSeq
<1> HIDE DEF s
<1>5. s \in Seq(CacheKeys) /\ s # <<>>
  <2>1. s \in Seq(CacheKeys) /\ Len(s) = Len(old) + 1 /\ Len(old) \in Nat
    BY <1>1, <1>4 DEF Led
  <2> QED BY <2>1
<1>6. Holds(c, bs, i, s) /\ Says([L EXCEPT ![f] = s], c)
  BY <1>3, <1>5, SetNodes
<1> QED BY <1>4, <1>5, <1>6 DEF c, s, old

LEMMA TakeKey ==
    ASSUME NEW bs, Rising(bs), NEW L, Says(L, bs), NEW i \in 1 .. Len(bs), NEW k,
           NEW u, NEW r, NEW H, Sorted(L, u, r, H),
           NEW a \in 1 .. Len(L[bs[i].freq]), L[bs[i].freq][a] = k
    PROVE  LET c == LFU!remove(bs, i, k)
               s == LFU!Without(L[bs[i].freq], k) IN
           /\ s \in Seq(CacheKeys) /\ Dropped(s, L[bs[i].freq], a, CacheKeys)
           /\ Holds(c, bs, i, s) /\ Says([L EXCEPT ![bs[i].freq] = s], c)
<1> DEFINE c == LFU!remove(bs, i, k)
           old == L[bs[i].freq]
           s == LFU!Without(old, k)
<1>1. old = bs[i].nodes /\ old \in Seq(CacheKeys) /\ bs[i].freq \in Nat
  BY SaysNodes, BucketFacts
<1>2. c = [bs EXCEPT ![i].nodes = LFU!Without(bs[i].nodes, k)]
  BY DEF LFU!remove
<1>3. \A b \in 1 .. Len(old) : old[b] = k <=> b = a
  BY <1>1, ListedOnce
<1> HIDE DEF c
<1>4. c = [bs EXCEPT ![i].nodes = s]
  BY <1>1, <1>2
<1>5. a \in 1 .. Len(old)
  OBVIOUS
<1> HIDE DEF old
<1>6. Dropped(s, old, a, CacheKeys)
  BY <1>1, <1>3, <1>5, WithoutDrops
<1> HIDE DEF s
<1>7. s \in Seq(CacheKeys)
  BY <1>6 DEF Dropped
<1>8. Holds(c, bs, i, s) /\ Says([L EXCEPT ![bs[i].freq] = s], c)
  BY <1>4, <1>7, SetNodes
<1> QED BY <1>6, <1>7, <1>8 DEF c, s, old

\* What the buckets are for: they hold the keys held, sorted by count and by time of use.
Kept(bs, u, r, H) ==
    /\ Rising(bs) /\ FullBut(bs, 0)
    /\ \E L : Says(L, bs) /\ Sorted(L, u, r, H)

\* The end of Put.
LEMMA AddKeeps ==
    ASSUME NEW bs, NEW u, NEW r, NEW H, Kept(bs, u, r, H), NEW k \in CacheKeys, k \notin H,
           NEW v \in [CacheKeys -> Nat], v[k] = 1, \A x \in H : v[x] = u[x],
           NEW t, UsedOnTop(t, r, k)
    PROVE  Kept(LFU!add(bs, k), v, t, H \cup {k})
<1>1. PICK L : Says(L, bs) /\ Sorted(L, u, r, H)
  BY DEF Kept
<1>2. Rising(bs) /\ FullBut(bs, 0)
  BY DEF Kept
<1> DEFINE c == LFU!withBucketAfter(bs, 0, 1)
           d == LFU!pushFront(c, 1, k)
<1>3. LFU!add(bs, k) = d
  BY DEF LFU!add
<1>4. Rising(c) /\ Says(L, c) /\ FullBut(c, 1) /\ 1 \in 1 .. Len(c) /\ c[1].freq = 1
  <2>1. /\ 0 \in 0 .. Len(bs) /\ 1 \in Nat \ {0} /\ ~ (0 > 0) /\ 0 + 1 = 1
        /\ (0 < Len(bs) => 1 <= bs[0 + 1].freq)
    <3>1. Len(bs) \in Nat /\ \A i \in 1 .. Len(bs) : bs[i].freq \in Nat /\ bs[i].freq >= 1
      BY <1>2, BucketFacts
    <3>2. 0 < Len(bs) => 1 \in 1 .. Len(bs)
      BY <3>1
    <3> QED BY <3>1, <3>2
  <2>2. LET e == LFU!withBucketAfter(bs, 0, 1) IN
        Rising(e) /\ Says(L, e) /\ FullBut(e, 0 + 1) /\ 0 + 1 \in 1 .. Len(e) /\ e[0 + 1].freq = 1
    BY <1>1, <1>2, <2>1, FindOrAdd
  <2> HIDE DEF c
  <2> QED BY <2>2 DEF c
<1> HIDE DEF c
<1> DEFINE s == <<k>> \o L[1]
<1>5. s # <<>> /\ Led(s, L[1], k, CacheKeys) /\ Holds(d, c, 1, s) /\ Says([L EXCEPT ![1] = s], d)
  BY <1>4, PushKey
<1> HIDE DEF s, d
<1>6. Sorted([L EXCEPT ![1] = s], v, t, H \cup {k})
  BY <1>1, <1>5, ComesToList
<1>7. Rising(d) /\ FullBut(d, 0)
  BY <1>4, <1>5 DEF Holds, FullBut
<1>8. Kept(d, v, t, H \cup {k})
  BY <1>5, <1>6, <1>7 DEF Kept
<1> QED BY <1>3, <1>8

\* promote: the key moves to the bucket of the next frequency.
LEMMA PromoteKeeps ==
    ASSUME NEW u, NEW r, NEW H, Kept(buckets, u, r, H), NEW k \in H,
           NEW v \in [CacheKeys -> Nat], v[k] = u[k] + 1, \A x \in H \ {k} : v[x] = u[x],
           NEW t, UsedOnTop(t, r, k)
    PROVE  Kept(LFU!promote(k), v, t, H)
<1>1. PICK L : Says(L, buckets) /\ Sorted(L, u, r, H)
  BY DEF Kept
<1>2. Rising(buckets) /\ FullBut(buckets, 0)
  BY DEF Kept
<1>3. /\ u \in [CacheKeys -> Nat] /\ H \subseteq CacheKeys /\ L \in [Nat -> Seq(CacheKeys)]
      /\ \A g \in Nat : \A b \in 1 .. Len(L[g]) : L[g][b] \in H /\ u[L[g][b]] = g
      /\ In(k, L[u[k]])
  BY <1>1 DEF Sorted
<1> DEFINE i == LFU!bucketOf(k)
           f == u[k]
<1>4. k \in CacheKeys /\ f \in Nat
  BY <1>3
<1>5. PICK a \in 1 .. Len(L[f]) : L[f][a] = k
  BY <1>3 DEF In
<1>6. \A j \in 1 .. Len(buckets) : LFU!Contains(buckets[j].nodes, k) <=> buckets[j].freq = f
  <2> SUFFICES ASSUME NEW j \in 1 .. Len(buckets)
               PROVE  LFU!Contains(buckets[j].nodes, k) <=> buckets[j].freq = f
    OBVIOUS
  <2>1. L[buckets[j].freq] = buckets[j].nodes /\ buckets[j].freq \in Nat
    BY <1>1, <1>2, SaysNodes, BucketFacts
  <2>2. ASSUME LFU!Contains(buckets[j].nodes, k) PROVE buckets[j].freq = f
    <3>1. PICK b \in 1 .. Len(L[buckets[j].freq]) : L[buckets[j].freq][b] = k
      BY <2>1, <2>2 DEF LFU!Contains
    <3> QED BY <1>3, <2>1, <3>1
  <2>3. ASSUME buckets[j].freq = f PROVE LFU!Contains(buckets[j].nodes, k)
    BY <1>5, <2>1, <2>3 DEF LFU!Contains
  <2> QED BY <2>2, <2>3
<1>7. \E j \in 1 .. Len(buckets) : buckets[j].freq = f
  <2>1. IsAt(L[f], buckets, f)
    BY <1>1, <1>4 DEF Says
  <2>2. L[f] # <<>>
    BY <1>5
  <2> QED BY <2>1, <2>2 DEF IsAt
<1>8. i \in 1 .. Len(buckets) /\ buckets[i].freq = f
  BY <1>6, <1>7 DEF LFU!bucketOf
<1> DEFINE c == LFU!withBucketAfter(buckets, i, f + 1)
           d == LFU!remove(c, i, k)
           e == LFU!pushFront(d, i + 1, k)
<1>9. LFU!promote(k) = LFU!removeIfEmpty(e, i)
  BY <1>8 DEF LFU!promote
<1> HIDE DEF i, f
<1>10. /\ Rising(c) /\ Says(L, c) /\ FullBut(c, i + 1)
       /\ i + 1 \in 1 .. Len(c) /\ c[i + 1].freq = f + 1
       /\ i \in 1 .. Len(c) /\ c[i].freq = f
  <2>1. /\ Len(buckets) \in Nat
        /\ \A j \in 1 .. Len(buckets) : buckets[j].freq \in Nat
        /\ \A j, m \in 1 .. Len(buckets) : j < m => buckets[j].freq < buckets[m].freq
    BY <1>2, BucketFacts
  <2>2. /\ i \in 0 .. Len(buckets) /\ f + 1 \in Nat \ {0} /\ (i > 0 => buckets[i].freq < f + 1)
        /\ i \in 1 .. i
    BY <1>4, <1>8, <2>1
  <2>3. i < Len(buckets) => f + 1 <= buckets[i + 1].freq
    <3> SUFFICES ASSUME i < Len(buckets) PROVE f + 1 <= buckets[i + 1].freq
      OBVIOUS
    <3>1. i + 1 \in 1 .. Len(buckets) /\ i < i + 1
      BY <1>8, <2>1
    <3>2. f < buckets[i + 1].freq /\ buckets[i + 1].freq \in Nat
      BY <1>8, <2>1, <3>1
    <3> QED BY <1>4, <3>2
  <2>4. /\ Rising(c) /\ Says(L, c) /\ FullBut(c, i + 1)
        /\ i + 1 \in 1 .. Len(c) /\ c[i + 1].freq = f + 1
        /\ \A j \in 1 .. i : j \in 1 .. Len(c) /\ c[j] = buckets[j]
    BY <1>1, <1>2, <2>2, <2>3, FindOrAdd
  <2> HIDE DEF c
  <2> QED BY <1>8, <2>2, <2>4
<1> HIDE DEF c
<1> DEFINE s == LFU!Without(L[f], k)
           M == [L EXCEPT ![f] = s]
<1>11. /\ s \in Seq(CacheKeys) /\ Dropped(s, L[f], a, CacheKeys)
       /\ Holds(d, c, i, s) /\ Says(M, d)
  BY <1>1, <1>5, <1>10, TakeKey
<1> HIDE DEF d, s
<1>12. Sorted(M, [v EXCEPT ![k] = 0], r, H \ {k})
  <2>1. [v EXCEPT ![k] = 0] \in [CacheKeys -> Nat]
    OBVIOUS
  <2>2. \A x \in H \ {k} : [v EXCEPT ![k] = 0][x] = u[x]
    BY <1>3
  <2> QED BY <1>1, <1>5, <1>11, <2>1, <2>2, GoesFromList DEF f
<1> HIDE DEF M
<1>13. Rising(d) /\ i + 1 \in 1 .. Len(d) /\ i \in 1 .. Len(d) /\ d[i + 1].freq = f + 1
  BY <1>10, <1>11 DEF Holds
<1> DEFINE w == <<k>> \o M[f + 1]
           N == [M EXCEPT ![f + 1] = w]
<1>14. w # <<>> /\ Led(w, M[f + 1], k, CacheKeys) /\ Holds(e, d, i + 1, w) /\ Says(N, e)
  <2> DEFINE g == f + 1
             m == i + 1
             y == <<k>> \o M[g]
             x == LFU!pushFront(d, m, k)
  <2>1. m \in 1 .. Len(d) /\ g = d[m].freq
    BY <1>13
  <2> HIDE DEF g, m
  <2>2. y # <<>> /\ Led(y, M[g], k, CacheKeys) /\ Holds(x, d, m, y) /\ Says([M EXCEPT ![g] = y], x)
    <3>1. Rising(d) /\ Says(M, d) /\ k \in CacheKeys
      BY <1>4, <1>11, <1>13
    <3>2. /\ y \in Seq(CacheKeys) /\ y # <<>> /\ Led(y, M[g], k, CacheKeys)
          /\ Holds(x, d, m, y) /\ Says([M EXCEPT ![g] = y], x)
      BY ONLY <2>1, <3>1, PushKey
    <3> QED BY <3>2
  <2> QED BY <2>2 DEF g, m
<1> HIDE DEF w, e
<1>15. Sorted(N, v, t, (H \ {k}) \cup {k})
  <2>1. \A x \in H \ {k} : v[x] = [v EXCEPT ![k] = 0][x]
    BY <1>3
  <2>2. f + 1 \in Nat /\ v[k] = f + 1 /\ k \notin H \ {k}
    BY <1>4 DEF f
  <2> QED BY <1>4, <1>12, <1>14, <2>1, <2>2, ComesToList
<1> HIDE DEF N
<1>16. (H \ {k}) \cup {k} = H
  OBVIOUS
<1>17. Rising(e) /\ i \in 1 .. Len(e) /\ FullBut(e, i)
  <2>1. Rising(e) /\ i \in 1 .. Len(e)
    BY <1>13, <1>14 DEF Holds
  <2>2. ASSUME NEW j \in 1 .. Len(e), j # i PROVE e[j].nodes # <<>>
    <3>1. CASE j = i + 1
      BY <1>14, <3>1 DEF Holds
    <3>2. CASE j # i + 1
      <4>1. j \in 1 .. Len(d) /\ e[j].nodes = d[j].nodes
        BY <1>14, <3>2 DEF Holds
      <4>2. j \in 1 .. Len(c) /\ d[j].nodes = c[j].nodes
        BY <1>11, <2>2, <4>1 DEF Holds
      <4> QED BY <1>10, <3>2, <4>1, <4>2 DEF FullBut
    <3> QED BY <3>1, <3>2
  <2> QED BY <2>1, <2>2 DEF FullBut
<1> DEFINE z == LFU!removeIfEmpty(e, i)
<1>18. Rising(z) /\ Says(N, z) /\ FullBut(z, 0)
  BY <1>14, <1>17, TakeOut
<1> HIDE DEF z
<1>19. Kept(z, v, t, H)
  BY <1>15, <1>16, <1>18 DEF Kept
<1> QED BY <1>9, <1>19 DEF z
\* No key of H was used less than g, nor as often but longer ago.
LeastUsed(g, u, r, H) ==
    \A k \in H \ {g} : u[g] < u[k] \/ (u[g] = u[k] /\ After(r, k, g))

\* The node evict takes, and what stays.
LEMMA EvictKeeps ==
    ASSUME NEW u, NEW r, NEW H, Kept(buckets, u, r, H), H # {},
           NEW v \in [CacheKeys -> Nat], \A x \in H \ {LFU!victim} : v[x] = u[x]
    PROVE  /\ LFU!victim \in H /\ LeastUsed(LFU!victim, u, r, H)
           /\ Kept(LFU!removeIfEmpty(LFU!remove(buckets, 1, LFU!victim), 1), v, r, H \ {LFU!victim})
<1>1. PICK L : Says(L, buckets) /\ Sorted(L, u, r, H)
  BY DEF Kept
<1>2. Rising(buckets) /\ FullBut(buckets, 0)
  BY DEF Kept
<1>3. /\ u \in [CacheKeys -> Nat] /\ H \subseteq CacheKeys /\ L \in [Nat -> Seq(CacheKeys)]
      /\ (\A g \in Nat : \A b \in 1 .. Len(L[g]) : L[g][b] \in H /\ u[L[g][b]] = g)
      /\ (\A g \in Nat : \A a, b \in 1 .. Len(L[g]) : a < b => After(r, L[g][a], L[g][b]))
      /\ \A k \in H : In(k, L[u[k]])
  BY <1>1 DEF Sorted
<1>4. /\ Len(buckets) \in Nat
      /\ \A j \in 1 .. Len(buckets) : buckets[j].freq \in Nat
      /\ \A j, m \in 1 .. Len(buckets) : j < m => buckets[j].freq < buckets[m].freq
  BY <1>2, BucketFacts
<1>5. ASSUME NEW k \in H
      PROVE  \E j \in 1 .. Len(buckets) : buckets[j].freq = u[k]
  <2>1. u[k] \in Nat /\ L[u[k]] # <<>>
    BY <1>3 DEF In
  <2>2. IsAt(L[u[k]], buckets, u[k])
    BY <1>1, <2>1 DEF Says
  <2> QED BY <2>1, <2>2 DEF IsAt
<1>6. 1 \in 1 .. Len(buckets)
  BY <1>4, <1>5
<1> DEFINE f == buckets[1].freq
           n == Len(L[f])
           g == LFU!victim
<1>7. f \in Nat /\ L[f] = buckets[1].nodes /\ L[f] \in Seq(CacheKeys) /\ L[f] # <<>>
  <2>1. L[f] = buckets[1].nodes
    BY <1>1, <1>2, <1>6, SaysNodes
  <2>2. buckets[1].nodes # <<>>
    BY <1>2, <1>6 DEF FullBut
  <2> QED BY <1>3, <1>4, <1>6, <2>1, <2>2
<1>8. n \in 1 .. n /\ L[f][n] = g /\ n \in Nat
  <2>1. n \in Nat /\ n # 0
    BY <1>7
  <2>2. L[f][n] = g
    BY <1>7 DEF LFU!victim, LFU!Last
  <2> QED BY <2>1, <2>2
<1> HIDE DEF g
<1>9. g \in H /\ u[g] = f
  BY <1>3, <1>7, <1>8
<1>10. ASSUME NEW k \in H \ {g} PROVE u[g] < u[k] \/ (u[g] = u[k] /\ After(r, k, g))
  <2>1. PICK j \in 1 .. Len(buckets) : buckets[j].freq = u[k]
    BY <1>5
  <2>2. CASE j = 1
    <3>1. u[k] = f
      BY <2>1, <2>2
    <3>2. In(k, L[f])
      BY <1>3, <3>1
    <3>3. PICK a \in 1 .. n : L[f][a] = k
      BY <3>2 DEF In
    <3>4. a < n
      BY <1>8, <1>10, <3>3
    <3>5. After(r, L[f][a], L[f][n])
      BY <1>3, <1>7, <1>8, <3>4
    <3> QED BY <1>8, <1>9, <3>1, <3>3, <3>5
  <2>3. CASE j # 1
    <3>1. 1 < j
      BY <1>4, <2>3
    <3>2. buckets[1].freq < buckets[j].freq
      BY <1>4, <1>6, <3>1
    <3> QED BY <1>9, <2>1, <3>2
  <2> QED BY <2>2, <2>3
<1>11. LeastUsed(g, u, r, H)
  BY <1>10 DEF LeastUsed
<1> DEFINE d == LFU!remove(buckets, 1, g)
           s == LFU!Without(L[f], g)
           M == [L EXCEPT ![f] = s]
           c == LFU!removeIfEmpty(d, 1)
<1>12. Dropped(s, L[f], n, CacheKeys) /\ Holds(d, buckets, 1, s) /\ Says(M, d)
  BY <1>1, <1>2, <1>6, <1>8, TakeKey
<1> HIDE DEF s, d
<1>13. Sorted(M, v, r, H \ {g})
  <2>1. \A x \in H \ {g} : v[x] = u[x]
    BY DEF g
  <2>2. g \in H /\ n \in 1 .. Len(L[u[g]]) /\ L[u[g]][n] = g /\ Dropped(s, L[u[g]], n, CacheKeys)
    BY <1>8, <1>9, <1>12
  <2>3. Sorted([L EXCEPT ![u[g]] = s], v, r, H \ {g})
    BY <1>1, <2>1, <2>2, GoesFromList
  <2> QED BY <1>9, <2>3
<1> HIDE DEF M
<1>14. Rising(d) /\ 1 \in 1 .. Len(d) /\ FullBut(d, 1)
  <2>1. FullBut(d, 1)
    <3>1. ASSUME NEW j \in 1 .. Len(d), j # 1 PROVE d[j].nodes # <<>>
      <4>1. j \in 1 .. Len(buckets) /\ d[j].nodes = buckets[j].nodes /\ j # 0
        BY <1>4, <1>12, <3>1 DEF Holds
      <4> QED BY <1>2, <4>1 DEF FullBut
    <3> QED BY <3>1 DEF FullBut
  <2> QED BY <1>6, <1>12, <2>1 DEF Holds
<1>15. Rising(c) /\ Says(M, c) /\ FullBut(c, 0)
  BY <1>12, <1>14, TakeOut
<1> HIDE DEF c
<1>16. Kept(c, v, r, H \ {g})
  BY <1>13, <1>15 DEF Kept
<1> QED BY <1>9, <1>11, <1>16 DEF c, d, g

LFUTypes == items \in [CacheKeys -> CacheValues \cup {Missing}]

LFUInv == LFUTypes /\ Kept(buckets, uses, recency, LFU!Held)

LEMMA LFUConstants == Missing \notin CacheValues /\ capacity \in Nat \ {0}
<1>1. LFU!LFUAssumption
  BY Assumptions
<1> QED BY <1>1 DEF LFU!LFUAssumption

LEMMA LFUInit == LFU!Init => LFUInv
<1> SUFFICES ASSUME LFU!Init PROVE LFUInv
  OBVIOUS
<1>1. /\ items = [k \in CacheKeys |-> Missing] /\ buckets = <<>>
      /\ uses = [k \in CacheKeys |-> 0] /\ recency = <<>>
  BY DEF LFU!Init
<1>2. LFU!Held = {}
  BY <1>1 DEF LFU!Held
<1> DEFINE L == [f \in Nat |-> <<>>]
<1>3. Rising(buckets) /\ FullBut(buckets, 0)
  BY <1>1 DEF Rising, FullBut
<1>4. Says(L, buckets)
  BY <1>1 DEF Says, IsAt
<1>5. Sorted(L, uses, recency, {})
  BY <1>1 DEF Sorted, NoTwice
<1> HIDE DEF L
<1> QED BY <1>1, <1>2, <1>3, <1>4, <1>5 DEF LFUInv, LFUTypes, Kept

\* Using a key that is held takes none away.
LEMMA LFUUse ==
    ASSUME LFUInv, LFUTypes', LFU!Held' = LFU!Held, NEW k \in LFU!Held,
           buckets' = LFU!promote(k), uses' = [uses EXCEPT ![k] = @ + 1],
           recency' = <<k>> \o LFU!Without(recency, k)
    PROVE  LFUInv'
<1>1. PICK L : Says(L, buckets) /\ Sorted(L, uses, recency, LFU!Held)
  BY DEF LFUInv, Kept
<1>2. uses \in [CacheKeys -> Nat] /\ NoTwice(recency) /\ LFU!Held \subseteq CacheKeys
  BY <1>1 DEF Sorted
<1>3. /\ uses' \in [CacheKeys -> Nat] /\ uses'[k] = uses[k] + 1
      /\ \A x \in LFU!Held \ {k} : uses'[x] = uses[x]
  BY <1>2
<1>4. UsedOnTop(recency', recency, k)
  BY <1>2, UseComesOnTop
<1>5. Kept(LFU!promote(k), uses', recency', LFU!Held)
  BY <1>3, <1>4, PromoteKeeps DEF LFUInv
<1>6. Kept(buckets, uses, recency, LFU!Held)'
  BY <1>5
<1> QED BY <1>6 DEF LFUInv

OneGoes == \A g \in LFU!Held \ LFU!Held' : LeastUsed(g, uses, recency, LFU!Held)

LEMMA LFUStepKeeps ==
    ASSUME LFUInv, LFU!Next
    PROVE  LFUInv' /\ OneGoes
<1>1. items \in [CacheKeys -> CacheValues \cup {Missing}] /\ Kept(buckets, uses, recency, LFU!Held)
  BY DEF LFUInv, LFUTypes
<1>2. \A k \in CacheKeys : k \in LFU!Held <=> items[k] # Missing
  BY DEF LFU!Held
<1>3. PICK L : Says(L, buckets) /\ Sorted(L, uses, recency, LFU!Held)
  BY <1>1 DEF Kept
<1>4. uses \in [CacheKeys -> Nat] /\ NoTwice(recency)
  BY <1>3 DEF Sorted
<1>5. PICK k \in CacheKeys : LFU!Get(k) \/ \E v \in CacheValues : LFU!Put(k, v)
  BY DEF LFU!Next
<1>6. UsedOnTop(<<k>> \o LFU!Without(recency, k), recency, k)
  BY <1>4, UseComesOnTop
<1>7. CASE LFU!Get(k)
  <2>1. /\ items[k] # Missing /\ items' = items /\ buckets' = LFU!promote(k)
        /\ uses' = [uses EXCEPT ![k] = @ + 1] /\ recency' = <<k>> \o LFU!Without(recency, k)
    BY <1>7 DEF LFU!Get, LFU!Used
  <2>2. LFU!Held' = LFU!Held /\ k \in LFU!Held /\ LFUTypes'
    BY <1>1, <1>2, <2>1 DEF LFU!Held, LFUTypes
  <2> QED BY <2>1, <2>2, LFUUse DEF OneGoes
<1>8. ASSUME NEW x \in CacheValues, LFU!Put(k, x) PROVE LFUInv' /\ OneGoes
  <2>1. x # Missing
    BY LFUConstants
  <2>2. CASE LFU!PutUpdate(k, x)
    <3>1. /\ items[k] # Missing /\ items' = [items EXCEPT ![k] = x] /\ buckets' = LFU!promote(k)
          /\ uses' = [uses EXCEPT ![k] = @ + 1] /\ recency' = <<k>> \o LFU!Without(recency, k)
      BY <2>2 DEF LFU!PutUpdate, LFU!Used
    <3>2. LFU!Held' = LFU!Held /\ k \in LFU!Held /\ LFUTypes'
      BY <1>1, <1>2, <2>1, <3>1 DEF LFU!Held, LFUTypes
    <3> QED BY <3>1, <3>2, LFUUse DEF OneGoes
  <2>3. CASE LFU!PutInsert(k, x)
    <3>1. /\ items[k] = Missing /\ items' = [items EXCEPT ![k] = x] /\ buckets' = LFU!add(buckets, k)
          /\ uses' = [uses EXCEPT ![k] = 1] /\ recency' = <<k>> \o LFU!Without(recency, k)
      BY <2>3 DEF LFU!PutInsert, LFU!Used
    <3>2. LFU!Held' = LFU!Held \cup {k} /\ k \notin LFU!Held /\ LFUTypes'
      BY <1>1, <1>2, <2>1, <3>1 DEF LFU!Held, LFUTypes
    <3>3. /\ uses' \in [CacheKeys -> Nat] /\ uses'[k] = 1
          /\ \A y \in LFU!Held : uses'[y] = uses[y]
      BY <1>2, <1>4, <3>1 DEF LFU!Held
    <3>4. Kept(LFU!add(buckets, k), uses', recency', LFU!Held \cup {k})
      BY <1>1, <1>6, <3>1, <3>2, <3>3, AddKeeps
    <3>5. Kept(buckets, uses, recency, LFU!Held)'
      BY <3>1, <3>2, <3>4
    <3> QED BY <3>2, <3>5 DEF LFUInv, OneGoes
  <2>4. CASE LFU!PutEvict(k, x)
    <3> DEFINE g == LFU!victim
               c == LFU!removeIfEmpty(LFU!remove(buckets, 1, g), 1)
               u == [uses EXCEPT ![g] = 0]
    <3>1. /\ items[k] = Missing /\ Cardinality(LFU!Held) >= capacity
          /\ items' = [items EXCEPT ![g] = Missing, ![k] = x]
          /\ buckets' = LFU!add(c, k)
          /\ uses' = [uses EXCEPT ![g] = 0, ![k] = 1]
          /\ recency' = <<k>> \o LFU!Without(recency, k)
      BY <2>4, CacheCountingIsShared DEF LFU!PutEvict, LFU!Used
    <3>2. LFU!Held # {}
      <4> SUFFICES ASSUME LFU!Held = {} PROVE FALSE
        OBVIOUS
      <4>1. Cardinality(LFU!Held) = 0
        BY FS_EmptySet
      <4> QED BY <3>1, <4>1, LFUConstants
    <3>3. u \in [CacheKeys -> Nat] /\ \A y \in LFU!Held \ {g} : u[y] = uses[y]
      BY <1>2, <1>4 DEF LFU!Held
    <3>4. /\ g \in LFU!Held /\ LeastUsed(g, uses, recency, LFU!Held)
          /\ Kept(c, u, recency, LFU!Held \ {g})
      <4> HIDE DEF u
      <4> QED BY <1>1, <3>2, <3>3, EvictKeeps
    <3> HIDE DEF g, c
    <3>5. g \in CacheKeys /\ g # k /\ k \notin LFU!Held
      BY <1>2, <3>1, <3>4 DEF LFU!Held
    <3>6. LFU!Held' = (LFU!Held \ {g}) \cup {k} /\ LFUTypes'
      BY <1>1, <1>2, <2>1, <3>1, <3>5 DEF LFU!Held, LFUTypes
    <3>7. /\ uses' \in [CacheKeys -> Nat] /\ uses'[k] = 1
          /\ \A y \in LFU!Held \ {g} : uses'[y] = u[y]
      BY <1>2, <1>4, <3>1, <3>5 DEF LFU!Held
    <3> HIDE DEF u
    <3>8. Kept(LFU!add(c, k), uses', recency', (LFU!Held \ {g}) \cup {k})
      BY <1>6, <3>1, <3>4, <3>5, <3>7, AddKeeps
    <3>9. Kept(buckets, uses, recency, LFU!Held)'
      BY <3>1, <3>6, <3>8
    <3>10. LFU!Held \ LFU!Held' \subseteq {g}
      BY <3>6
    <3> QED BY <3>4, <3>6, <3>9, <3>10 DEF LFUInv, OneGoes
  <2> QED BY <1>8, <2>2, <2>3, <2>4 DEF LFU!Put
<1> QED BY <1>5, <1>7, <1>8

\* lfu.go:23-24: the key that leaves the LFU cache was used less than every key that stays,
\* or as often but longer ago; buckets and nodes are always in that order.
THEOREM LFUEvictsLeastUsed == Spec => LFU!LeastUsedGoes
<1>1. Init => LFUInv
  BY LFUInit DEF Init, Start
<1>2. LFUInv /\ [Next]_vars =>
        /\ LFUInv'
        /\ [\A gone \in LFU!Held \ LFU!Held' : \A k \in LFU!Held \cap LFU!Held' :
              \/ uses[gone] < uses[k]
              \/ uses[gone] = uses[k] /\ LFU!UsedAfter(k, gone)]_(LFU!vars)
  <2> SUFFICES ASSUME LFUInv, [Next]_vars
               PROVE  /\ LFUInv'
                      /\ [\A gone \in LFU!Held \ LFU!Held' : \A k \in LFU!Held \cap LFU!Held' :
                            \/ uses[gone] < uses[k]
                            \/ uses[gone] = uses[k] /\ LFU!UsedAfter(k, gone)]_(LFU!vars)
    OBVIOUS
  <2>1. CASE LFUStep
    <3>1. LFUInv' /\ OneGoes
      BY <2>1, LFUStepKeeps DEF LFUStep
    <3>2. ASSUME NEW gone \in LFU!Held \ LFU!Held', NEW k \in LFU!Held \cap LFU!Held'
          PROVE  uses[gone] < uses[k] \/ (uses[gone] = uses[k] /\ LFU!UsedAfter(k, gone))
      <4>1. LeastUsed(gone, uses, recency, LFU!Held) /\ k \in LFU!Held \ {gone}
        BY <3>1 DEF OneGoes
      <4>2. LFU!UsedAfter(k, gone) <=> After(recency, k, gone)
        BY DEF LFU!UsedAfter, After
      <4> QED BY <4>1, <4>2 DEF LeastUsed
    <3> QED BY <3>1, <3>2
  <2>2. CASE UNCHANGED lfuVars
    <3>1. items' = items /\ buckets' = buckets /\ uses' = uses /\ recency' = recency
      BY <2>2 DEF lfuVars
    <3>2. LFU!Held' = LFU!Held
      BY <3>1 DEF LFU!Held
    <3>3. LFUInv'
      BY <3>1, <3>2 DEF LFUInv, LFUTypes
    <3> QED BY <3>1, <3>3 DEF LFU!vars
  <2>3. LFUStep \/ UNCHANGED lfuVars
    BY DEF Next, LogStep, LSMStep, LRUStep, SketchStep, vars
  <2> QED BY <2>1, <2>2, <2>3
<1> QED BY <1>1, <1>2, PTL DEF Spec, LFU!LeastUsedGoes

\* lru.go:12, lfu.go:23-24: what each of the two caches promises about the key it gives up.
THEOREM CachesEvictTheRightKey == Spec => EvictsTheRightKey
BY LRUImplementsRecency, LFUEvictsLeastUsed DEF EvictsTheRightKey

-----------------------------------------------------------------------------
(* The skip list of the LSM tree. A level is a set of keys; its pointers   *)
(* lead from each to the next greater one.                                 *)

LEMMA LSMConstants ==
    /\ LSMKeys \subseteq Nat \ {0} /\ IsFiniteSet(LSMKeys)
    /\ LSMValues \subseteq Nat /\ KeyLen \in Nat /\ maxLevel \in Nat \ {0}
    /\ indexInterval \in Nat \ {0}
    /\ LSM!Mem!Nodes = LSMKeys \cup {0} /\ LSM!Mem!head = 0 /\ LSM!Mem!Nil = -1
    /\ \A S : LSM!Mem!Cardinality(S) = Cardinality(S)
<1>1. LSM!LSMAssumption
  BY Assumptions
<1>2. \A S : LSM!Mem!Cardinality(S) = Cardinality(S)
  BY DEF LSM!Mem!Cardinality, Cardinality
<1>3. \A S : LSM!Mem!IsFiniteSet(S) <=> IsFiniteSet(S)
  BY DEF LSM!Mem!IsFiniteSet, IsFiniteSet
<1> QED BY <1>1, <1>2, <1>3 DEF LSM!LSMAssumption, LSM!Mem!MemtableAssumption, LSM!Mem!Nodes, LSM!Mem!head, LSM!Mem!Nil

\* y is the element of S after x.
FirstAbove(S, x, y) ==
    \/ y \in S /\ x < y /\ \A z \in S : x < z => y <= z
    \/ y = -1 /\ \A z \in S : z <= x

\* b is the last element of S before key, or the head.
Before(S, key, b) == b \in S \cup {0} /\ b < key /\ \A z \in S : z < key => z <= b

Level(nx, S) ==
    /\ S \subseteq LSMKeys
    /\ nx \in [LSM!Mem!Nodes -> LSM!Mem!Nodes \cup {-1}]
    /\ \A x \in S \cup {0} : FirstAbove(S, x, nx[x])
    /\ \A x \in LSMKeys \ S : nx[x] = -1

LEMMA GreatestOf ==
    ASSUME NEW S, S \subseteq Nat, S # {}, NEW top \in Nat, \A x \in S : x <= top
    PROVE  \E n \in S : \A k \in S : k <= n
<1> DEFINE T == {top - x : x \in S}
<1>1. T \subseteq Nat /\ T # {}
  <2>1. \A x \in S : top - x \in Nat
    OBVIOUS
  <2> QED BY <2>1
<1>2. PICK d \in T : \A e \in T : d <= e
  <2> HIDE DEF T
  <2> QED BY <1>1, LeastOf
<1>3. PICK n \in S : d = top - n
  BY <1>2
<1>4. ASSUME NEW k \in S PROVE k <= n
  <2>1. d <= top - k
    BY <1>2
  <2> QED BY <1>3, <2>1
<1> QED BY <1>4

LEMMA BeforeExists ==
    ASSUME NEW S, S \subseteq LSMKeys, NEW key \in LSMKeys
    PROVE  /\ \E b : Before(S, key, b)
           /\ \A b, c : Before(S, key, b) /\ Before(S, key, c) => b = c
<1> DEFINE T == {x \in S \cup {0} : x < key}
<1>1. S \subseteq Nat /\ key \in Nat /\ 0 < key
  BY LSMConstants
<1>6. T \subseteq Nat /\ 0 \in T
  <2>1. \A x \in S \cup {0} : x \in Nat
    BY <1>1
  <2> QED BY <1>1, <2>1
<1>2. \A x \in T : x <= key
  BY <1>1
<1>3. PICK b \in T : \A x \in T : x <= b
  <2>1. T # {}
    BY <1>6
  <2> HIDE DEF T
  <2> QED BY <1>1, <1>2, <1>6, <2>1, GreatestOf
<1>4. Before(S, key, b)
  BY <1>3 DEF Before
<1>5. ASSUME NEW x, NEW y, Before(S, key, x), Before(S, key, y) PROVE x = y
  <2>1. x \in Nat /\ y \in Nat /\ (x = 0 \/ x \in S) /\ (y = 0 \/ y \in S)
    BY <1>1, <1>5 DEF Before
  <2>2. x <= y /\ y <= x
    BY <1>5, <2>1 DEF Before
  <2> QED BY <2>1, <2>2
<1> QED BY <1>4, <1>5

\* The inner loop stops before the key.
LEMMA WalkStops ==
    ASSUME NEW m, NEW i, NEW S, Level(m.next[i], S), NEW key \in LSMKeys,
           NEW from \in S \cup {0}, from < key
    PROVE  Before(S, key, LSM!Mem!Walk(m, i, key, from))
<1> DEFINE nx == m.next[i]
           Nodes == LSMKeys \cup {0}
           Rule(f) == f = [x \in Nodes |-> IF nx[x] # -1 /\ nx[x] < key THEN f[nx[x]] ELSE x]
<1>1. S \subseteq Nat /\ S \subseteq Nodes /\ Nodes \subseteq Nat /\ key \in Nat /\ from \in Nodes
      /\ \A x \in Nodes : nx[x] \in Nodes \cup {-1}
  BY LSMConstants DEF Level
<1>2. PICK b : Before(S, key, b)
  BY BeforeExists, LSMConstants DEF Level
<1>3. b \in Nat /\ b \in S \cup {0}
  BY <1>1, <1>2 DEF Before
<1>4. ASSUME NEW x \in S \cup {0}, x < key
      PROVE  \/ nx[x] # -1 /\ nx[x] < key /\ nx[x] \in S /\ x < nx[x] /\ x # b
             \/ ~ (nx[x] # -1 /\ nx[x] < key) /\ x = b
  <2>1. FirstAbove(S, x, nx[x]) /\ x \in Nat
    BY <1>1, <1>4 DEF Level
  <2>2. x <= b
    BY <1>1, <1>2, <1>3, <1>4 DEF Before
  <2>3. CASE nx[x] = -1
    <3>1. \A z \in S : z <= x
      BY <1>1, <2>1, <2>3 DEF FirstAbove
    <3>2. b <= x
      BY <1>1, <1>3, <2>1, <3>1
    <3> QED BY <1>3, <2>1, <2>2, <2>3, <3>2
  <2>4. CASE nx[x] # -1 /\ nx[x] < key
    <3>1. nx[x] \in S /\ x < nx[x]
      BY <2>1, <2>4 DEF FirstAbove
    <3>2. nx[x] <= b
      BY <1>2, <2>4, <3>1 DEF Before
    <3>3. nx[x] \in Nat
      BY <1>1, <3>1
    <3> QED BY <1>3, <2>1, <2>4, <3>1, <3>2, <3>3
  <2>5. CASE nx[x] # -1 /\ ~ (nx[x] < key)
    <3>1. nx[x] \in S /\ \A z \in S : x < z => nx[x] <= z
      BY <2>1, <2>5 DEF FirstAbove
    <3>2. nx[x] \in Nat /\ b < key
      BY <1>1, <1>2, <3>1 DEF Before
    <3>3. ~ (x < b)
      BY <1>1, <1>3, <2>1, <2>5, <3>1, <3>2
    <3> QED BY <1>3, <2>1, <2>2, <2>5, <3>3
  <2> QED BY <2>3, <2>4, <2>5
<1>5. \E f : Rule(f)
  <2> DEFINE f == [x \in Nodes |-> IF x \in S \cup {0} /\ x < key THEN b ELSE x]
  <2>1. ASSUME NEW x \in Nodes
        PROVE  f[x] = IF nx[x] # -1 /\ nx[x] < key THEN f[nx[x]] ELSE x
    <3>1. CASE x \in S \cup {0} /\ x < key
      BY <1>1, <1>4, <3>1
    <3>2. CASE x \in S \cup {0} /\ ~ (x < key)
      <4>1. FirstAbove(S, x, nx[x]) /\ x \in Nat
        BY <1>1, <3>2 DEF Level
      <4>2. nx[x] # -1 => x < nx[x] /\ nx[x] \in Nat
        BY <1>1, <4>1 DEF FirstAbove
      <4>3. ~ (nx[x] # -1 /\ nx[x] < key)
        BY <1>1, <3>2, <4>1, <4>2
      <4> QED BY <3>2, <4>3
    <3>3. CASE x \notin S \cup {0}
      <4>1. nx[x] = -1
        BY <3>3 DEF Level
      <4> QED BY <3>3, <4>1
    <3> QED BY <3>1, <3>2, <3>3
  <2>2. Rule(f)
    <3> HIDE DEF nx
    <3> QED BY <2>1
  <2> HIDE DEF Rule, f
  <2> QED BY <2>2
<1> DEFINE walk == CHOOSE f : Rule(f)
<1>6. Rule(walk)
  <2> HIDE DEF Rule
  <2> QED BY <1>5
<1>7. LSM!Mem!Walk(m, i, key, from) = walk[from]
  BY LSMConstants DEF LSM!Mem!Walk
<1> HIDE DEF walk
<1>8. \A x \in Nodes : walk[x] = IF nx[x] # -1 /\ nx[x] < key THEN walk[nx[x]] ELSE x
  <2> HIDE DEF nx
  <2> QED BY <1>6
<1> HIDE DEF nx, Rule
<1> DEFINE Bad == {x \in S \cup {0} : x < key /\ walk[x] # b}
<1>9. Bad = {}
  <2>1. SUFFICES ASSUME Bad # {} PROVE FALSE
    OBVIOUS
  <2>2. Bad \subseteq Nat /\ \A x \in Bad : x <= key
    <3>1. Bad \subseteq S \cup {0} /\ \A x \in Bad : x < key
      OBVIOUS
    <3>2. \A x \in Bad : x \in Nat
      <4> HIDE DEF Bad
      <4> QED BY <1>1, <3>1
    <3> HIDE DEF Bad
    <3> QED BY <1>1, <3>1, <3>2
  <2>3. PICK x \in Bad : \A y \in Bad : y <= x
    <3> HIDE DEF Bad
    <3> QED BY <1>1, <2>1, <2>2, GreatestOf
  <2>4. x \in S \cup {0} /\ x < key /\ walk[x] # b /\ x \in Nodes /\ x \in Nat
    BY <1>1, <2>3
  <2>5. CASE nx[x] # -1 /\ nx[x] < key
    <3>1. nx[x] \in S /\ x < nx[x] /\ walk[x] = walk[nx[x]]
      BY <1>4, <1>8, <2>4, <2>5
    <3>2. nx[x] \in Bad /\ nx[x] \in Nat
      BY <1>1, <2>4, <2>5, <3>1
    <3> QED BY <2>3, <2>4, <3>1, <3>2
  <2>6. CASE ~ (nx[x] # -1 /\ nx[x] < key)
    BY <1>4, <1>8, <2>4, <2>6
  <2> QED BY <2>5, <2>6
<1>10. walk[from] = b
  BY <1>9
<1> QED BY <1>2, <1>7, <1>10
\* The skip list m has the levels L, each of keys that the level below has too.
Levels(m, L) ==
    /\ m.level \in 1 .. maxLevel
    /\ \A i \in 0 .. (maxLevel - 1) : Level(m.next[i], L[i])
    /\ \A i \in 1 .. (maxLevel - 1) : L[i] \subseteq L[i - 1]
    /\ \A i \in m.level .. (maxLevel - 1) : L[i] = {}

\* The outer loop finds, on every level, the place of the key.
LEMMA SearchFinds ==
    ASSUME NEW m, NEW L, Levels(m, L), NEW key \in LSMKeys
    PROVE  \A i \in 0 .. (m.level - 1) : Before(L[i], key, LSM!Mem!Search(m, key)[i])
<1> DEFINE I == 0 .. (m.level - 1)
           top == m.level - 1
           W(i, from) == LSM!Mem!Walk(m, i, key, from)
           Rule(u) == u = [i \in I |-> W(i, IF i = top THEN 0 ELSE u[i + 1])]
<1>1. m.level \in Nat /\ maxLevel \in Nat /\ m.level <= maxLevel /\ top \in I
      /\ key \in Nat /\ 0 < key
  BY LSMConstants DEF Levels
<1>2. \A i \in I : Level(m.next[i], L[i]) /\ L[i] \subseteq LSMKeys
  BY <1>1 DEF Levels, Level
<1>3. \A i \in I : i # top => i + 1 \in I /\ L[i + 1] \subseteq L[i]
  <2> SUFFICES ASSUME NEW i \in I, i # top PROVE i + 1 \in I /\ L[i + 1] \subseteq L[i]
    OBVIOUS
  <2>1. i + 1 \in I /\ i + 1 \in 1 .. (maxLevel - 1) /\ (i + 1) - 1 = i
    BY <1>1
  <2> QED BY <2>1 DEF Levels
<1> DEFINE u == [i \in I |-> CHOOSE b : Before(L[i], key, b)]
<1>4. \A i \in I : Before(L[i], key, u[i])
  <2> SUFFICES ASSUME NEW i \in I PROVE Before(L[i], key, u[i])
    OBVIOUS
  <2>1. \E b : Before(L[i], key, b)
    BY <1>2, BeforeExists
  <2> QED BY <2>1
<1> HIDE DEF u
<1>5. ASSUME NEW i \in I
      PROVE  /\ i = top => Before(L[i], key, W(i, 0))
             /\ i # top => \A b : Before(L[i + 1], key, b) => Before(L[i], key, W(i, b))
  <2>1. i = top => Before(L[i], key, W(i, 0))
    BY <1>1, <1>2, WalkStops
  <2>2. ASSUME i # top, NEW b, Before(L[i + 1], key, b)
        PROVE  Before(L[i], key, W(i, b))
    <3>1. b \in L[i] \cup {0} /\ b < key
      BY <1>3, <2>2 DEF Before
    <3> QED BY <1>2, <3>1, WalkStops
  <2> QED BY <2>1, <2>2
<1>6. ASSUME NEW i \in I
      PROVE  u[i] = W(i, IF i = top THEN 0 ELSE u[i + 1])
  <2>1. Before(L[i], key, W(i, IF i = top THEN 0 ELSE u[i + 1]))
    <3> HIDE DEF W
    <3>1. CASE i = top
      BY <1>5, <3>1
    <3>2. CASE i # top
      BY <1>3, <1>4, <1>5, <3>2
    <3> QED BY <3>1, <3>2
  <2> HIDE DEF W
  <2> QED BY <1>2, <1>4, <2>1, BeforeExists
<1>7. \E f : Rule(f)
  <2>1. Rule(u)
    <3> HIDE DEF W
    <3>1. u = [i \in I |-> u[i]]
      BY DEF u
    <3> QED BY <1>6, <3>1
  <2> HIDE DEF Rule
  <2> QED BY <2>1
<1> DEFINE f == CHOOSE g : Rule(g)
<1>8. Rule(f)
  <2> HIDE DEF Rule
  <2> QED BY <1>7
<1>9. LSM!Mem!Search(m, key) = f
  BY LSMConstants DEF LSM!Mem!Search
<1> HIDE DEF f
<1>10. \A i \in I : f[i] = W(i, IF i = top THEN 0 ELSE f[i + 1])
  <2> HIDE DEF W
  <2> QED BY <1>8
<1> HIDE DEF Rule, W
<1> DEFINE Placed == {n \in 0 .. top : Before(L[top - n], key, f[top - n])}
<1>11. 0 \in Placed
  <2>1. f[top] = W(top, 0) /\ top - 0 = top /\ 0 \in 0 .. top
    BY <1>1, <1>10
  <2> QED BY <1>1, <1>5, <2>1
<1>12. ASSUME NEW n \in 1 .. top, n - 1 \in Placed PROVE n \in Placed
  <2>1. top - n \in I /\ top - n # top /\ top - (n - 1) = (top - n) + 1 /\ n \in 0 .. top
    BY <1>1
  <2>2. Before(L[(top - n) + 1], key, f[(top - n) + 1])
    BY <1>12, <2>1
  <2>3. f[top - n] = W(top - n, f[(top - n) + 1])
    BY <1>10, <2>1
  <2>4. Before(L[top - n], key, f[top - n])
    BY <1>5, <2>1, <2>2, <2>3
  <2> QED BY <2>1, <2>4
<1>13. \A n \in 0 .. top : n \in Placed
  <2>1. top \in Nat
    BY <1>1
  <2> HIDE DEF Placed
  <2> QED BY <1>11, <1>12, <2>1, CountUp
<1>14. ASSUME NEW i \in I PROVE Before(L[i], key, f[i])
  <2>1. top - i \in 0 .. top /\ top - (top - i) = i
    BY <1>1
  <2> QED BY <1>13, <2>1
<1> QED BY <1>9, <1>14

\* The node after the place of a key on level 0 tells whether the key is there.
LEMMA HasIsOnLevel0 ==
    ASSUME NEW m, NEW L, Levels(m, L), NEW key \in LSMKeys
    PROVE  LSM!Mem!Has(m, key) <=> key \in L[0]
<1> DEFINE b == LSM!Mem!Search(m, key)[0]
           y == m.next[0][b]
<1>1. 0 \in 0 .. (m.level - 1) /\ 0 \in 0 .. (maxLevel - 1) /\ key \in Nat
  BY LSMConstants DEF Levels
<1>2. Before(L[0], key, b) /\ Level(m.next[0], L[0])
  BY <1>1, SearchFinds DEF Levels
<1>3. LSM!Mem!Has(m, key) <=> y = key
  BY DEF LSM!Mem!Has
<1> HIDE DEF b
<1>4. FirstAbove(L[0], b, y) /\ L[0] \subseteq Nat /\ b \in Nat /\ b < key
  BY <1>2, LSMConstants DEF Before, Level
<1>5. ASSUME key \in L[0] PROVE y = key
  <2>1. y # -1
    BY <1>1, <1>4, <1>5 DEF FirstAbove
  <2>2. y \in L[0] /\ b < y /\ y <= key /\ y \in Nat
    BY <1>1, <1>4, <1>5, <2>1 DEF FirstAbove
  <2>3. ~ (y < key)
    BY <1>2, <1>4, <2>2 DEF Before
  <2> QED BY <1>1, <2>2, <2>3
<1>6. ASSUME y = key PROVE key \in L[0]
  BY <1>1, <1>4, <1>6 DEF FirstAbove
<1> QED BY <1>3, <1>5, <1>6
\* A level with a new key between its neighbours.
LEMMA LinkedLevel ==
    ASSUME NEW nx, NEW S, Level(nx, S), NEW key \in LSMKeys, key \notin S,
           NEW b, Before(S, key, b)
    PROVE  Level([nx EXCEPT ![key] = nx[b], ![b] = key], S \cup {key})
<1> DEFINE ny == [nx EXCEPT ![key] = nx[b], ![b] = key]
           T == S \cup {key}
<1>1. /\ S \subseteq LSMKeys /\ LSM!Mem!Nodes = LSMKeys \cup {0}
      /\ nx \in [LSM!Mem!Nodes -> LSM!Mem!Nodes \cup {-1}]
  BY LSMConstants DEF Level
<1>2. /\ S \subseteq Nat /\ key \in Nat /\ 0 < key /\ key # 0
      /\ b \in S \cup {0} /\ b \in Nat /\ b < key /\ b # key /\ b \in LSM!Mem!Nodes
      /\ \A z \in S : z < key => z <= b
  BY <1>1, LSMConstants DEF Before
<1>3. /\ ny \in [LSM!Mem!Nodes -> LSM!Mem!Nodes \cup {-1}]
      /\ ny[key] = nx[b] /\ ny[b] = key
      /\ \A x \in LSM!Mem!Nodes : x # key /\ x # b => ny[x] = nx[x]
  BY <1>1, <1>2
<1> HIDE DEF ny
<1>4. T \subseteq LSMKeys
  BY <1>1
<1>5. FirstAbove(T, b, ny[b])
  <2> SUFFICES ASSUME NEW z \in T, b < z PROVE key <= z
    BY <1>2, <1>3 DEF FirstAbove
  <2> QED BY <1>2
<1>6. FirstAbove(T, key, ny[key])
  <2>1. FirstAbove(S, b, nx[b])
    BY <1>2 DEF Level
  <2>2. CASE nx[b] = -1
    <3>1. \A z \in S : z <= b
      BY <1>2, <2>1, <2>2 DEF FirstAbove
    <3>2. \A z \in T : z <= key
      BY <1>2, <3>1
    <3> QED BY <1>3, <2>2, <3>2 DEF FirstAbove
  <2>3. CASE nx[b] # -1
    <3>1. nx[b] \in S /\ b < nx[b] /\ \A z \in S : b < z => nx[b] <= z
      BY <2>1, <2>3 DEF FirstAbove
    <3>4. nx[b] \in Nat /\ nx[b] # key
      BY <1>2, <3>1
    <3>2. key < nx[b]
      <4>1. ~ (nx[b] < key)
        BY <1>2, <3>1, <3>4
      <4> QED BY <1>2, <3>4, <4>1
    <3>3. \A z \in T : key < z => nx[b] <= z
      BY <1>2, <3>1
    <3> QED BY <1>3, <3>1, <3>2, <3>3 DEF FirstAbove
  <2> QED BY <2>2, <2>3
<1>7. ASSUME NEW x \in S \cup {0}, x # b PROVE FirstAbove(T, x, ny[x])
  <2>1. x \in Nat /\ x # key /\ x \in LSM!Mem!Nodes
    BY <1>1, <1>2
  <2>2. FirstAbove(S, x, nx[x]) /\ ny[x] = nx[x]
    BY <1>3, <1>7, <2>1 DEF Level
  <2>3. CASE x < key
    <3>1. x < b /\ b \in S
      BY <1>2, <1>7, <2>1, <2>3
    <3>2. nx[x] \in S /\ x < nx[x] /\ nx[x] <= b /\ \A z \in S : x < z => nx[x] <= z
      BY <1>2, <2>1, <2>2, <3>1 DEF FirstAbove
    <3>5. b \in Nat /\ key \in Nat /\ b < key /\ nx[x] \in Nat
      BY <1>2, <3>2
    <3>4. nx[x] <= key
      BY <3>2, <3>5
    <3>3. \A z \in T : x < z => nx[x] <= z
      BY <3>2, <3>4
    <3> QED BY <2>2, <3>2, <3>3 DEF FirstAbove
  <2>4. CASE ~ (x < key)
    <3>1. \A z \in T : x < z => z \in S
      BY <1>2, <2>1, <2>4
    <3>2. key <= x
      BY <1>2, <2>1, <2>4
    <3> QED BY <1>2, <2>1, <2>2, <3>1, <3>2 DEF FirstAbove
  <2> QED BY <2>3, <2>4
<1>8. \A x \in T \cup {0} : FirstAbove(T, x, ny[x])
  BY <1>2, <1>5, <1>6, <1>7
<1>9. \A x \in LSMKeys \ T : ny[x] = -1
  <2> SUFFICES ASSUME NEW x \in LSMKeys \ T PROVE ny[x] = -1
    OBVIOUS
  <2>1. x # 0 /\ x # b /\ x # key /\ x \in LSM!Mem!Nodes
    BY <1>1, <1>2, LSMConstants
  <2>2. nx[x] = -1
    BY DEF Level
  <2> QED BY <1>3, <2>1, <2>2
<1>10. Level(ny, T)
  BY <1>3, <1>4, <1>8, <1>9 DEF Level
<1> QED BY <1>10 DEF ny

MemTypes(m) ==
    m \in [next : [0 .. (maxLevel - 1) -> [LSM!Mem!Nodes -> LSM!Mem!Nodes \cup {-1}]],
           value : [LSMKeys -> Nat], deleted : [LSMKeys -> BOOLEAN],
           level : Nat, count : Int, bytes : Int]

\* The memtable after a write of a key: the list of one key more.
Inserted(m, L, m2, L2, key, v, d) ==
    /\ MemTypes(m2) /\ Levels(m2, L2)
    /\ L2[0] = L[0] \cup {key}
    /\ m2.value = [m.value EXCEPT ![key] = v]
    /\ m2.deleted = [m.deleted EXCEPT ![key] = d]
    /\ key \in L[0] => m2.count = m.count /\ m2.bytes = m.bytes + v - m.value[key]
    /\ key \notin L[0] => m2.count = m.count + 1 /\ m2.bytes = m.bytes + KeyLen + v

LEMMA OverwriteInserts ==
    ASSUME NEW m, NEW L, MemTypes(m), Levels(m, L), NEW key \in L[0], key \in LSMKeys,
           NEW v \in Nat, NEW d \in BOOLEAN
    PROVE  Inserted(m, L, LSM!Mem!Overwrite(m, key, v, d), L, key, v, d)
<1> DEFINE m2 == LSM!Mem!Overwrite(m, key, v, d)
<1>1. /\ m2 = [m EXCEPT !.value[key] = v, !.deleted[key] = d, !.bytes = m.bytes + v - m.value[key]]
  BY DEF LSM!Mem!Overwrite, LSM!Mem!Set, MemTypes
<1>2. /\ m2.next = m.next /\ m2.level = m.level /\ m2.count = m.count
      /\ m2.value = [m.value EXCEPT ![key] = v] /\ m2.deleted = [m.deleted EXCEPT ![key] = d]
      /\ m2.bytes = m.bytes + v - m.value[key]
  BY <1>1 DEF MemTypes
<1>4. MemTypes(m2)
  <2>1. /\ m.bytes + v - m.value[key] \in Int
        /\ [m.value EXCEPT ![key] = v] \in [LSMKeys -> Nat]
        /\ [m.deleted EXCEPT ![key] = d] \in [LSMKeys -> BOOLEAN]
    BY DEF MemTypes
  <2>2. m2 = [next |-> m.next, value |-> [m.value EXCEPT ![key] = v],
              deleted |-> [m.deleted EXCEPT ![key] = d], level |-> m.level,
              count |-> m.count, bytes |-> m.bytes + v - m.value[key]]
    BY <1>1 DEF MemTypes
  <2> HIDE DEF m2
  <2> QED BY <2>1, <2>2 DEF MemTypes
<1> HIDE DEF m2
<1>3. Levels(m2, L)
  BY <1>2 DEF Levels
<1> QED BY <1>2, <1>3, <1>4 DEF Inserted, m2

LEMMA LinkInserts ==
    ASSUME NEW m, NEW L, MemTypes(m), Levels(m, L), NEW key \in LSMKeys, key \notin L[0],
           NEW v \in Nat, NEW d \in BOOLEAN, NEW lvl \in 1 .. maxLevel,
           NEW u, \A i \in 0 .. (m.level - 1) : Before(L[i], key, u[i])
    PROVE  \E L2 : Inserted(m, L, LSM!Mem!Link(m, key, v, d, lvl, u), L2, key, v, d)
<1> DEFINE m2 == LSM!Mem!Link(m, key, v, d, lvl, u)
           I == 0 .. (maxLevel - 1)
           at(i) == IF i < m.level THEN u[i] ELSE 0
           next2 == [i \in I |-> IF i < lvl
                                 THEN [m.next[i] EXCEPT ![key] = m.next[i][at(i)], ![at(i)] = key]
                                 ELSE m.next[i]]
           L2 == [i \in I |-> IF i < lvl THEN L[i] \cup {key} ELSE L[i]]
           level2 == IF lvl > m.level THEN lvl ELSE m.level
<1>1. maxLevel \in Nat /\ 0 < maxLevel /\ m.level \in 1 .. maxLevel /\ KeyLen \in Nat
      /\ LSM!Mem!head = 0 /\ DOMAIN m.next = I
  BY LSMConstants DEF Levels, MemTypes
<1>2. /\ m2.next = next2 /\ m2.level = level2 /\ m2.count = m.count + 1
      /\ m2.value = [m.value EXCEPT ![key] = v] /\ m2.deleted = [m.deleted EXCEPT ![key] = d]
      /\ m2.bytes = m.bytes + KeyLen + v
      /\ m2 = [next |-> next2, value |-> [m.value EXCEPT ![key] = v],
               deleted |-> [m.deleted EXCEPT ![key] = d], level |-> level2,
               count |-> m.count + 1, bytes |-> m.bytes + KeyLen + v]
  <2> DEFINE s == LSM!Mem!Set(m, key, v, d)
  <2>1. s = [next |-> m.next, value |-> [m.value EXCEPT ![key] = v],
             deleted |-> [m.deleted EXCEPT ![key] = d], level |-> m.level,
             count |-> m.count, bytes |-> m.bytes]
    <3>1. m = [next |-> m.next, value |-> m.value, deleted |-> m.deleted, level |-> m.level,
               count |-> m.count, bytes |-> m.bytes]
      BY DEF MemTypes
    <3>2. s = [m EXCEPT !.value[key] = v, !.deleted[key] = d]
      BY DEF LSM!Mem!Set
    <3> HIDE DEF s
    <3> QED BY <3>1, <3>2
  <2>2. m2 = [s EXCEPT !.next = next2, !.level = level2, !.count = s.count + 1,
                       !.bytes = s.bytes + KeyLen + v]
    <3>1. s.next = m.next /\ s.level = m.level
      BY <2>1
    <3> HIDE DEF s
    <3> QED BY <1>1, <3>1 DEF LSM!Mem!Link, s
  <2> HIDE DEF m2, s, next2, level2
  <2> QED BY <2>1, <2>2
<1> HIDE DEF m2
<1>3. ASSUME NEW i \in I
      PROVE  /\ key \notin L[i]
             /\ Before(L[i], key, at(i))
  <2> DEFINE Out == {n \in 0 .. (maxLevel - 1) : key \notin L[n]}
  <2>1. 0 \in Out
    BY <1>1
  <2>2. ASSUME NEW n \in 1 .. (maxLevel - 1), n - 1 \in Out PROVE n \in Out
    <3>1. L[n] \subseteq L[n - 1]
      BY DEF Levels
    <3> QED BY <1>1, <2>2, <3>1
  <2>3. \A n \in 0 .. (maxLevel - 1) : n \in Out
    <3>1. maxLevel - 1 \in Nat
      BY <1>1
    <3> HIDE DEF Out
    <3> QED BY <2>1, <2>2, <3>1, CountUp
  <2>4. CASE i < m.level
    <3>1. i \in 0 .. (m.level - 1)
      BY <1>1, <2>4
    <3> QED BY <2>3, <2>4, <3>1
  <2>5. CASE ~ (i < m.level)
    <3>1. i \in m.level .. (maxLevel - 1)
      BY <1>1, <2>5
    <3>2. L[i] = {}
      BY <3>1 DEF Levels
    <3>3. Before({}, key, 0)
      BY LSMConstants DEF Before
    <3> QED BY <2>3, <2>5, <3>2, <3>3
  <2> QED BY <2>4, <2>5
<1>4. ASSUME NEW i \in I PROVE Level(next2[i], L2[i])
  <2>1. Level(m.next[i], L[i])
    BY DEF Levels
  <2>2. CASE i < lvl
    <3>1. Level([m.next[i] EXCEPT ![key] = m.next[i][at(i)], ![at(i)] = key], L[i] \cup {key})
      <4> HIDE DEF at
      <4> QED BY <1>3, <2>1, LinkedLevel
    <3> QED BY <2>2, <3>1
  <2>3. CASE ~ (i < lvl)
    BY <2>1, <2>3
  <2> QED BY <2>2, <2>3
<1> HIDE DEF next2
<1>5. Levels(m2, L2)
  <2>1. level2 \in 1 .. maxLevel /\ \A i \in level2 .. (maxLevel - 1) : L2[i] = {}
    <3>1. level2 \in 1 .. maxLevel /\ lvl <= level2 /\ m.level <= level2
      BY <1>1
    <3> HIDE DEF level2
    <3>2. ASSUME NEW i \in level2 .. (maxLevel - 1) PROVE L2[i] = {}
      <4>1. i \in m.level .. (maxLevel - 1) /\ i \in I /\ ~ (i < lvl)
        BY <1>1, <3>1
      <4> QED BY <4>1 DEF Levels
    <3> QED BY <3>1, <3>2
  <2>2. ASSUME NEW i \in 1 .. (maxLevel - 1) PROVE L2[i] \subseteq L2[i - 1]
    <3>1. i \in I /\ i - 1 \in I /\ (i < lvl => i - 1 < lvl) /\ L[i] \subseteq L[i - 1]
      BY <1>1 DEF Levels
    <3> QED BY <3>1
  <2> HIDE DEF L2, level2
  <2> QED BY <1>2, <1>4, <2>1, <2>2 DEF Levels
<1>6. L2[0] = L[0] \cup {key}
  BY <1>1
<1>7. MemTypes(m2)
  <2>1. \A i \in I : next2[i] \in [LSM!Mem!Nodes -> LSM!Mem!Nodes \cup {-1}]
    BY <1>4 DEF Level
  <2>2. next2 \in [I -> [LSM!Mem!Nodes -> LSM!Mem!Nodes \cup {-1}]]
    BY <2>1 DEF next2
  <2>3. /\ level2 \in Nat /\ m.count + 1 \in Int /\ m.bytes + KeyLen + v \in Int
        /\ [m.value EXCEPT ![key] = v] \in [LSMKeys -> Nat]
        /\ [m.deleted EXCEPT ![key] = d] \in [LSMKeys -> BOOLEAN]
    BY <1>1 DEF MemTypes
  <2> HIDE DEF level2
  <2> QED BY <1>2, <2>2, <2>3 DEF MemTypes
<1>8. Inserted(m, L, m2, L2, key, v, d)
  <2> HIDE DEF L2
  <2> QED BY <1>2, <1>5, <1>6, <1>7 DEF Inserted
<1>9. \E L3 : Inserted(m, L, m2, L3, key, v, d)
  <2> HIDE DEF L2
  <2> QED BY <1>8
<1> QED BY <1>9 DEF m2

LEMMA InsertInserts ==
    ASSUME NEW m, NEW L, MemTypes(m), Levels(m, L), NEW key \in LSMKeys,
           NEW v \in Nat, NEW d \in BOOLEAN, NEW lvl \in 1 .. maxLevel
    PROVE  \E L2 : Inserted(m, L, LSM!Mem!insert(m, key, v, d, lvl), L2, key, v, d)
<1>1. CASE key \in L[0]
  <2>1. LSM!Mem!insert(m, key, v, d, lvl) = LSM!Mem!Overwrite(m, key, v, d)
    BY <1>1, HasIsOnLevel0 DEF LSM!Mem!insert
  <2> QED BY <1>1, <2>1, OverwriteInserts
<1>2. CASE key \notin L[0]
  <2>1. LSM!Mem!insert(m, key, v, d, lvl)
          = LSM!Mem!Link(m, key, v, d, lvl, LSM!Mem!Search(m, key))
    BY <1>2, HasIsOnLevel0 DEF LSM!Mem!insert
  <2>2. \A i \in 0 .. (m.level - 1) : Before(L[i], key, LSM!Mem!Search(m, key)[i])
    BY SearchFinds
  <2> QED BY <1>2, <2>1, <2>2, LinkInserts
<1> QED BY <1>1, <1>2
\* c lists the keys of S upwards.
ListsUp(c, S) ==
    /\ c \in Seq(LSMKeys)
    /\ \A a, b \in DOMAIN c : a < b => c[a] < c[b]
    /\ {c[a] : a \in DOMAIN c} = S

\* What the walk along a level has met after n passes: the head, then keys of S upwards,
\* and unless it is at the end one more for every pass.
MetAfter(c, nx, S, n) ==
    /\ c \in Seq(S \cup {0}) /\ Len(c) # 0 /\ c[1] = 0
    /\ \A a \in 1 .. (Len(c) - 1) : c[a] < c[a + 1] /\ c[a + 1] = nx[c[a]]
    /\ \A a, b \in 1 .. Len(c) : a < b => c[a] < c[b]
    /\ Len(c) = n + 1 \/ nx[c[Len(c)]] = -1

LEMMA WalkMeets ==
    ASSUME NEW nx, NEW S, Level(nx, S), NEW n \in Nat, NEW c, MetAfter(c, nx, S, n),
           NEW x, x = nx[c[Len(c)]]
    PROVE  MetAfter(IF x = -1 THEN c ELSE Append(c, x), nx, S, n + 1)
<1>1. S \subseteq Nat /\ S \subseteq LSMKeys
  BY LSMConstants DEF Level
<1>2. Len(c) \in Nat \ {0} /\ c[Len(c)] \in S \cup {0} /\ c \in Seq(S \cup {0})
      /\ \A a \in 1 .. Len(c) : c[a] \in Nat
  <2>1. c \in Seq(S \cup {0}) /\ Len(c) # 0
    BY DEF MetAfter
  <2>2. Len(c) \in Nat \ {0} /\ \A a \in 1 .. Len(c) : c[a] \in S \cup {0}
    BY <2>1
  <2>3. \A y \in S \cup {0} : y \in Nat
    BY <1>1
  <2> QED BY <2>1, <2>2, <2>3
<1>3. CASE x = -1
  BY <1>3 DEF MetAfter
<1>4. CASE x # -1
  <2> DEFINE d == Append(c, x)
  <2>1. FirstAbove(S, c[Len(c)], x)
    BY <1>2 DEF Level
  <2>2. x \in S /\ c[Len(c)] < x /\ x \in Nat
    BY <1>1, <1>4, <2>1 DEF FirstAbove
  <2>3. Len(c) = n + 1
    BY <1>4 DEF MetAfter
  <2>4. /\ d \in Seq(S \cup {0}) /\ Len(d) = Len(c) + 1 /\ d[Len(d)] = x
        /\ \A a \in 1 .. Len(c) : d[a] = c[a]
    BY <1>2, <2>2
  <2> HIDE DEF d
  <2>5. d[1] = 0 /\ Len(d) # 0 /\ Len(d) = (n + 1) + 1
    BY <1>2, <2>3, <2>4 DEF MetAfter
  <2>6. ASSUME NEW a \in 1 .. (Len(d) - 1) PROVE d[a] < d[a + 1] /\ d[a + 1] = nx[d[a]]
    <3>1. CASE a = Len(c)
      BY <1>2, <2>2, <2>4, <3>1
    <3>2. CASE a # Len(c)
      <4>1. a \in 1 .. (Len(c) - 1) /\ d[a] = c[a] /\ d[a + 1] = c[a + 1]
        BY <1>2, <2>4, <3>2
      <4> QED BY <4>1 DEF MetAfter
    <3> QED BY <3>1, <3>2
  <2>7. ASSUME NEW a \in 1 .. Len(d), NEW b \in 1 .. Len(d), a < b PROVE d[a] < d[b]
    <3>1. a \in 1 .. Len(c) /\ d[a] = c[a] /\ c[a] \in Nat
      BY <1>2, <2>4, <2>7
    <3>2. CASE b = Len(d)
      <4>1. a = Len(c) \/ c[a] < c[Len(c)]
        BY <1>2, <3>1 DEF MetAfter
      <4> QED BY <1>2, <2>2, <2>4, <3>1, <3>2, <4>1
    <3>3. CASE b # Len(d)
      <4>1. b \in 1 .. Len(c) /\ d[b] = c[b]
        BY <1>2, <2>4, <3>3
      <4> QED BY <2>7, <3>1, <4>1 DEF MetAfter
    <3> QED BY <3>2, <3>3
  <2>8. MetAfter(d, nx, S, n + 1)
    BY <2>4, <2>5, <2>6, <2>7 DEF MetAfter
  <2> QED BY <1>4, <2>8 DEF d
<1> QED BY <1>3, <1>4

\* When as many passes are over as there are nodes, every key of the level was met.
LEMMA WalkEnds ==
    ASSUME NEW nx, NEW S, Level(nx, S), NEW c,
           MetAfter(c, nx, S, Cardinality(LSM!Mem!Nodes))
    PROVE  ListsUp(Tail(c), S)
<1> DEFINE N == Cardinality(LSM!Mem!Nodes)
<1>1. S \subseteq Nat /\ S \subseteq LSMKeys /\ LSM!Mem!Nodes = LSMKeys \cup {0}
      /\ 0 \notin S
  BY LSMConstants DEF Level
<1>2. IsFiniteSet(LSM!Mem!Nodes) /\ N \in Nat
  BY <1>1, LSMConstants, FS_AddElement, FS_CardinalityType
<1>3. /\ Len(c) \in Nat \ {0} /\ c \in Seq(S \cup {0}) /\ c[1] = 0
      /\ \A a \in 1 .. Len(c) : c[a] \in S \cup {0} /\ c[a] \in Nat
      /\ \A a, b \in 1 .. Len(c) : a < b => c[a] < c[b]
  <2>1. c \in Seq(S \cup {0}) /\ Len(c) # 0 /\ c[1] = 0
        /\ \A a, b \in 1 .. Len(c) : a < b => c[a] < c[b]
    BY DEF MetAfter
  <2>2. Len(c) \in Nat \ {0} /\ \A a \in 1 .. Len(c) : c[a] \in S \cup {0}
    BY <2>1
  <2>3. \A y \in S \cup {0} : y \in Nat
    BY <1>1
  <2> QED BY <2>1, <2>2, <2>3
<1>4. nx[c[Len(c)]] = -1
  <2>1. SUFFICES ASSUME Len(c) = N + 1 PROVE FALSE
    BY DEF MetAfter
  <2>2. c \in [1 .. (N + 1) -> LSM!Mem!Nodes]
    <3>1. c \in [1 .. Len(c) -> S \cup {0}]
      BY <1>3
    <3>2. S \cup {0} \subseteq LSM!Mem!Nodes
      BY <1>1
    <3> HIDE DEF N
    <3> QED BY <2>1, <3>1, <3>2
  <2>3. IsFiniteSet(1 .. (N + 1)) /\ Cardinality(1 .. (N + 1)) = N + 1
    BY <1>2, FS_Interval
  <2>4. \E a, b \in 1 .. (N + 1) : a # b /\ c[a] = c[b]
    <3>1. Cardinality(LSM!Mem!Nodes) < Cardinality(1 .. (N + 1))
      BY <1>2, <2>3
    <3> QED BY <1>2, <2>2, <2>3, <3>1, FS_PigeonHole
  <2>5. PICK a, b \in 1 .. (N + 1) : a # b /\ c[a] = c[b]
    BY <2>4
  <2>6. a < b \/ b < a
    BY <1>2, <2>5
  <2>7. c[a] < c[b] \/ c[b] < c[a]
    BY <1>3, <2>1, <2>6
  <2> QED BY <1>3, <2>1, <2>5, <2>7
<1>5. ASSUME NEW y \in S PROVE \E a \in 2 .. Len(c) : c[a] = y
  <2> DEFINE Low == {a \in 1 .. Len(c) : c[a] <= y}
  <2>1. Low \subseteq Nat /\ Low # {} /\ \A a \in Low : a <= Len(c)
    <3>1. 1 \in Low
      BY <1>1, <1>3
    <3>2. Low \subseteq 1 .. Len(c)
      OBVIOUS
    <3> HIDE DEF Low
    <3> QED BY <1>3, <3>1, <3>2
  <2>2. PICK a \in Low : \A b \in Low : b <= a
    <3> HIDE DEF Low
    <3> QED BY <1>3, <2>1, GreatestOf
  <2>3. a \in 1 .. Len(c) /\ c[a] <= y /\ c[a] \in Nat /\ y \in Nat /\ c[a] \in S \cup {0}
    BY <1>1, <1>3, <2>2
  <2>4. FirstAbove(S, c[a], nx[c[a]])
    BY <2>3 DEF Level
  <2>5. c[a] = y
    <3>1. SUFFICES ASSUME c[a] < y PROVE FALSE
      BY <2>3
    <3>2. CASE a = Len(c)
      <4>1. \A z \in S : z <= c[a]
        BY <1>1, <1>4, <2>4, <3>2 DEF FirstAbove
      <4> QED BY <2>3, <3>1, <4>1
    <3>3. CASE a # Len(c)
      <4>1. a \in 1 .. (Len(c) - 1) /\ a + 1 \in 1 .. Len(c)
        BY <1>3, <2>3, <3>3
      <4>2. c[a + 1] = nx[c[a]] /\ c[a + 1] \in Nat
        BY <1>3, <4>1 DEF MetAfter
      <4>3. c[a + 1] <= y
        BY <2>4, <3>1, <4>2 DEF FirstAbove
      <4>4. a + 1 \in Low
        BY <4>1, <4>3
      <4> QED BY <2>2, <2>3, <4>4
    <3> QED BY <3>2, <3>3
  <2>6. a # 1
    BY <1>1, <1>3, <2>5
  <2>7. a \in 2 .. Len(c)
    BY <1>3, <2>3, <2>6
  <2> QED BY <2>5, <2>7
<1> DEFINE t == Tail(c)
<1>6. /\ Len(t) = Len(c) - 1 /\ DOMAIN t = 1 .. (Len(c) - 1)
      /\ \A a \in 1 .. (Len(c) - 1) : t[a] = c[a + 1]
      /\ t \in Seq(S \cup {0})
  BY <1>3
<1> HIDE DEF t
<1>7. ASSUME NEW a \in DOMAIN t PROVE t[a] \in S /\ a + 1 \in 1 .. Len(c) /\ t[a] = c[a + 1]
  <2>1. a + 1 \in 1 .. Len(c) /\ t[a] = c[a + 1] /\ 1 \in 1 .. Len(c) /\ 1 < a + 1
    BY <1>3, <1>6
  <2>2. c[1] < c[a + 1]
    BY <1>3, <2>1
  <2>3. c[a + 1] # 0
    BY <1>3, <2>1, <2>2
  <2> QED BY <1>3, <2>1, <2>3
<1>8. t \in Seq(LSMKeys)
  <2>1. t \in [1 .. Len(t) -> LSMKeys] /\ Len(t) \in Nat
    BY <1>1, <1>3, <1>6, <1>7
  <2> QED BY <2>1
<1>9. \A a, b \in DOMAIN t : a < b => t[a] < t[b]
  <2> SUFFICES ASSUME NEW a \in DOMAIN t, NEW b \in DOMAIN t, a < b PROVE t[a] < t[b]
    OBVIOUS
  <2>1. a + 1 \in 1 .. Len(c) /\ b + 1 \in 1 .. Len(c) /\ a + 1 < b + 1
    BY <1>3, <1>6, <1>7
  <2> QED BY <1>3, <1>7, <2>1
<1>10. {t[a] : a \in DOMAIN t} = S
  <2>1. ASSUME NEW y \in S PROVE \E a \in DOMAIN t : t[a] = y
    <3>1. PICK b \in 2 .. Len(c) : c[b] = y
      BY <1>5
    <3>2. b - 1 \in DOMAIN t /\ (b - 1) + 1 = b
      BY <1>3, <1>6
    <3> QED BY <1>7, <3>1, <3>2
  <2> QED BY <1>7, <2>1
<1> QED BY <1>8, <1>9, <1>10 DEF ListsUp, t

\* The chain of a level lists its keys.
LEMMA ChainLists ==
    ASSUME NEW m, NEW i, NEW S, Level(m.next[i], S)
    PROVE  ListsUp(LSM!Mem!Chain(m, i), S)
<1> DEFINE nx == m.next[i]
           N == LSM!Mem!Cardinality(LSM!Mem!Nodes)
           C == {c \in Seq(S \cup {0}) : Len(c) # 0}
           step(c) == LET x == nx[c[Len(c)]] IN IF x = LSM!Mem!Nil THEN c ELSE Append(c, x)
           F == [k \in 1 .. N |-> [c \in C |-> step(c)]]
           Rule(f) == f = [n \in 0 .. N |-> IF n = 0 THEN <<LSM!Mem!head>> ELSE step(f[n - 1])]
<1>1. S \subseteq Nat /\ S \subseteq LSMKeys /\ LSM!Mem!Nodes = LSMKeys \cup {0}
  BY LSMConstants DEF Level
<1>2. N \in Nat
  <2>1. IsFiniteSet(LSM!Mem!Nodes)
    BY <1>1, LSMConstants, FS_AddElement
  <2>2. N = Cardinality(LSM!Mem!Nodes)
    BY LSMConstants
  <2> QED BY <2>1, <2>2, FS_CardinalityType
<1>3. \A c \in C : step(c) \in C
  <2> SUFFICES ASSUME NEW c \in C PROVE step(c) \in C
    OBVIOUS
  <2>1. Len(c) \in Nat \ {0} /\ c[Len(c)] \in S \cup {0} /\ c \in Seq(S \cup {0})
    OBVIOUS
  <2>2. FirstAbove(S, c[Len(c)], nx[c[Len(c)]])
    BY <2>1 DEF Level
  <2>3. nx[c[Len(c)]] # -1 => nx[c[Len(c)]] \in S
    BY <2>2 DEF FirstAbove
  <2>5. LSM!Mem!Nil = -1
    BY LSMConstants
  <2> HIDE DEF nx
  <2>4. ASSUME NEW x \in S PROVE Append(c, x) \in C
    BY <2>1
  <2> HIDE DEF C
  <2> QED BY <2>3, <2>4, <2>5
<1>4. <<0>> \in C
  OBVIOUS
<1>5. \E f : Rule(f)
  <2>1. Passes(F, N, C)
    <3> HIDE DEF C, step
    <3> QED BY <1>3 DEF Passes
  <2>2. PICK g : RunOf(g, F, N, C, <<0>>)
    <3> HIDE DEF F, C
    <3> QED BY <1>2, <1>4, <2>1, LoopRuns
  <2>3. g \in [0 .. N -> C] /\ g[0] = <<0>> /\ \A k \in 1 .. N : g[k] = F[k][g[k - 1]]
    BY <2>2 DEF RunOf
  <2> HIDE DEF C, step
  <2>4. ASSUME NEW k \in 1 .. N PROVE g[k] = step(g[k - 1])
    <3>1. k - 1 \in 0 .. N
      BY <1>2
    <3>2. g[k - 1] \in C
      BY <2>3, <3>1
    <3> QED BY <2>3, <3>2
  <2>5. \A n \in 0 .. N : n # 0 => n \in 1 .. N
    BY <1>2
  <2>6. Rule(g)
    <3>1. \A n \in 0 .. N : g[n] = IF n = 0 THEN <<0>> ELSE step(g[n - 1])
      BY <2>3, <2>4, <2>5
    <3>2. g = [n \in 0 .. N |-> g[n]]
      BY <2>3
    <3> QED BY <3>1, <3>2, LSMConstants
  <2> HIDE DEF Rule
  <2> QED BY <2>6
<1> DEFINE f == CHOOSE g : Rule(g)
<1>6. Rule(f)
  <2> HIDE DEF Rule
  <2> QED BY <1>5
<1>7. LSM!Mem!Chain(m, i) = Tail(f[N])
  BY DEF LSM!Mem!Chain
<1> HIDE DEF f
<1>8. f[0] = <<0>> /\ \A n \in 1 .. N : f[n] = step(f[n - 1])
  <2> HIDE DEF step
  <2>1. \A n \in 0 .. N : f[n] = IF n = 0 THEN <<0>> ELSE step(f[n - 1])
    BY <1>6, LSMConstants
  <2>2. 0 \in 0 .. N /\ \A n \in 1 .. N : n \in 0 .. N /\ n # 0
    BY <1>2
  <2> QED BY <2>1, <2>2
<1> HIDE DEF Rule
<1> DEFINE Met == {n \in 0 .. N : MetAfter(f[n], nx, S, n)}
<1>9. 0 \in Met
  <2>1. MetAfter(<<0>>, nx, S, 0)
    BY DEF MetAfter
  <2> QED BY <1>2, <1>8, <2>1
<1>10. ASSUME NEW n \in 1 .. N, n - 1 \in Met PROVE n \in Met
  <2>1. n - 1 \in Nat /\ (n - 1) + 1 = n /\ n \in 0 .. N /\ MetAfter(f[n - 1], nx, S, n - 1)
    BY <1>2, <1>10
  <2>2. MetAfter(step(f[n - 1]), nx, S, (n - 1) + 1)
    BY <2>1, WalkMeets, LSMConstants
  <2> HIDE DEF step
  <2> QED BY <1>8, <2>1, <2>2
<1>11. N \in Met
  <2>1. N \in 0 .. N
    BY <1>2
  <2> HIDE DEF Met
  <2> QED BY <1>2, <1>9, <1>10, <2>1, CountUp
<1>12. ListsUp(Tail(f[N]), S)
  BY <1>11, WalkEnds, LSMConstants
<1> QED BY <1>7, <1>12
-----------------------------------------------------------------------------
(* The sizes of the memtable: sums over sets of keys.                      *)

\* g gives for every set of keys the sum of their weights, in whatever order it is taken.
Sums(g, w) ==
    /\ g \in [SUBSET LSMKeys -> Int] /\ g[{}] = 0
    /\ \A s \in SUBSET LSMKeys : \A x \in s : g[s] = w[x] + g[s \ {x}]

Weights == [LSMKeys -> Int]

LEMMA KeySets ==
    /\ \A s \in SUBSET LSMKeys : IsFiniteSet(s) /\ Cardinality(s) \in Nat
                                 /\ (Cardinality(s) = 0 <=> s = {})
    /\ \A s \in SUBSET LSMKeys : \A x \in s :
          s \ {x} \in SUBSET LSMKeys /\ Cardinality(s \ {x}) = Cardinality(s) - 1
    /\ \A s \in SUBSET LSMKeys : \A x \in LSMKeys \ s : Cardinality(s \cup {x}) = Cardinality(s) + 1
    /\ \A s \in SUBSET LSMKeys : Cardinality(s) \in 0 .. Cardinality(LSMKeys)
<1>1. \A s \in SUBSET LSMKeys : IsFiniteSet(s) /\ Cardinality(s) <= Cardinality(LSMKeys)
  BY LSMConstants, FS_Subset
<1>2. \A s \in SUBSET LSMKeys : Cardinality(s) \in Nat /\ (Cardinality(s) = 0 <=> s = {})
  BY <1>1, FS_CardinalityType, FS_EmptySet
<1>3. \A s \in SUBSET LSMKeys : \A x \in s :
         s \ {x} \in SUBSET LSMKeys /\ Cardinality(s \ {x}) = Cardinality(s) - 1
  BY <1>1, FS_RemoveElement
<1>4. \A s \in SUBSET LSMKeys : \A x \in LSMKeys \ s : Cardinality(s \cup {x}) = Cardinality(s) + 1
  BY <1>1, FS_AddElement
<1>5. Cardinality(LSMKeys) \in Nat
  BY LSMConstants, FS_CardinalityType
<1> QED BY <1>1, <1>2, <1>3, <1>4, <1>5

LEMMA SumsExist ==
    ASSUME NEW w \in Weights
    PROVE  \E g : Sums(g, w)
<1> DEFINE K == SUBSET LSMKeys
           N == Cardinality(LSMKeys)
           Upto(g, n) == /\ g[{}] = 0
                         /\ \A s \in K : Cardinality(s) <= n => \A x \in s : g[s] = w[x] + g[s \ {x}]
           Done == {n \in 0 .. N : \E g \in [K -> Int] : Upto(g, n)}
<1>1. N \in Nat
  BY LSMConstants, FS_CardinalityType
<1>2. 0 \in Done
  <2>1. [s \in K |-> 0] \in [K -> Int] /\ Upto([s \in K |-> 0], 0)
    BY KeySets
  <2>2. \E f \in [K -> Int] : Upto(f, 0)
    <3> HIDE DEF Upto
    <3> QED BY <2>1
  <2>3. 0 \in 0 .. N
    BY <1>1
  <2> HIDE DEF Upto
  <2> QED BY <2>2, <2>3
<1>3. ASSUME NEW n \in 1 .. N, n - 1 \in Done PROVE n \in Done
  <2>1. PICK g \in [K -> Int] : Upto(g, n - 1)
    BY <1>3
  <2> DEFINE one(s) == CHOOSE x \in s : TRUE
             h == [s \in K |-> IF Cardinality(s) = n THEN w[one(s)] + g[s \ {one(s)}] ELSE g[s]]
  <2>2. \A s \in K : Cardinality(s) = n => one(s) \in s
    <3> SUFFICES ASSUME NEW s \in K, Cardinality(s) = n PROVE one(s) \in s
      OBVIOUS
    <3>1. s # {}
      BY KeySets
    <3> QED BY <3>1
  <2> HIDE DEF one
  <2>3. h \in [K -> Int]
    <3>1. ASSUME NEW s \in K
          PROVE  (IF Cardinality(s) = n THEN w[one(s)] + g[s \ {one(s)}] ELSE g[s]) \in Int
      <4>1. CASE Cardinality(s) = n
        <5>1. one(s) \in LSMKeys /\ s \ {one(s)} \in K
          BY <2>2, <4>1
        <5>2. w[one(s)] \in Int /\ g[s \ {one(s)}] \in Int
          BY <2>1, <5>1 DEF Weights
        <5> QED BY <4>1, <5>2
      <4>2. CASE Cardinality(s) # n
        BY <2>1, <4>2
      <4> QED BY <4>1, <4>2
    <3> QED BY <3>1
  <2>4. h[{}] = 0
    <3>1. {} \in K /\ Cardinality({}) # n
      BY KeySets
    <3> QED BY <2>1, <3>1
  <2>5. ASSUME NEW s \in K, Cardinality(s) <= n, NEW x \in s PROVE h[s] = w[x] + h[s \ {x}]
    <3>1. /\ s \ {x} \in K /\ Cardinality(s \ {x}) = Cardinality(s) - 1
          /\ Cardinality(s) \in Nat /\ x \in LSMKeys
      BY KeySets
    <3>2. h[s \ {x}] = g[s \ {x}]
      <4>1. Cardinality(s \ {x}) # n
        BY <2>5, <3>1
      <4> QED BY <3>1, <4>1
    <3>3. CASE Cardinality(s) # n
      <4>1. Cardinality(s) <= n - 1 /\ h[s] = g[s]
        BY <2>5, <3>1, <3>3
      <4>2. g[s] = w[x] + g[s \ {x}]
        BY <2>1, <4>1
      <4> HIDE DEF h
      <4> QED BY <3>2, <4>1, <4>2
    <3>4. CASE Cardinality(s) = n
      <4> DEFINE c == one(s)
      <4>1. c \in s /\ h[s] = w[c] + g[s \ {c}] /\ c \in LSMKeys
        BY <2>2, <3>4
      <4> HIDE DEF c, h
      <4>2. CASE c = x
        BY <3>2, <4>1, <4>2
      <4>3. CASE c # x
        <5> DEFINE r == (s \ {c}) \ {x}
        <5>1. /\ s \ {c} \in K /\ x \in s \ {c} /\ Cardinality(s \ {c}) = n - 1
              /\ c \in s \ {x} /\ Cardinality(s \ {x}) = n - 1 /\ (s \ {x}) \ {c} = r
              /\ r \in K
          BY <3>1, <3>4, <4>1, <4>3, KeySets
        <5> HIDE DEF r
        <5>2. n - 1 <= n - 1 /\ r = (s \ {c}) \ {x}
          BY DEF r
        <5>3. g[s \ {c}] = w[x] + g[r]
          BY <2>1, <5>1, <5>2
        <5>4. g[s \ {x}] = w[c] + g[r]
          BY <2>1, <3>1, <5>1, <5>2
        <5>5. w[x] \in Int /\ w[c] \in Int /\ g[r] \in Int
          BY <2>1, <3>1, <4>1, <5>1 DEF Weights
        <5> QED BY <3>2, <4>1, <5>3, <5>4, <5>5
      <4> QED BY <4>2, <4>3
    <3> QED BY <3>3, <3>4
  <2>6. Upto(h, n)
    <3> HIDE DEF h
    <3> QED BY <2>4, <2>5
  <2> HIDE DEF Upto, h
  <2> QED BY <2>3, <2>6
<1>4. N \in Done
  <2>1. N \in 0 .. N
    BY <1>1
  <2> HIDE DEF Done
  <2> QED BY <1>1, <1>2, <1>3, <2>1, CountUp
<1>5. PICK g \in [K -> Int] : Upto(g, N)
  BY <1>4
<1>6. Sums(g, w)
  <2>1. \A s \in K : Cardinality(s) <= N
    BY KeySets, <1>1
  <2> QED BY <1>5, <2>1 DEF Sums
<1> QED BY <1>6

\* A sum depends on the weights of its keys only.
LEMMA SumsAgree ==
    ASSUME NEW w, NEW g, Sums(g, w), NEW v, NEW h, Sums(h, v),
           NEW S, S \subseteq LSMKeys, \A x \in S : w[x] = v[x]
    PROVE  g[S] = h[S]
<1> DEFINE N == Cardinality(LSMKeys)
           Same == {n \in 0 .. N : \A s \in SUBSET S : Cardinality(s) = n => g[s] = h[s]}
<1>1. N \in Nat
  BY LSMConstants, FS_CardinalityType
<1>2. 0 \in Same
  <2>1. \A s \in SUBSET S : Cardinality(s) = 0 => s = {}
    BY KeySets
  <2>2. g[{}] = 0 /\ h[{}] = 0
    BY DEF Sums
  <2>3. \A s \in SUBSET S : Cardinality(s) = 0 => g[s] = h[s]
    BY <2>1, <2>2
  <2>4. 0 \in 0 .. N
    BY <1>1
  <2> QED BY <2>3, <2>4
<1>3. ASSUME NEW n \in 1 .. N, n - 1 \in Same PROVE n \in Same
  <2> SUFFICES ASSUME NEW s \in SUBSET S, Cardinality(s) = n PROVE g[s] = h[s]
    BY <1>1
  <2>1. s \in SUBSET LSMKeys /\ s # {}
    BY KeySets
  <2>2. PICK x \in s : TRUE
    BY <2>1
  <2>3. Cardinality(s \ {x}) = n - 1 /\ s \ {x} \in SUBSET S
    BY <2>1, <2>2, KeySets
  <2>4. g[s \ {x}] = h[s \ {x}]
    BY <1>3, <2>3
  <2>5. g[s] = w[x] + g[s \ {x}] /\ h[s] = v[x] + h[s \ {x}]
    BY <2>1, <2>2 DEF Sums
  <2> QED BY <2>2, <2>4, <2>5
<1>4. Cardinality(S) \in 0 .. N
  BY KeySets
<1>5. Cardinality(S) \in Same
  <2>1. \A n \in 0 .. N : n \in Same
    <3> HIDE DEF Same
    <3> QED BY <1>1, <1>2, <1>3, CountUp
  <2> QED BY <1>4, <2>1
<1> QED BY <1>5

\* Sums are what the community module's recursion computes.
Weight(m) == [k \in LSMKeys |-> KeyLen + m.value[k]]

FoldRule(f, m, S) ==
    f = [s \in SUBSET S |->
           IF s = {} THEN 0 ELSE LET x == CHOOSE x \in s : TRUE IN KeyLen + m.value[x] + f[s \ {x}]]

LEMMA SumsFold ==
    ASSUME NEW m, NEW g, Sums(g, Weight(m)), NEW S, S \subseteq LSMKeys
    PROVE  LSM!Mem!MapThenSumSet(LAMBDA k : KeyLen + m.value[k], S) = g[S]
<1> DEFINE f == CHOOSE f : FoldRule(f, m, S)
<1>1. LSM!Mem!MapThenSumSet(LAMBDA k : KeyLen + m.value[k], S) = f[S]
  BY DEF LSM!Mem!MapThenSumSet, LSM!Mem!MapThenFoldSet, FoldRule
<1>9. \A x \in LSMKeys : Weight(m)[x] = KeyLen + m.value[x]
  BY DEF Weight
<1>2. \E f0 : FoldRule(f0, m, S)
  <2> DEFINE h == [s \in SUBSET S |-> g[s]]
             one(s) == CHOOSE x \in s : TRUE
  <2>1. ASSUME NEW s \in SUBSET S
        PROVE  h[s] = IF s = {} THEN 0 ELSE KeyLen + m.value[one(s)] + h[s \ {one(s)}]
    <3>1. CASE s = {}
      BY <3>1 DEF Sums
    <3>2. CASE s # {}
      <4>1. one(s) \in s
        BY <3>2
      <4> HIDE DEF one
      <4>2. g[s] = KeyLen + m.value[one(s)] + g[s \ {one(s)}] /\ s \ {one(s)} \in SUBSET S
        BY <1>9, <4>1 DEF Sums
      <4> QED BY <3>2, <4>2
    <3> QED BY <3>1, <3>2
  <2>2. FoldRule(h, m, S)
    BY <2>1 DEF FoldRule
  <2> HIDE DEF h
  <2> QED BY <2>2
<1>3. FoldRule(f, m, S)
  BY <1>2
<1> HIDE DEF f
<1>4. \A s \in SUBSET S :
        f[s] = IF s = {} THEN 0 ELSE LET x == CHOOSE x \in s : TRUE IN KeyLen + m.value[x] + f[s \ {x}]
  BY <1>3 DEF FoldRule
<1> DEFINE N == Cardinality(LSMKeys)
           Same == {n \in 0 .. N : \A s \in SUBSET S : Cardinality(s) = n => f[s] = g[s]}
<1>5. N \in Nat
  BY LSMConstants, FS_CardinalityType
<1>6. 0 \in Same
  <2>1. \A s \in SUBSET S : Cardinality(s) = 0 => s = {}
    BY KeySets
  <2>2. {} \in SUBSET S /\ f[{}] = 0 /\ g[{}] = 0
    BY <1>4 DEF Sums
  <2>3. \A s \in SUBSET S : Cardinality(s) = 0 => f[s] = g[s]
    BY <2>1, <2>2
  <2>4. 0 \in 0 .. N
    BY <1>5
  <2> QED BY <2>3, <2>4
<1>7. ASSUME NEW n \in 1 .. N, n - 1 \in Same PROVE n \in Same
  <2> SUFFICES ASSUME NEW s \in SUBSET S, Cardinality(s) = n PROVE f[s] = g[s]
    BY <1>5
  <2>1. s \in SUBSET LSMKeys /\ s # {}
    BY KeySets
  <2> DEFINE x == CHOOSE x \in s : TRUE
  <2>2. f[s] = KeyLen + m.value[x] + f[s \ {x}]
    BY <1>4, <2>1
  <2>3. x \in s
    BY <2>1
  <2> HIDE DEF x
  <2>4. Cardinality(s \ {x}) = n - 1 /\ s \ {x} \in SUBSET S
    BY <2>1, <2>3, KeySets
  <2>5. f[s \ {x}] = g[s \ {x}]
    BY <1>7, <2>4
  <2>6. g[s] = KeyLen + m.value[x] + g[s \ {x}]
    BY <1>9, <2>1, <2>3 DEF Sums
  <2> QED BY <2>2, <2>5, <2>6
<1>8. Cardinality(S) \in Same
  <2>1. \A n \in 0 .. N : n \in Same
    <3> HIDE DEF Same
    <3> QED BY <1>5, <1>6, <1>7, CountUp
  <2>2. Cardinality(S) \in 0 .. N
    BY KeySets
  <2> QED BY <2>1, <2>2
<1> QED BY <1>1, <1>8
-----------------------------------------------------------------------------
(* The memtable.                                                           *)

SizesOK(m, S) == m.count = Cardinality(S) /\ \E g : Sums(g, Weight(m)) /\ m.bytes = g[S]

MemOK(m, L) == MemTypes(m) /\ Levels(m, L) /\ SizesOK(m, L[0])

LEMMA WeightType == \A m : MemTypes(m) => Weight(m) \in Weights
<1> SUFFICES ASSUME NEW m, MemTypes(m) PROVE Weight(m) \in Weights
  OBVIOUS
<1>1. \A k \in LSMKeys : m.value[k] \in Nat
  BY DEF MemTypes
<1>2. \A k \in LSMKeys : KeyLen + m.value[k] \in Int
  BY <1>1, LSMConstants
<1> QED BY <1>2 DEF Weight, Weights

LEMMA NewIsOK ==
    /\ MemOK(LSM!Mem!NewMemtable, [i \in 0 .. (maxLevel - 1) |-> {}])
    /\ LSM!Mem!NewMemtable.count = 0
<1> DEFINE m == LSM!Mem!NewMemtable
           L == [i \in 0 .. (maxLevel - 1) |-> {}]
           nx == [x \in LSM!Mem!Nodes |-> -1]
<1>1. m = [next |-> [i \in 0 .. (maxLevel - 1) |-> nx],
           value |-> [k \in LSMKeys |-> 0], deleted |-> [k \in LSMKeys |-> FALSE],
           level |-> 1, count |-> 0, bytes |-> 0]
  BY LSMConstants DEF LSM!Mem!NewMemtable
<1>2. maxLevel \in Nat \ {0} /\ 0 \in 0 .. (maxLevel - 1) /\ 1 \in 1 .. maxLevel
      /\ LSM!Mem!Nodes = LSMKeys \cup {0}
  BY LSMConstants
<1>3. nx \in [LSM!Mem!Nodes -> LSM!Mem!Nodes \cup {-1}]
  OBVIOUS
<1>4. Level(nx, {})
  BY <1>2, <1>3 DEF Level, FirstAbove
<1>5. MemTypes(m)
  <2>1. [i \in 0 .. (maxLevel - 1) |-> nx]
          \in [0 .. (maxLevel - 1) -> [LSM!Mem!Nodes -> LSM!Mem!Nodes \cup {-1}]]
    <3> HIDE DEF nx
    <3> QED BY <1>3
  <2>2. [k \in LSMKeys |-> 0] \in [LSMKeys -> Nat] /\ [k \in LSMKeys |-> FALSE] \in [LSMKeys -> BOOLEAN]
    OBVIOUS
  <2>3. 1 \in Nat /\ 0 \in Int
    OBVIOUS
  <2> HIDE DEF m, nx
  <2> QED BY <1>1, <2>1, <2>2, <2>3 DEF MemTypes
<1>6. Levels(m, L)
  <2>1. m.level = 1 /\ \A i \in 0 .. (maxLevel - 1) : m.next[i] = nx
    BY <1>1
  <2> HIDE DEF m, nx
  <2>2. \A i \in 1 .. (maxLevel - 1) : i \in 0 .. (maxLevel - 1) /\ i - 1 \in 0 .. (maxLevel - 1)
    BY <1>2
  <2>3. \A i \in m.level .. (maxLevel - 1) : i \in 0 .. (maxLevel - 1)
    BY <1>2, <2>1
  <2> QED BY <1>2, <1>4, <2>1, <2>2, <2>3 DEF Levels
<1>7. m.count = 0 /\ m.bytes = 0
  BY <1>1
<1> HIDE DEF m
<1>8. SizesOK(m, {})
  <2>1. PICK g : Sums(g, Weight(m))
    BY <1>5, WeightType, SumsExist
  <2>2. g[{}] = 0
    BY <2>1 DEF Sums
  <2> QED BY <1>7, <2>1, <2>2, FS_EmptySet DEF SizesOK
<1>9. L[0] = {}
  BY <1>2
<1>10. MemOK(m, L)
  <2> HIDE DEF L
  <2> QED BY <1>5, <1>6, <1>8, <1>9 DEF MemOK
<1> QED BY <1>7, <1>10 DEF m

LEMMA InsertKeeps ==
    ASSUME NEW m, NEW L, MemOK(m, L), NEW key \in LSMKeys, NEW v \in Nat, NEW d \in BOOLEAN,
           NEW lvl \in 1 .. maxLevel,
           NEW m2, m2 = LSM!Mem!insert(m, key, v, d, lvl)
    PROVE  \E L2 : /\ MemOK(m2, L2) /\ L2[0] = L[0] \cup {key}
                   /\ m2.value = [m.value EXCEPT ![key] = v]
                   /\ m2.deleted = [m.deleted EXCEPT ![key] = d]
<1>1. PICK L2 : Inserted(m, L, m2, L2, key, v, d)
  BY InsertInserts DEF MemOK
<1>2. /\ MemTypes(m) /\ MemTypes(m2) /\ Levels(m2, L2) /\ L2[0] = L[0] \cup {key}
      /\ m2.value = [m.value EXCEPT ![key] = v] /\ m2.deleted = [m.deleted EXCEPT ![key] = d]
  BY <1>1 DEF Inserted, MemOK
<1>3. /\ m.value \in [LSMKeys -> Nat] /\ m.deleted \in [LSMKeys -> BOOLEAN]
      /\ L[0] \in SUBSET LSMKeys /\ KeyLen \in Nat /\ m.bytes \in Int
  <2>1. 0 \in 0 .. (maxLevel - 1)
    BY LSMConstants
  <2> QED BY <2>1, LSMConstants DEF MemOK, MemTypes, Levels, Level
<1>4. m2.value[key] = v /\ m2.deleted[key] = d
      /\ \A k \in LSMKeys \ {key} : m2.value[k] = m.value[k] /\ m2.deleted[k] = m.deleted[k]
  BY <1>2, <1>3
<1>6. SizesOK(m2, L2[0])
  <2>1. PICK g : Sums(g, Weight(m)) /\ m.bytes = g[L[0]]
    BY DEF MemOK, SizesOK
  <2>2. PICK h : Sums(h, Weight(m2))
    BY <1>2, WeightType, SumsExist
  <2>3. Weight(m2)[key] = KeyLen + v /\ Weight(m)[key] = KeyLen + m.value[key]
        /\ \A k \in LSMKeys \ {key} : Weight(m2)[k] = Weight(m)[k]
    BY <1>4 DEF Weight
  <2> DEFINE R == L[0] \ {key}
  <2>4. R \in SUBSET LSMKeys /\ g[R] = h[R] /\ g[R] \in Int
    <3>1. R \in SUBSET LSMKeys /\ \A k \in R : k \in LSMKeys \ {key}
      BY <1>3
    <3>2. \A x \in R : Weight(m)[x] = Weight(m2)[x]
      BY <2>3, <3>1
    <3> HIDE DEF R
    <3>3. g[R] = h[R]
      BY <2>1, <2>2, <3>1, <3>2, SumsAgree
    <3>4. g[R] \in Int
      BY <2>1, <3>1 DEF Sums
    <3> QED BY <3>1, <3>3, <3>4
  <2>5. h[L2[0]] = KeyLen + v + h[R]
    <3>1. L2[0] \in SUBSET LSMKeys /\ key \in L2[0] /\ L2[0] \ {key} = R
      BY <1>2, <1>3
    <3> HIDE DEF R
    <3>2. h[L2[0]] = Weight(m2)[key] + h[R]
      BY <2>2, <3>1 DEF Sums
    <3> QED BY <2>3, <3>2
  <2>6. CASE key \in L[0]
    <3>1. m2.count = m.count /\ m2.bytes = m.bytes + v - m.value[key] /\ L2[0] = L[0]
      BY <1>1, <2>6 DEF Inserted
    <3>2. g[L[0]] = Weight(m)[key] + g[R]
      BY <1>3, <2>1, <2>6 DEF Sums
    <3>3. m.value[key] \in Nat
      BY <1>3
    <3> HIDE DEF R
    <3>4. m2.bytes = h[L2[0]]
      BY <1>3, <2>1, <2>3, <2>4, <2>5, <3>1, <3>2, <3>3
    <3> QED BY <2>2, <3>1, <3>4 DEF SizesOK, MemOK
  <2>7. CASE key \notin L[0]
    <3>1. m2.count = m.count + 1 /\ m2.bytes = m.bytes + KeyLen + v /\ R = L[0]
      BY <1>1, <2>7 DEF Inserted
    <3>2. Cardinality(L2[0]) = Cardinality(L[0]) + 1
      BY <1>2, <1>3, <2>7, KeySets
    <3>3. m2.bytes = h[L2[0]]
      <4> HIDE DEF R
      <4> QED BY <1>3, <2>1, <2>4, <2>5, <3>1
    <3> QED BY <2>2, <3>1, <3>2, <3>3 DEF SizesOK, MemOK
  <2> QED BY <2>6, <2>7
<1> QED BY <1>2, <1>6 DEF MemOK

LEMMA MemIsSound ==
    ASSUME NEW m, NEW L, MemOK(m, L)
    PROVE  LSM!Mem!LevelsAreSorted(m) /\ LSM!Mem!SizesAreExact(m)
<1>1. \A i \in 0 .. (maxLevel - 1) : ListsUp(LSM!Mem!Chain(m, i), L[i])
  BY ChainLists DEF MemOK, Levels
<1>2. \A i \in 0 .. (maxLevel - 1) : LSM!Mem!KeysOf(LSM!Mem!Chain(m, i)) = L[i]
  BY <1>1 DEF ListsUp, LSM!Mem!KeysOf
<1>3. maxLevel \in Nat \ {0} /\ 0 \in 0 .. (maxLevel - 1) /\ m.level \in 1 .. maxLevel
  BY LSMConstants DEF MemOK, Levels
<1>4. LSM!Mem!LevelsAreSorted(m)
  <2>1. ASSUME NEW i \in 0 .. (maxLevel - 1) PROVE LSM!Mem!Sorted(LSM!Mem!Chain(m, i))
    <3> DEFINE c == LSM!Mem!Chain(m, i)
    <3>1. c \in Seq(LSMKeys) /\ \A a, b \in DOMAIN c : a < b => c[a] < c[b]
      BY <1>1 DEF ListsUp
    <3> HIDE DEF c
    <3>2. \A n \in 1 .. (Len(c) - 1) : n \in DOMAIN c /\ n + 1 \in DOMAIN c /\ n < n + 1
      BY <3>1
    <3>3. LSM!Mem!Sorted(c)
      BY <3>1, <3>2 DEF LSM!Mem!Sorted
    <3> QED BY <3>3 DEF c
  <2>2. ASSUME NEW i \in 1 .. (maxLevel - 1)
        PROVE  LSM!Mem!KeysOf(LSM!Mem!Chain(m, i)) \subseteq LSM!Mem!KeysOf(LSM!Mem!Chain(m, i - 1))
    <3>1. i \in 0 .. (maxLevel - 1) /\ i - 1 \in 0 .. (maxLevel - 1) /\ L[i] \subseteq L[i - 1]
      BY <1>3 DEF MemOK, Levels
    <3> QED BY <1>2, <3>1
  <2>3. ASSUME NEW i \in m.level .. (maxLevel - 1) PROVE LSM!Mem!Chain(m, i) = <<>>
    <3>1. i \in 0 .. (maxLevel - 1) /\ L[i] = {}
      BY <1>3 DEF MemOK, Levels
    <3>2. ListsUp(LSM!Mem!Chain(m, i), {})
      BY <1>1, <3>1
    <3> DEFINE c == LSM!Mem!Chain(m, i)
    <3>3. c \in Seq(LSMKeys) /\ {c[a] : a \in DOMAIN c} = {}
      BY <3>2 DEF ListsUp
    <3> HIDE DEF c
    <3>4. DOMAIN c = {} /\ Len(c) \in Nat /\ DOMAIN c = 1 .. Len(c)
      <4>1. \A a \in DOMAIN c : c[a] \in {c[b] : b \in DOMAIN c}
        OBVIOUS
      <4>2. DOMAIN c = {}
        BY <3>3, <4>1
      <4>3. Len(c) \in Nat /\ DOMAIN c = 1 .. Len(c)
        BY <3>3
      <4> QED BY <4>2, <4>3
    <3>5. Len(c) = 0
      BY <3>4
    <3>6. c = <<>>
      BY <3>3, <3>5
    <3> QED BY <3>6 DEF c
  <2> QED BY <2>1, <2>2, <2>3 DEF LSM!Mem!LevelsAreSorted
<1>5. LSM!Mem!SizesAreExact(m)
  <2>1. PICK g : Sums(g, Weight(m)) /\ m.bytes = g[L[0]] /\ m.count = Cardinality(L[0])
    BY DEF MemOK, SizesOK
  <2>2. L[0] \in SUBSET LSMKeys
    BY <1>3 DEF MemOK, Levels, Level
  <2>4. LSM!Mem!MapThenSumSet(LAMBDA k : KeyLen + m.value[k], L[0]) = g[L[0]]
    BY <2>1, <2>2, SumsFold
  <2>5. LSM!Mem!KeysOf(LSM!Mem!Chain(m, 0)) = L[0] /\ LSM!Mem!Cardinality(L[0]) = Cardinality(L[0])
    BY <1>2, <1>3, LSMConstants
  <2> QED BY <2>1, <2>4, <2>5 DEF LSM!Mem!SizesAreExact
<1> QED BY <1>4, <1>5

-----------------------------------------------------------------------------
(* Tables and reads.                                                       *)

\* Entry i is scanned from the index entry at or before it.
LEMMA IndexCovers ==
    ASSUME NEW i \in Nat \ {0}
    PROVE  \E s \in 1 .. i : (s - 1) % indexInterval = 0 /\ i < s + indexInterval
<1> DEFINE I == indexInterval
           r == (i - 1) % I
           q == (i - 1) \div I
           s == i - r
<1>1. I \in Nat \ {0}
  BY LSMConstants
<1>2. r \in 0 .. (I - 1) /\ i - 1 = I * q + r /\ q \in Nat
  BY <1>1
<1>3. \A n \in Nat : (I * n) % I = 0 /\ I * n \in Int
  BY <1>1
<1> HIDE DEF q, r
<1>4. s - 1 = I * q
  BY <1>2, <1>3
<1>5. (s - 1) % I = 0
  <2> HIDE DEF s, I
  <2> QED BY <1>2, <1>3, <1>4
<1>6. s \in 1 .. i /\ i < s + I
  BY <1>1, <1>2
<1> QED BY <1>5, <1>6
TableEntry == [key : LSMKeys, value : Nat, deleted : BOOLEAN]

TableOK(t) ==
    /\ t \in Seq(TableEntry)
    /\ \A a, b \in DOMAIN t : a < b => t[a].key < t[b].key

\* The range check and the scan from the index entry find every key of a table.
LEMMA TableFinds ==
    ASSUME NEW t, TableOK(t), NEW key \in LSMKeys
    PROVE  /\ \A i \in DOMAIN t : t[i].key = key =>
                 LSM!SSTableGet(t, key) = {LSM!Mem!Answer(t[i].value, t[i].deleted)}
           /\ (\A i \in DOMAIN t : t[i].key # key) => LSM!SSTableGet(t, key) = {}
<1> DEFINE Hit(i) == /\ t[i].key = key
                     /\ t[1].key <= key /\ key <= LSM!Last(t).key
                     /\ \E s \in DOMAIN t : LSM!IndexEntry(t, key, s) /\ i \in LSM!Scan(s)
           Hits == {i \in DOMAIN t : Hit(i)}
<1>1. LSM!SSTableGet(t, key) = {LSM!Mem!Answer(t[i].value, t[i].deleted) : i \in Hits}
  BY DEF LSM!SSTableGet
<1>2. /\ Len(t) \in Nat /\ DOMAIN t = 1 .. Len(t) /\ key \in Nat
      /\ \A i \in DOMAIN t : t[i].key \in Nat
      /\ indexInterval \in Nat \ {0}
  <2>1. \A i \in DOMAIN t : t[i] \in TableEntry
    BY DEF TableOK
  <2>2. t \in Seq(TableEntry)
    BY DEF TableOK
  <2> QED BY <2>1, <2>2, LSMConstants DEF TableEntry
<1>3. ASSUME NEW i \in DOMAIN t, t[i].key = key PROVE Hits = {i}
  <2>1. t[1].key <= key
    <3>1. 1 \in DOMAIN t /\ (i = 1 \/ 1 < i)
      BY <1>2
    <3>2. i = 1 \/ t[1].key < t[i].key
      BY <3>1 DEF TableOK
    <3> QED BY <1>2, <1>3, <3>1, <3>2
  <2>2. key <= LSM!Last(t).key
    <3>1. Len(t) \in DOMAIN t /\ (i = Len(t) \/ i < Len(t)) /\ LSM!Last(t) = t[Len(t)]
      BY <1>2 DEF LSM!Last
    <3>2. i = Len(t) \/ t[i].key < t[Len(t)].key
      BY <3>1 DEF TableOK
    <3> QED BY <1>2, <1>3, <3>1, <3>2
  <2>3. i \in Nat \ {0}
    BY <1>2
  <2>4. PICK s \in 1 .. i : (s - 1) % indexInterval = 0 /\ i < s + indexInterval
    BY <2>3, IndexCovers
  <2>5. s \in DOMAIN t /\ s \in Nat /\ (s = i \/ s < i)
    BY <1>2, <2>3
  <2>6. t[s].key <= key
    <3>1. s = i \/ t[s].key < t[i].key
      BY <2>5 DEF TableOK
    <3> QED BY <1>2, <1>3, <2>5, <3>1
  <2>7. s + indexInterval \in DOMAIN t => t[s + indexInterval].key > key
    <3>1. s + indexInterval \in DOMAIN t => t[i].key < t[s + indexInterval].key
      BY <2>4 DEF TableOK
    <3> QED BY <1>2, <1>3, <3>1
  <2>8. LSM!IndexEntry(t, key, s) /\ i \in LSM!Scan(s)
    BY <1>2, <2>3, <2>4, <2>5, <2>6, <2>7 DEF LSM!IndexEntry, LSM!Scan
  <2>9. i \in Hits
    BY <1>3, <2>1, <2>2, <2>5, <2>8
  <2>10. \A j \in DOMAIN t : t[j].key = key => j = i
    <3> SUFFICES ASSUME NEW j \in DOMAIN t, t[j].key = key, j # i PROVE FALSE
      OBVIOUS
    <3>1. j < i \/ i < j
      BY <1>2
    <3>2. t[j].key < t[i].key \/ t[i].key < t[j].key
      BY <3>1 DEF TableOK
    <3> QED BY <1>2, <1>3, <3>2
  <2>11. \A j \in Hits : j = i
    BY <2>10
  <2> HIDE DEF Hits
  <2> QED BY <2>9, <2>11
<1>4. ASSUME \A i \in DOMAIN t : t[i].key # key PROVE Hits = {}
  BY <1>4
<1> HIDE DEF Hits
<1> QED BY <1>1, <1>3, <1>4

\* The entries of a memtable are a table, with what the memtable has for its keys.
LEMMA EntriesAreTable ==
    ASSUME NEW m, NEW L, MemOK(m, L)
    PROVE  /\ TableOK(LSM!Mem!Entries(m))
           /\ \A key \in LSMKeys :
                 LSM!SSTableGet(LSM!Mem!Entries(m), key)
                    = IF key \in L[0] THEN {LSM!Mem!Answer(m.value[key], m.deleted[key])} ELSE {}
<1> DEFINE c == LSM!Mem!Chain(m, 0)
           t == LSM!Mem!Entries(m)
<1>1. ListsUp(c, L[0])
  <2>1. 0 \in 0 .. (maxLevel - 1)
    BY LSMConstants
  <2> QED BY <2>1, ChainLists DEF MemOK, Levels
<1>2. t = [n \in DOMAIN c |-> [key |-> c[n], value |-> m.value[c[n]], deleted |-> m.deleted[c[n]]]]
  BY DEF LSM!Mem!Entries
<1> HIDE DEF c, t
<1>3. /\ c \in Seq(LSMKeys) /\ Len(c) \in Nat /\ DOMAIN c = 1 .. Len(c)
      /\ \A a, b \in DOMAIN c : a < b => c[a] < c[b]
      /\ {c[a] : a \in DOMAIN c} = L[0]
      /\ m.value \in [LSMKeys -> Nat] /\ m.deleted \in [LSMKeys -> BOOLEAN]
  BY <1>1 DEF ListsUp, MemOK, MemTypes
<1>4. \A n \in DOMAIN c :
        [key |-> c[n], value |-> m.value[c[n]], deleted |-> m.deleted[c[n]]] \in TableEntry
  <2> SUFFICES ASSUME NEW n \in DOMAIN c
               PROVE  [key |-> c[n], value |-> m.value[c[n]], deleted |-> m.deleted[c[n]]] \in TableEntry
    OBVIOUS
  <2>1. c[n] \in LSMKeys
    BY <1>3
  <2>2. m.value[c[n]] \in Nat /\ m.deleted[c[n]] \in BOOLEAN
    BY <1>3, <2>1
  <2> QED BY <2>1, <2>2 DEF TableEntry
<1>5. DOMAIN t = DOMAIN c
      /\ \A n \in DOMAIN c : t[n].key = c[n] /\ t[n].value = m.value[c[n]] /\ t[n].deleted = m.deleted[c[n]]
  BY <1>2
<1>6. TableOK(t)
  <2>1. t \in [1 .. Len(c) -> TableEntry]
    BY <1>2, <1>3, <1>4
  <2>2. t \in Seq(TableEntry)
    BY <1>3, <2>1
  <2> QED BY <1>3, <1>5, <2>2 DEF TableOK
<1>7. ASSUME NEW key \in LSMKeys
      PROVE  LSM!SSTableGet(t, key)
               = IF key \in L[0] THEN {LSM!Mem!Answer(m.value[key], m.deleted[key])} ELSE {}
  <2>1. CASE key \in L[0]
    <3>1. PICK n \in DOMAIN c : c[n] = key
      BY <1>3, <2>1
    <3>2. t[n].key = key /\ t[n].value = m.value[key] /\ t[n].deleted = m.deleted[key] /\ n \in DOMAIN t
      BY <1>5, <3>1
    <3>3. LSM!SSTableGet(t, key) = {LSM!Mem!Answer(t[n].value, t[n].deleted)}
      BY <1>6, <3>2, TableFinds
    <3> QED BY <2>1, <3>2, <3>3
  <2>2. CASE key \notin L[0]
    <3>1. \A n \in DOMAIN t : t[n].key # key
      BY <1>3, <1>5, <2>2
    <3>2. LSM!SSTableGet(t, key) = {}
      BY <1>6, <3>1, TableFinds
    <3> QED BY <2>2, <3>2
  <2> QED BY <2>1, <2>2
<1> QED BY <1>6, <1>7 DEF t

\* LSM!Lookup, as a function of the memtable and the tables.
TablesSay(ts, key) ==
    UNION {LSM!SSTableGet(ts[i], key) :
              i \in {i \in DOMAIN ts : \A j \in (i + 1) .. Len(ts) : LSM!SSTableGet(ts[j], key) = {}}}

Looked(m, ts, key) == IF LSM!Mem!Has(m, key) THEN {LSM!Mem!Get(m, key)} ELSE TablesSay(ts, key)

LEMMA NewestSays ==
    ASSUME NEW S, NEW ts \in Seq(S), NEW t \in S, NEW key
    PROVE  TablesSay(Append(ts, t), key)
             = IF LSM!SSTableGet(t, key) # {} THEN LSM!SSTableGet(t, key) ELSE TablesSay(ts, key)
<1> DEFINE us == Append(ts, t)
           n == Len(ts)
           G(x) == LSM!SSTableGet(x, key)
           Open(vs) == {i \in DOMAIN vs : \A j \in (i + 1) .. Len(vs) : G(vs[j]) = {}}
<1>1. /\ n \in Nat /\ DOMAIN ts = 1 .. n /\ Len(us) = n + 1 /\ DOMAIN us = 1 .. (n + 1)
      /\ us[n + 1] = t /\ \A i \in 1 .. n : us[i] = ts[i]
  OBVIOUS
<1>2. /\ TablesSay(us, key) = UNION {G(us[i]) : i \in Open(us)}
      /\ TablesSay(ts, key) = UNION {G(ts[i]) : i \in Open(ts)}
  BY DEF TablesSay
<1> HIDE DEF us, n
<1>3. n + 1 \in Open(us)
  BY <1>1
<1>4. CASE G(t) # {}
  <2>1. ASSUME NEW i \in Open(us), i # n + 1 PROVE FALSE
    <3>1. n + 1 \in (i + 1) .. Len(us)
      BY <1>1, <2>1
    <3>2. G(us[n + 1]) = {}
      BY <2>1, <3>1
    <3> QED BY <1>1, <1>4, <3>2
  <2>2. Open(us) = {n + 1}
    <3> HIDE DEF Open
    <3> QED BY <1>3, <2>1
  <2> HIDE DEF Open, G
  <2>3. UNION {G(us[i]) : i \in Open(us)} = G(t)
    BY <1>1, <2>2
  <2> QED BY <1>2, <1>4, <2>3 DEF G, us
<1>5. CASE G(t) = {}
  <2>1. ASSUME NEW i \in 1 .. n PROVE i \in Open(us) <=> i \in Open(ts)
    <3>1. \A j \in (i + 1) .. (n + 1) : j # n + 1 => j \in (i + 1) .. n /\ us[j] = ts[j]
      BY <1>1
    <3>2. \A j \in (i + 1) .. n : j \in (i + 1) .. (n + 1) /\ us[j] = ts[j]
      BY <1>1
    <3> HIDE DEF G
    <3>3. (\A j \in (i + 1) .. (n + 1) : G(us[j]) = {}) <=> (\A j \in (i + 1) .. n : G(ts[j]) = {})
      BY <1>1, <1>5, <3>1, <3>2
    <3>4. i \in 1 .. (n + 1) /\ Len(ts) = n
      BY <1>1 DEF n
    <3> QED BY <1>1, <3>3, <3>4
  <2>2. Open(ts) \subseteq 1 .. n /\ Open(us) \subseteq 1 .. (n + 1)
    BY <1>1
  <2> HIDE DEF Open, G
  <2>3. ASSUME NEW a, NEW i \in Open(us), a \in G(us[i])
        PROVE  \E j \in Open(ts) : a \in G(ts[j])
    <3>1. i # n + 1
      BY <1>1, <1>5, <2>3
    <3>2. i \in 1 .. n
      BY <1>1, <2>2, <3>1
    <3> QED BY <1>1, <2>1, <2>3, <3>2
  <2>4. ASSUME NEW a, NEW i \in Open(ts), a \in G(ts[i])
        PROVE  \E j \in Open(us) : a \in G(us[j])
    <3>1. i \in 1 .. n
      BY <2>2
    <3> QED BY <1>1, <2>1, <2>4, <3>1
  <2>5. UNION {G(us[i]) : i \in Open(us)} = UNION {G(ts[i]) : i \in Open(ts)}
    BY <2>3, <2>4
  <2> QED BY <1>2, <1>5, <2>5 DEF G, us
<1> QED BY <1>4, <1>5 DEF us
-----------------------------------------------------------------------------
(* The LSM tree implements KVStore.                                        *)

LSMInv == (\E L : MemOK(mem, L)) /\ tables \in Seq(Seq(TableEntry))

\* The values of the answers that found one.
FoundIn(A) == {e.value : e \in {e \in A : e.found}}

LEMMA ViewIsLooked == LSM!View = [k \in LSMKeys |-> FoundIn(Looked(mem, tables, k))]
<1>1. \A k \in LSMKeys : LSM!Lookup(k) = Looked(mem, tables, k)
  BY DEF LSM!Lookup, Looked, TablesSay, LSM!Answers
<1>2. \A k \in LSMKeys : LSM!Get(k) = FoundIn(Looked(mem, tables, k))
  BY <1>1 DEF LSM!Get, FoundIn
<1> QED BY <1>2 DEF LSM!View

LEMMA ViewIsLookedNext == (LSM!View = [k \in LSMKeys |-> FoundIn(Looked(mem, tables, k))])'
BY ViewIsLooked, PTL

LEMMA MemSays ==
    ASSUME NEW m, NEW L, MemOK(m, L), NEW ts, NEW key \in LSMKeys
    PROVE  Looked(m, ts, key) = IF key \in L[0] THEN {LSM!Mem!Answer(m.value[key], m.deleted[key])}
                                               ELSE TablesSay(ts, key)
<1>1. LSM!Mem!Has(m, key) <=> key \in L[0]
  BY HasIsOnLevel0 DEF MemOK
<1>2. key \in L[0] => LSM!Mem!Get(m, key) = LSM!Mem!Answer(m.value[key], m.deleted[key])
  BY <1>1 DEF LSM!Mem!Get
<1> QED BY <1>1, <1>2 DEF Looked

\* A flush, and a failure of one, changes no answer.
LEMMA FlushIsHidden ==
    ASSUME NEW m, NEW L, MemOK(m, L), tables \in Seq(Seq(TableEntry)), LSM!flushLocked(m)
    PROVE  LSMInv' /\ \A key \in LSMKeys : Looked(mem', tables', key) = Looked(m, tables, key)
<1>1. CASE mem' = m /\ UNCHANGED tables
  BY <1>1 DEF LSMInv
<1>2. CASE tables' = Append(tables, LSM!Mem!Entries(m)) /\ mem' = LSM!Mem!NewMemtable
  <2> DEFINE t == LSM!Mem!Entries(m)
             L0 == [i \in 0 .. (maxLevel - 1) |-> {}]
  <2>1. /\ TableOK(t)
        /\ \A key \in LSMKeys :
              LSM!SSTableGet(t, key)
                 = IF key \in L[0] THEN {LSM!Mem!Answer(m.value[key], m.deleted[key])} ELSE {}
    BY EntriesAreTable
  <2>2. t \in Seq(TableEntry)
    BY <2>1 DEF TableOK
  <2>3. MemOK(mem', L0) /\ L0[0] = {}
    BY <1>2, NewIsOK, LSMConstants
  <2> HIDE DEF t, L0
  <2>4. LSMInv'
    <3>1. tables' \in Seq(Seq(TableEntry))
      BY <1>2, <2>2 DEF t
    <3>2. \E L1 : MemOK(mem', L1)
      BY <2>3
    <3> QED BY <3>1, <3>2 DEF LSMInv
  <2>5. ASSUME NEW key \in LSMKeys PROVE Looked(mem', tables', key) = Looked(m, tables, key)
    <3>1. Looked(mem', tables', key) = TablesSay(tables', key)
      BY <2>3, MemSays
    <3>2. TablesSay(tables', key)
            = IF LSM!SSTableGet(t, key) # {} THEN LSM!SSTableGet(t, key) ELSE TablesSay(tables, key)
      BY <1>2, <2>2, NewestSays DEF t
    <3>3. Looked(m, tables, key)
            = IF key \in L[0] THEN {LSM!Mem!Answer(m.value[key], m.deleted[key])}
                              ELSE TablesSay(tables, key)
      BY MemSays
    <3> QED BY <2>1, <3>1, <3>2, <3>3
  <2> QED BY <2>4, <2>5
<1> QED BY <1>1, <1>2 DEF LSM!flushLocked

\* An insertion changes the answer for its key only.
LEMMA WriteShows ==
    ASSUME LSMInv, NEW key \in LSMKeys, NEW v \in Nat, NEW d \in BOOLEAN, NEW lvl \in 1 .. maxLevel,
           LSM!maybeFlush(LSM!Mem!insert(mem, key, v, d, lvl))
    PROVE  /\ LSMInv'
           /\ LSM!View'[key] = IF d THEN {} ELSE {v}
           /\ \A k \in LSMKeys \ {key} : LSM!View'[k] = LSM!View[k]
<1> DEFINE m == LSM!Mem!insert(mem, key, v, d, lvl)
<1>1. PICK L : MemOK(mem, L)
  BY DEF LSMInv
<1>2. PICK L2 : /\ MemOK(m, L2) /\ L2[0] = L[0] \cup {key}
                /\ m.value = [mem.value EXCEPT ![key] = v]
                /\ m.deleted = [mem.deleted EXCEPT ![key] = d]
  <2>1. m = LSM!Mem!insert(mem, key, v, d, lvl)
    OBVIOUS
  <2> HIDE DEF m
  <2> QED BY <1>1, <2>1, InsertKeeps, SMTT(30)
<1> HIDE DEF m
<1>3. /\ m.value[key] = v /\ m.deleted[key] = d
      /\ \A k \in LSMKeys \ {key} : m.value[k] = mem.value[k] /\ m.deleted[k] = mem.deleted[k]
  <2>1. mem.value \in [LSMKeys -> Nat] /\ mem.deleted \in [LSMKeys -> BOOLEAN]
    BY <1>1 DEF MemOK, MemTypes
  <2> QED BY <1>2, <2>1
<1>4. Looked(m, tables, key) = {LSM!Mem!Answer(v, d)}
  BY <1>2, <1>3, MemSays
<1>5. \A k \in LSMKeys \ {key} : Looked(m, tables, k) = Looked(mem, tables, k)
  <2> SUFFICES ASSUME NEW k \in LSMKeys \ {key} PROVE Looked(m, tables, k) = Looked(mem, tables, k)
    OBVIOUS
  <2>1. Looked(m, tables, k) = IF k \in L2[0] THEN {LSM!Mem!Answer(m.value[k], m.deleted[k])}
                                             ELSE TablesSay(tables, k)
    <3>1. k \in LSMKeys /\ MemOK(m, L2)
      BY <1>2
    <3> QED BY <3>1, MemSays
  <2>2. Looked(mem, tables, k) = IF k \in L[0] THEN {LSM!Mem!Answer(mem.value[k], mem.deleted[k])}
                                              ELSE TablesSay(tables, k)
    BY <1>1, MemSays
  <2> QED BY <1>2, <1>3, <2>1, <2>2
<1>6. LSMInv' /\ \A k \in LSMKeys : Looked(mem', tables', k) = Looked(m, tables, k)
  <2>1. tables \in Seq(Seq(TableEntry)) /\ LSM!maybeFlush(m)
    BY DEF LSMInv, m
  <2>2. CASE LSM!flushLocked(m)
    BY <1>2, <2>1, <2>2, FlushIsHidden
  <2>3. CASE mem' = m /\ UNCHANGED tables
    BY <1>2, <2>1, <2>3 DEF LSMInv
  <2> QED BY <2>1, <2>2, <2>3 DEF LSM!maybeFlush
<1>7. FoundIn({LSM!Mem!Answer(v, d)}) = IF d THEN {} ELSE {v}
  <2>1. CASE d
    <3>1. LSM!Mem!Answer(v, d).found = FALSE
      BY <2>1 DEF LSM!Mem!Answer, LSM!Mem!Tombstone
    <3> QED BY <2>1, <3>1 DEF FoundIn
  <2>2. CASE ~ d
    <3>1. LSM!Mem!Answer(v, d).found = TRUE /\ LSM!Mem!Answer(v, d).value = v
      BY <2>2 DEF LSM!Mem!Answer, LSM!Mem!Found
    <3> QED BY <2>2, <3>1 DEF FoundIn
  <2> QED BY <2>1, <2>2
<1>8. \A k \in LSMKeys : /\ LSM!View'[k] = FoundIn(Looked(mem', tables', k))
                         /\ LSM!View[k] = FoundIn(Looked(mem, tables, k))
  BY ViewIsLooked, ViewIsLookedNext
<1> QED BY <1>4, <1>5, <1>6, <1>7, <1>8

\* The store that the tree implements, and the variables of KVStore.
StoreOf == IF part = "lsm" THEN LSM!View ELSE [k \in LSMKeys |-> {}]
StoreVars == <<StoreOf, call>>

LEMMA ViewIsFunction == LSM!View = [k \in LSMKeys |-> LSM!View[k]]
BY DEF LSM!View

LEMMA ViewIsFunctionNext == LSM!View' = [k \in LSMKeys |-> LSM!View'[k]]
BY DEF LSM!View

LEMMA LSMStepRefines ==
    ASSUME LSMInv, LSM!Next, part = "lsm", UNCHANGED part
    PROVE  LSMInv' /\ Store!Next
<1> DEFINE New(key, x) ==
        /\ LSM!View'[key] = x
        /\ \A k \in LSMKeys \ {key} : LSM!View'[k] = LSM!View[k]
<1>1. StoreOf = LSM!View /\ StoreOf' = LSM!View'
  BY DEF StoreOf
<1>2. ASSUME NEW key \in LSMKeys, NEW x, New(key, x)
      PROVE  StoreOf' = [StoreOf EXCEPT ![key] = x]
  <2>1. \A k \in LSMKeys : LSM!View'[k] = IF k = key THEN x ELSE LSM!View[k]
    BY <1>2
  <2>2. LSM!View' = [k \in LSMKeys |-> IF k = key THEN x ELSE LSM!View[k]]
    BY <2>1, ViewIsFunctionNext
  <2>3. [LSM!View EXCEPT ![key] = x] = [k \in LSMKeys |-> IF k = key THEN x ELSE LSM!View[k]]
    <3> DEFINE f == LSM!View
    <3>1. f = [k \in LSMKeys |-> f[k]]
      BY ViewIsFunction
    <3> HIDE DEF f
    <3>2. [f EXCEPT ![key] = x] = [k \in LSMKeys |-> IF k = key THEN x ELSE f[k]]
      BY <3>1
    <3> QED BY <3>2 DEF f
  <2> QED BY <1>1, <2>2, <2>3
<1>3. ASSUME NEW k \in LSMKeys, NEW v \in LSMValues, LSM!Put(k, v)
      PROVE  LSMInv' /\ Store!Next
  <2>1. PICK m \in LSM!Mem!Put(mem, k, v) : LSM!maybeFlush(m)
    BY <1>3 DEF LSM!Put
  <2>2. PICK lvl \in 1 .. maxLevel : m = LSM!Mem!insert(mem, k, v, FALSE, lvl)
    BY <2>1 DEF LSM!Mem!Put
  <2>3. v \in Nat /\ LSM!maybeFlush(LSM!Mem!insert(mem, k, v, FALSE, lvl))
    BY <2>1, <2>2, LSMConstants
  <2>4. LSMInv' /\ New(k, {v})
    BY <2>3, WriteShows
  <2>5. StoreOf' = [StoreOf EXCEPT ![k] = {v}]
    <3> HIDE DEF New
    <3> QED BY <1>2, <2>4
  <2>6. call' = Store!PutCall(k, v)
    BY <1>3 DEF LSM!Put, Store!PutCall
  <2>7. Store!Put(k, v)
    BY <2>5, <2>6 DEF Store!Put, StoreOf
  <2> QED BY <2>4, <2>7 DEF Store!Next
<1>4. ASSUME NEW k \in LSMKeys, LSM!Delete(k)
      PROVE  LSMInv' /\ Store!Next
  <2>1. PICK m \in LSM!Mem!Delete(mem, k) : LSM!maybeFlush(m)
    BY <1>4 DEF LSM!Delete
  <2>2. PICK lvl \in 1 .. maxLevel : m = LSM!Mem!insert(mem, k, 0, TRUE, lvl)
    BY <2>1 DEF LSM!Mem!Delete
  <2>3. LSM!maybeFlush(LSM!Mem!insert(mem, k, 0, TRUE, lvl))
    BY <2>1, <2>2
  <2>4. LSMInv' /\ New(k, {})
    BY <2>3, WriteShows
  <2>5. StoreOf' = [StoreOf EXCEPT ![k] = {}]
    <3> HIDE DEF New
    <3> QED BY <1>2, <2>4
  <2>6. call' = Store!DeleteCall(k)
    BY <1>4 DEF LSM!Delete, Store!DeleteCall
  <2>7. Store!Delete(k)
    BY <2>5, <2>6 DEF Store!Delete, StoreOf
  <2> QED BY <2>4, <2>7 DEF Store!Next
<1>5. ASSUME LSM!Flush PROVE LSMInv' /\ Store!Next
  <2>1. PICK L : MemOK(mem, L)
    BY DEF LSMInv
  <2>2. LSMInv' /\ \A k \in LSMKeys : Looked(mem', tables', k) = Looked(mem, tables, k)
    BY <1>5, <2>1, FlushIsHidden DEF LSM!Flush, LSMInv
  <2>3. LSM!View' = LSM!View
    BY <2>2, ViewIsLooked, ViewIsLookedNext
  <2>4. call' = Store!FlushCall
    BY <1>5 DEF LSM!Flush, Store!FlushCall
  <2>5. StoreOf' = StoreOf
    BY <1>1, <2>3
  <2>6. Store!Flush
    BY <2>4, <2>5 DEF Store!Flush, StoreOf
  <2> QED BY <2>2, <2>6 DEF Store!Next
<1> QED BY <1>3, <1>4, <1>5 DEF LSM!Next

LEMMA LSMInit == LSM!Init => LSMInv /\ LSM!View = [k \in LSMKeys |-> {}]
<1> SUFFICES ASSUME LSM!Init PROVE LSMInv /\ LSM!View = [k \in LSMKeys |-> {}]
  OBVIOUS
<1> DEFINE L0 == [i \in 0 .. (maxLevel - 1) |-> {}]
<1>1. mem = LSM!Mem!NewMemtable /\ tables = <<>>
  BY DEF LSM!Init
<1>2. MemOK(mem, L0) /\ L0[0] = {}
  BY <1>1, NewIsOK, LSMConstants
<1> HIDE DEF L0
<1>3. LSMInv
  BY <1>1, <1>2 DEF LSMInv
<1>4. ASSUME NEW k \in LSMKeys PROVE FoundIn(Looked(mem, tables, k)) = {}
  <2>1. Looked(mem, tables, k) = TablesSay(<<>>, k)
    BY <1>1, <1>2, MemSays
  <2>2. TablesSay(<<>>, k) = {}
    BY DEF TablesSay
  <2> QED BY <2>1, <2>2 DEF FoundIn
<1> QED BY <1>3, <1>4, ViewIsLooked

\* Storage.ActsAsAStore (lsm.go:292-294, :4-6) for any keys, values, levels and index
\* intervals, and any flushes that succeed or fail: every Put and every Delete changes what
\* reads find to what KVStore says of that call, wherever the key was before, a Flush
\* changes nothing, and the skip list's levels and sizes are sound.
THEOREM LSMActsAsAStore == Spec => ActsAsAStore
<1> DEFINE J == LSMInv
<1>1. Init => J /\ Store!Init
  BY LSMInit DEF Init, Start, Store!Init, Store!NoCall, LSM!Init
<1>2. ASSUME J, [Next]_vars PROVE J' /\ [Store!Next]_StoreVars
  <2>1. CASE LSMStep
    BY <1>2, <2>1, LSMStepRefines DEF LSMStep
  <2>2. CASE (LogStep \/ LRUStep \/ LFUStep \/ SketchStep) \/ UNCHANGED vars
    <3>1. UNCHANGED <<mem, tables, call>> /\ UNCHANGED part
      BY <2>2 DEF LogStep, LRUStep, LFUStep, SketchStep, vars, lsmVars
    <3>2. J'
      BY <1>2, <3>1 DEF LSMInv
    <3>3. LSM!View' = LSM!View
      BY <3>1, ViewIsLooked, ViewIsLookedNext
    <3>4. UNCHANGED StoreVars
      BY <3>1, <3>3 DEF StoreOf, StoreVars
    <3> QED BY <3>2, <3>4
  <2> QED BY <1>2, <2>1, <2>2 DEF Next
<1>3. J => (part = "lsm" => LSM!MemtableIsSound)
  BY MemIsSound DEF LSMInv, LSM!MemtableIsSound
<1>4. Spec => Store!Init /\ [][Store!Next]_StoreVars /\ [](part = "lsm" => LSM!MemtableIsSound)
  BY <1>1, <1>2, <1>3, PTL DEF Spec
<1> QED BY <1>4 DEF ActsAsAStore, Store!Spec, Store!vars, StoreVars, StoreOf
=============================================================================
