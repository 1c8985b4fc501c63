--------------------------- MODULE ClusterProofs ---------------------------
(***************************************************************************)
(* Proofs about what the nodes of a cluster use to agree, for any nodes,   *)
(* machines and bounds.                                                    *)
(***************************************************************************)
EXTENDS Cluster, Sequences, FiniteSetTheorems, NaturalsInduction, WellFoundedInduction, TLAPS

-----------------------------------------------------------------------------
(* Loops. A set of numbers has a least element, which is how a loop's      *)
(* result is shown by induction: the first pass that breaks a claim does   *)
(* not exist.                                                              *)

LEMMA LeastOf ==
    ASSUME NEW S, S \subseteq Nat, S # {}
    PROVE  \E n \in S : \A k \in S : n <= k
<1>1. PICK n \in S : \A k \in S : ~ (<<k, n>> \in OpToRel(<, Nat))
  BY WFMin, NatLessThanWellFounded
<1>2. \A k \in S : ~ (k < n)
  BY <1>1 DEF OpToRel
<1> QED BY <1>2

\* A set of numbers that has 0 and with every number below N the next one, has them all.
LEMMA CountUp ==
    ASSUME NEW N \in Nat, NEW S, 0 \in S,
           \A k \in 1 .. N : k - 1 \in S => k \in S
    PROVE  \A k \in 0 .. N : k \in S
<1> DEFINE Bad == {k \in 0 .. N : k \notin S}
<1>1. SUFFICES ASSUME Bad # {} PROVE FALSE
  OBVIOUS
<1>2. Bad \subseteq Nat
  OBVIOUS
<1>3. PICK k \in Bad : \A l \in Bad : k <= l
  <2> HIDE DEF Bad
  <2> QED BY <1>1, <1>2, LeastOf
<1>4. k \in 1 .. N /\ k - 1 \in 0 .. N /\ ~ (k <= k - 1)
  BY <1>3
<1>5. k - 1 \in S
  BY <1>3, <1>4
<1> QED BY <1>3, <1>4, <1>5

\* A loop of N passes that starts from a and makes F[k][x] of x in pass k.
Passes(F, N, S) == F \in [1 .. N -> [S -> S]]

RunOf(g, F, N, S, a) ==
    g \in [0 .. N -> S] /\ g[0] = a /\ \A k \in 1 .. N : g[k] = F[k][g[k - 1]]

LEMMA LoopRuns ==
    ASSUME NEW N \in Nat, NEW S, NEW a \in S, NEW F, Passes(F, N, S)
    PROVE  \E g : RunOf(g, F, N, S, a)
<1> USE DEF Passes
<1> DEFINE Run(g, n) == g[0] = a /\ \A k \in 1 .. n : g[k] = F[k][g[k - 1]]
           Runs == {n \in 0 .. N : \E g \in [0 .. n -> S] : Run(g, n)}
<1>1. 0 \in Runs
  <2>1. [k \in 0 .. 0 |-> a] \in [0 .. 0 -> S] /\ Run([k \in 0 .. 0 |-> a], 0)
    OBVIOUS
  <2>2. 0 \in 0 .. N /\ \E f \in [0 .. 0 -> S] : Run(f, 0)
    <3> HIDE DEF Run
    <3> QED BY <2>1
  <2> HIDE DEF Run
  <2> QED BY <2>2
<1>2. ASSUME NEW n \in 1 .. N, n - 1 \in Runs PROVE n \in Runs
  <2>1. PICK g \in [0 .. (n - 1) -> S] : Run(g, n - 1)
    BY <1>2
  <2> DEFINE x == F[n][g[n - 1]]
             h == [k \in 0 .. n |-> IF k = n THEN x ELSE g[k]]
  <2>2. x \in S
    <3>1. n - 1 \in 0 .. (n - 1)
      OBVIOUS
    <3>2. g[n - 1] \in S
      BY <2>1, <3>1
    <3> QED BY <3>2
  <2>3. h \in [0 .. n -> S]
    BY <2>1, <2>2
  <2>4. h[0] = a
    BY <2>1
  <2>5. ASSUME NEW k \in 1 .. n PROVE h[k] = F[k][h[k - 1]]
    <3>1. h[k - 1] = g[k - 1]
      OBVIOUS
    <3>2. CASE k = n
      BY <3>1, <3>2
    <3>3. CASE k # n
      <4>1. k \in 1 .. (n - 1) /\ h[k] = g[k]
        BY <3>3
      <4> QED BY <2>1, <3>1, <4>1
    <3> QED BY <3>2, <3>3
  <2>6. Run(h, n)
    BY <2>4, <2>5
  <2>7. \E f \in [0 .. n -> S] : Run(f, n)
    <3> HIDE DEF Run, h
    <3> QED BY <2>3, <2>6
  <2>8. n \in 0 .. N
    OBVIOUS
  <2> HIDE DEF Run
  <2> QED BY <2>7, <2>8
<1>3. N \in 0 .. N
  OBVIOUS
<1>4. N \in Runs
  <2> HIDE DEF Runs
  <2> QED BY <1>1, <1>2, <1>3, CountUp
<1> QED BY <1>4 DEF RunOf

-----------------------------------------------------------------------------
(* Vector clocks.                                                          *)

Clocks == [Nodes -> Nat]
Versions == [value : Nat, clock : Clocks]

\* The clock b has counted all that a has.
Leq(a, b) == \A n \in Nodes : a[n] <= b[n]

LEMMA VersionParts == \A v \in Versions : v.value \in Nat /\ v.clock \in Clocks
BY DEF Versions

LEMMA CompareIsOrder ==
    ASSUME NEW a \in Clocks, NEW b \in Clocks
    PROVE  /\ Replicas!Compare(a, b) = "equal" <=> Leq(a, b) /\ Leq(b, a)
           /\ Replicas!Compare(a, b) = "before" <=> Leq(a, b) /\ ~ Leq(b, a)
           /\ Replicas!Compare(a, b) = "after" <=> Leq(b, a) /\ ~ Leq(a, b)
           /\ Replicas!Compare(a, b) = "concurrent" <=> ~ Leq(a, b) /\ ~ Leq(b, a)
<1> DEFINE less == \E n \in Nodes : a[n] < b[n]
           greater == \E n \in Nodes : a[n] > b[n]
<1>1. less <=> ~ Leq(b, a)
  BY DEF Leq, Clocks
<1>2. greater <=> ~ Leq(a, b)
  BY DEF Leq, Clocks
<1>3. Replicas!Compare(a, b) =
        CASE ~ less /\ ~ greater -> "equal" [] less /\ ~ greater -> "before"
          [] greater /\ ~ less -> "after" [] less /\ greater -> "concurrent"
  BY DEF Replicas!Compare
<1> HIDE DEF less, greater
<1> QED BY <1>1, <1>2, <1>3

LEMMA LeqOrder ==
    /\ \A a \in Clocks : Leq(a, a)
    /\ \A a, b, c \in Clocks : Leq(a, b) /\ Leq(b, c) => Leq(a, c)
    /\ \A a, b \in Clocks : Leq(a, b) /\ Leq(b, a) => a = b
<1>1. \A a \in Clocks : Leq(a, a)
  BY DEF Leq, Clocks
<1>2. ASSUME NEW a \in Clocks, NEW b \in Clocks, NEW c \in Clocks, Leq(a, b), Leq(b, c)
      PROVE  Leq(a, c)
  <2> SUFFICES ASSUME NEW n \in Nodes PROVE a[n] <= c[n]
    BY DEF Leq
  <2>1. a[n] \in Nat /\ b[n] \in Nat /\ c[n] \in Nat /\ a[n] <= b[n] /\ b[n] <= c[n]
    BY <1>2 DEF Leq, Clocks
  <2> QED BY <2>1
<1>3. ASSUME NEW a \in Clocks, NEW b \in Clocks, Leq(a, b), Leq(b, a) PROVE a = b
  <2>1. \A n \in Nodes : a[n] = b[n]
    BY <1>3 DEF Leq, Clocks
  <2> QED BY <2>1 DEF Clocks
<1> QED BY <1>1, <1>2, <1>3

\* What Write merges: at every node the most that a held version has counted.
LEMMA MergeAllIsMaximum ==
    ASSUME NEW held \in Seq(Versions)
    PROVE  LET m == Replicas!MergeAll(held) IN
           /\ m \in Clocks
           /\ \A i \in DOMAIN held : Leq(held[i].clock, m)
           /\ \A n \in Nodes : m[n] = 0 \/ \E i \in DOMAIN held : m[n] = held[i].clock[n]
<1> DEFINE N == Len(held)
           F == [k \in 1 .. N |-> [c \in Clocks |-> Replicas!Merge(c, held[k].clock)]]
           merged == CHOOSE p : p = [i \in 0 .. N |->
               IF i = 0 THEN Replicas!NewVectorClock ELSE Replicas!Merge(p[i - 1], held[i].clock)]
<1>1. N \in Nat /\ DOMAIN held = 1 .. N /\ \A k \in 1 .. N : held[k].clock \in Clocks
  BY VersionParts
<1>2. \A c, d \in Clocks : Replicas!Merge(c, d) \in Clocks
  BY DEF Replicas!Merge, Clocks
<1>3. F \in [1 .. N -> [Clocks -> Clocks]]
  BY <1>1, <1>2
<1>4. Replicas!NewVectorClock \in Clocks
  BY DEF Replicas!NewVectorClock, Clocks
<1>5. PICK g \in [0 .. N -> Clocks] :
        g[0] = Replicas!NewVectorClock /\ \A k \in 1 .. N : g[k] = F[k][g[k - 1]]
  <2>1. Passes(F, N, Clocks)
    BY <1>3 DEF Passes
  <2>2. \E g : RunOf(g, F, N, Clocks, Replicas!NewVectorClock)
    <3> HIDE DEF F, N
    <3> QED BY <1>1, <1>4, <2>1, LoopRuns
  <2> HIDE DEF F, N
  <2> QED BY <2>2 DEF RunOf
<1>6. \A k \in 1 .. N : g[k] = Replicas!Merge(g[k - 1], held[k].clock)
  <2> SUFFICES ASSUME NEW k \in 1 .. N PROVE g[k] = Replicas!Merge(g[k - 1], held[k].clock)
    OBVIOUS
  <2>1. k - 1 \in 0 .. N
    BY <1>1
  <2>2. g[k - 1] \in Clocks
    BY <1>5, <2>1
  <2> QED BY <1>5, <2>2
<1>7. g = [i \in 0 .. N |->
             IF i = 0 THEN Replicas!NewVectorClock ELSE Replicas!Merge(g[i - 1], held[i].clock)]
  BY <1>1, <1>5, <1>6
<1>8. merged = [i \in 0 .. N |->
             IF i = 0 THEN Replicas!NewVectorClock ELSE Replicas!Merge(merged[i - 1], held[i].clock)]
  <2> HIDE DEF N
  <2> QED BY <1>7
<1>9. Replicas!MergeAll(held) = merged[N]
  BY DEF Replicas!MergeAll
<1> DEFINE Most(k) ==
      /\ merged[k] \in Clocks
      /\ \A i \in 1 .. k : Leq(held[i].clock, merged[k])
      /\ \A n \in Nodes : merged[k][n] = 0 \/ \E i \in 1 .. k : merged[k][n] = held[i].clock[n]
    S == {k \in 0 .. N : Most(k)}
<1>10. Most(0)
  <2>1. merged[0] = Replicas!NewVectorClock
    <3> HIDE DEF merged
    <3> QED BY <1>1, <1>8
  <2> HIDE DEF merged
  <2> QED BY <1>4, <2>1 DEF Replicas!NewVectorClock
<1>11. ASSUME NEW k \in 1 .. N, Most(k - 1) PROVE Most(k)
  <2> DEFINE c == merged[k - 1]
             h == held[k].clock
  <2>1. merged[k] = Replicas!Merge(c, h)
    <3> HIDE DEF merged
    <3> QED BY <1>1, <1>8
  <2>2. c \in Clocks /\ h \in Clocks
    BY <1>1, <1>11
  <2>3. merged[k] \in Clocks /\ Leq(c, merged[k]) /\ Leq(h, merged[k])
    <3> HIDE DEF merged, c, h
    <3> QED BY <1>2, <2>1, <2>2 DEF Replicas!Merge, Leq, Clocks
  <2>4. \A n \in Nodes : merged[k][n] = c[n] \/ merged[k][n] = h[n]
    <3> HIDE DEF merged, c, h
    <3> QED BY <2>1, <2>2 DEF Replicas!Merge, Clocks
  <2>5. \A i \in 1 .. k : i \in 1 .. (k - 1) \/ i = k
    BY <1>1
  <2>6. ASSUME NEW i \in 1 .. k PROVE Leq(held[i].clock, merged[k])
    <3>1. CASE i = k
      BY <2>3, <3>1
    <3>2. CASE i \in 1 .. (k - 1)
      <4>1. Leq(held[i].clock, c) /\ held[i].clock \in Clocks
        <5>1. i \in 1 .. N
          BY <1>1, <3>2
        <5> HIDE DEF merged
        <5> QED BY <1>1, <1>11, <3>2, <5>1
      <4> HIDE DEF merged, c
      <4> QED BY <2>2, <2>3, <4>1, LeqOrder
    <3> QED BY <2>5, <3>1, <3>2
  <2>7. ASSUME NEW n \in Nodes
        PROVE  merged[k][n] = 0 \/ \E i \in 1 .. k : merged[k][n] = held[i].clock[n]
    <3>1. CASE merged[k][n] = h[n]
      <4> HIDE DEF merged
      <4> QED BY <1>1, <3>1
    <3>2. CASE merged[k][n] = c[n]
      <4>1. c[n] = 0 \/ \E i \in 1 .. (k - 1) : c[n] = held[i].clock[n]
        <5> HIDE DEF merged
        <5> QED BY <1>11
      <4>2. \A i \in 1 .. (k - 1) : i \in 1 .. k
        BY <1>1
      <4> HIDE DEF merged, c
      <4> QED BY <3>2, <4>1, <4>2
    <3> QED BY <2>4, <3>1, <3>2
  <2> HIDE DEF merged
  <2> QED BY <2>3, <2>6, <2>7
<1>12. N \in S
  <2> HIDE DEF Most
  <2>1. 0 \in S /\ \A k \in 1 .. N : k - 1 \in S => k \in S
    BY <1>1, <1>10, <1>11
  <2>2. N \in 0 .. N
    BY <1>1
  <2> HIDE DEF S, N
  <2> QED BY <1>1, <2>1, <2>2, CountUp
<1> HIDE DEF merged
<1> QED BY <1>1, <1>9, <1>12

Among(v, q) == \E i \in DOMAIN q : q[i] = v

LEMMA AmongAppended ==
    ASSUME NEW q \in Seq(Versions), NEW e \in Versions
    PROVE  /\ Append(q, e) \in Seq(Versions)
           /\ \A v : Among(v, Append(q, e)) <=> Among(v, q) \/ v = e
<1> DEFINE r == Append(q, e)
           n == Len(q)
<1>1. /\ n \in Nat /\ DOMAIN q = 1 .. n /\ r \in Seq(Versions) /\ DOMAIN r = 1 .. n + 1
      /\ r[n + 1] = e /\ \A i \in 1 .. n : r[i] = q[i]
  OBVIOUS
<1>2. \A i : i \in 1 .. n + 1 <=> i \in 1 .. n \/ i = n + 1
  BY <1>1
<1> HIDE DEF r, n
<1>3. \A v : Among(v, r) <=> Among(v, q) \/ v = e
  BY <1>1, <1>2 DEF Among
<1> QED BY <1>1, <1>3 DEF r

\* What Receive keeps: the held versions that are concurrent with the incoming one.
LEMMA SurvivorsAreConcurrent ==
    ASSUME NEW held \in Seq(Versions), NEW incoming \in Versions
    PROVE  /\ Replicas!Survivors(held, incoming) \in Seq(Versions)
           /\ \A v : Among(v, Replicas!Survivors(held, incoming)) <=>
                 Among(v, held) /\ Replicas!Compare(v.clock, incoming.clock) = "concurrent"
<1> DEFINE N == Len(held)
           Conc(v) == Replicas!Compare(v.clock, incoming.clock) = "concurrent"
           Pass(q, v) == IF Conc(v) THEN Append(q, v) ELSE q
           F == [k \in 1 .. N |-> [q \in Seq(Versions) |-> Pass(q, held[k])]]
           kept == CHOOSE p : p = [i \in 0 .. N |-> IF i = 0 THEN <<>> ELSE Pass(p[i - 1], held[i])]
<1>1. N \in Nat /\ DOMAIN held = 1 .. N /\ \A k \in 1 .. N : held[k] \in Versions
  OBVIOUS
<1>2. Replicas!Survivors(held, incoming) = kept[N]
  BY DEF Replicas!Survivors
<1> HIDE DEF Conc
<1>3. Passes(F, N, Seq(Versions))
  <2>1. \A k \in 1 .. N : \A q \in Seq(Versions) : Pass(q, held[k]) \in Seq(Versions)
    BY <1>1, AmongAppended
  <2> HIDE DEF Pass
  <2> QED BY <2>1 DEF Passes
<1> HIDE DEF Pass
<1>4. PICK g : RunOf(g, F, N, Seq(Versions), <<>>)
  <2>1. <<>> \in Seq(Versions)
    OBVIOUS
  <2> HIDE DEF F, N
  <2> QED BY <1>1, <1>3, <2>1, LoopRuns
<1>5. g \in [0 .. N -> Seq(Versions)] /\ g[0] = <<>>
  BY <1>4 DEF RunOf
<1>6. \A k \in 1 .. N : g[k] = Pass(g[k - 1], held[k])
  <2> SUFFICES ASSUME NEW k \in 1 .. N PROVE g[k] = Pass(g[k - 1], held[k])
    OBVIOUS
  <2>1. k - 1 \in 0 .. N
    BY <1>1
  <2>2. g[k - 1] \in Seq(Versions)
    BY <1>5, <2>1
  <2>3. g[k] = F[k][g[k - 1]]
    BY <1>4 DEF RunOf
  <2> QED BY <2>2, <2>3
<1>7. g = [i \in 0 .. N |-> IF i = 0 THEN <<>> ELSE Pass(g[i - 1], held[i])]
  BY <1>1, <1>5, <1>6
<1>8. kept = [i \in 0 .. N |-> IF i = 0 THEN <<>> ELSE Pass(kept[i - 1], held[i])]
  <2> HIDE DEF N
  <2> QED BY <1>7
<1> DEFINE Right(k) == /\ kept[k] \in Seq(Versions)
                       /\ \A v : Among(v, kept[k]) <=> Conc(v) /\ \E i \in 1 .. k : held[i] = v
           S == {k \in 0 .. N : Right(k)}
<1> HIDE DEF kept
<1>9. Right(0)
  <2>1. kept[0] = <<>>
    BY <1>1, <1>8
  <2> QED BY <2>1 DEF Among
<1>10. ASSUME NEW k \in 1 .. N, Right(k - 1) PROVE Right(k)
  <2> DEFINE q == kept[k - 1]
             e == held[k]
  <2>1. kept[k] = Pass(q, e)
    BY <1>1, <1>8
  <2>2. q \in Seq(Versions) /\ e \in Versions
    BY <1>1, <1>10
  <2>3. \A v : (\E i \in 1 .. k : held[i] = v) <=> (v = e \/ \E i \in 1 .. (k - 1) : held[i] = v)
    <3>1. \A i : i \in 1 .. k <=> i \in 1 .. (k - 1) \/ i = k
      BY <1>1
    <3> QED BY <3>1
  <2>4. \A v : Among(v, q) <=> Conc(v) /\ \E i \in 1 .. (k - 1) : held[i] = v
    BY <1>10
  <2> HIDE DEF q, e
  <2>5. kept[k] \in Seq(Versions)
    BY <2>1, <2>2, AmongAppended DEF Pass
  <2>6. \A v : Among(v, kept[k]) <=> Among(v, q) \/ (Conc(e) /\ v = e)
    BY <2>1, <2>2, AmongAppended DEF Pass
  <2> QED BY <2>3, <2>4, <2>5, <2>6
<1>11. N \in S
  <2> HIDE DEF Right
  <2>1. 0 \in S /\ \A k \in 1 .. N : k - 1 \in S => k \in S
    BY <1>1, <1>9, <1>10
  <2>2. N \in 0 .. N
    BY <1>1
  <2> HIDE DEF S, N
  <2> QED BY <1>1, <2>1, <2>2, CountUp
<1>12. \A v : Among(v, held) <=> \E i \in 1 .. N : held[i] = v
  BY <1>1 DEF Among
<1> QED BY <1>2, <1>11, <1>12 DEF Conc

-----------------------------------------------------------------------------
(* Replicas. The k-th write of a node is the only one whose clock has k at *)
(* that node when all it follows have less; and a write that counts k for  *)
(* a node follows that one, or is it.                                      *)

Writes == 1 .. Len(written)
HeldAt(r) == {versions[r][i] : i \in DOMAIN versions[r]}

ReplicasTypeOK ==
    /\ versions \in [Nodes -> Seq(Versions)]
    /\ written \in Seq(Versions)
    /\ past \in Seq(SUBSET Nat) /\ Len(past) = Len(written)
    /\ seen \in [Nodes -> SUBSET Writes]
    /\ \A w \in Writes : written[w].value = w /\ past[w] \subseteq 1 .. (w - 1)
    /\ \A r \in Nodes : \A v \in HeldAt(r) : v.value \in seen[r] /\ v = written[v.value]

Origin(w, n, k) ==
    written[w].clock[n] = k /\ \A x \in past[w] : written[x].clock[n] < k

\* What the clocks of the writes say of what the writes follow.
PastInv ==
    /\ \A w \in Writes : \A x \in past[w] :
          past[x] \subseteq past[w] /\ Leq(written[x].clock, written[w].clock)
    /\ \A w \in Writes, n \in Nodes : \A k \in 1 .. written[w].clock[n] :
          \E v \in past[w] \cup {w} : Origin(v, n, k)
    /\ \A v, w \in Writes, n \in Nodes, k \in Nat \ {0} :
          Origin(v, n, k) /\ Origin(w, n, k) => v = w
    /\ \A w \in Writes : \E n \in Nodes, k \in Nat \ {0} : Origin(w, n, k)

\* What a replica holds: versions of which none replaces another, that have counted all
\* the replica has heard of and every write that it made itself.
SeenInv ==
    \A r \in Nodes :
        /\ \A x \in seen[r] : past[x] \subseteq seen[r]
        /\ \A x \in seen[r] : \E v \in HeldAt(r) : Leq(written[x].clock, v.clock)
        /\ \A u, v \in HeldAt(r) : Leq(u.clock, v.clock) => u = v
        /\ \A w \in Writes : written[w].clock[r] = 0
                             \/ \E v \in HeldAt(r) : written[w].clock[r] <= v.clock[r]

ReplicasInv == ReplicasTypeOK /\ PastInv /\ SeenInv

LEMMA WriteParts ==
    ASSUME ReplicasTypeOK
    PROVE  /\ Len(written) \in Nat
           /\ \A w \in Writes : /\ w \in Nat /\ written[w] \in Versions
                                /\ written[w].clock \in Clocks /\ written[w].value = w
                                /\ past[w] \subseteq Writes /\ w \notin past[w]
           /\ \A w \in Writes, n \in Nodes : written[w].clock[n] \in Nat
           /\ \A v, w \in Writes : v \in past[w] => w \notin past[v]
           /\ \A r \in Nodes : seen[r] \subseteq Writes
           /\ \A r \in Nodes : \A v \in HeldAt(r) :
                 v \in Versions /\ v.clock \in Clocks /\ v.value \in Writes /\ v = written[v.value]
<1> USE DEF ReplicasTypeOK
<1>1. Len(written) \in Nat /\ \A w \in Writes : w \in Nat /\ written[w] \in Versions
  BY DEF Writes
<1>2. \A w \in Writes : written[w].clock \in Clocks
  BY <1>1, VersionParts
<1>3. \A w \in Writes, n \in Nodes : written[w].clock[n] \in Nat
  BY <1>2 DEF Clocks
<1>4. \A w \in Writes : past[w] \subseteq Writes /\ \A x \in past[w] : x < w
  BY DEF Writes
<1>5. \A v, w \in Writes : v \in past[w] => w \notin past[v]
  BY <1>1, <1>4
<1>6. \A w \in Writes : w \notin past[w]
  BY <1>1, <1>4
<1>7. \A r \in Nodes : seen[r] \subseteq Writes
  OBVIOUS
<1>8. ASSUME NEW r \in Nodes, NEW v \in HeldAt(r)
      PROVE  v \in Versions /\ v.clock \in Clocks /\ v.value \in Writes /\ v = written[v.value]
  <2>1. v.value \in Writes /\ v = written[v.value]
    BY <1>7, <1>8
  <2> QED BY <1>1, <2>1, VersionParts
<1> QED BY <1>1, <1>2, <1>3, <1>4, <1>5, <1>6, <1>7, <1>8

\* The order of the clocks is the order of the writes.
LEMMA Causality ==
    ASSUME ReplicasTypeOK, PastInv, NEW v \in Writes, NEW w \in Writes
    PROVE  Leq(written[v].clock, written[w].clock) <=> v = w \/ v \in past[w]
<1>1. ASSUME v = w \/ v \in past[w] PROVE Leq(written[v].clock, written[w].clock)
  BY <1>1, WriteParts, LeqOrder DEF PastInv
<1>2. ASSUME Leq(written[v].clock, written[w].clock) PROVE v = w \/ v \in past[w]
  <2>1. PICK n \in Nodes, k \in Nat \ {0} : Origin(v, n, k)
    BY DEF PastInv
  <2>2. k <= written[w].clock[n] /\ written[w].clock[n] \in Nat
    BY <1>2, <2>1, WriteParts DEF Leq, Origin
  <2>3. k \in 1 .. written[w].clock[n]
    BY <2>2
  <2>4. PICK u \in past[w] \cup {w} : Origin(u, n, k)
    BY <2>3 DEF PastInv
  <2>5. u \in Writes
    BY WriteParts
  <2>6. u = v
    BY <2>1, <2>4, <2>5 DEF PastInv
  <2> QED BY <2>6
<1> QED BY <1>1, <1>2

LEMMA ClocksTellCausality == ReplicasInv => ClockIsCausality
<1> SUFFICES ASSUME ReplicasTypeOK, PastInv, NEW v \in Writes, NEW w \in Writes
             PROVE  LET c == Replicas!Compare(written[v].clock, written[w].clock) IN
                    /\ v = w <=> c = "equal"
                    /\ v \in past[w] <=> c = "before"
                    /\ v # w /\ v \notin past[w] /\ w \notin past[v] <=> c = "concurrent"
  BY DEF ReplicasInv, ClockIsCausality, Replicas!ClockIsCausality, Writes
<1> DEFINE a == written[v].clock
           b == written[w].clock
<1>1. /\ Leq(a, b) <=> v = w \/ v \in past[w]
      /\ Leq(b, a) <=> w = v \/ w \in past[v]
  BY Causality
<1>2. a \in Clocks /\ b \in Clocks /\ (v \in past[w] => w \notin past[v]) /\ v \notin past[v]
  BY WriteParts
<1> HIDE DEF a, b
<1>3. /\ Replicas!Compare(a, b) = "equal" <=> Leq(a, b) /\ Leq(b, a)
      /\ Replicas!Compare(a, b) = "before" <=> Leq(a, b) /\ ~ Leq(b, a)
      /\ Replicas!Compare(a, b) = "concurrent" <=> ~ Leq(a, b) /\ ~ Leq(b, a)
  BY <1>2, CompareIsOrder
<1>4. v \in past[w] => v # w
  BY <1>2
<1>5. w \in past[v] => v \notin past[w]
  BY <1>2
<1>6. (v = w <=> Replicas!Compare(a, b) = "equal")
  BY <1>1, <1>2, <1>3
<1>7. (v \in past[w] <=> Replicas!Compare(a, b) = "before")
  BY <1>1, <1>2, <1>3, <1>4
<1>8. v # w /\ v \notin past[w] /\ w \notin past[v] <=> Replicas!Compare(a, b) = "concurrent"
  BY <1>1, <1>3
<1> QED BY <1>6, <1>7, <1>8 DEF a, b

LEMMA HeldIsFrontier == ReplicasInv => HoldsTheFrontier
<1> SUFFICES ASSUME ReplicasTypeOK, PastInv, SeenInv, NEW r \in Nodes
             PROVE  Replicas!Held(r) = {w \in seen[r] : \A x \in seen[r] : w \notin past[x]}
  BY DEF ReplicasInv, HoldsTheFrontier, Replicas!HoldsTheFrontier
<1>1. Replicas!Held(r) = {v.value : v \in HeldAt(r)}
  BY DEF Replicas!Held, HeldAt
<1>2. ASSUME NEW v \in HeldAt(r), NEW x \in seen[r], v.value \in past[x] PROVE FALSE
  <2>1. PICK u \in HeldAt(r) : Leq(written[x].clock, u.clock)
    BY DEF SeenInv
  <2>2. x \in Writes /\ v.value \in Writes /\ v = written[v.value] /\ u.clock \in Clocks
        /\ v.clock \in Clocks /\ written[x].clock \in Clocks
    BY WriteParts
  <2>3. Leq(v.clock, written[x].clock)
    BY <1>2, <2>2, Causality
  <2>4. Leq(v.clock, u.clock)
    BY <2>1, <2>2, <2>3, LeqOrder
  <2>5. u = v
    BY <2>4 DEF SeenInv
  <2>6. x = v.value \/ x \in past[v.value]
    BY <2>1, <2>2, <2>5, Causality
  <2> QED BY <1>2, <2>2, <2>6, WriteParts
<1>3. ASSUME NEW w \in seen[r], \A x \in seen[r] : w \notin past[x]
      PROVE  \E v \in HeldAt(r) : v.value = w
  <2>1. PICK u \in HeldAt(r) : Leq(written[w].clock, u.clock)
    BY DEF SeenInv
  <2>2. w \in Writes /\ u.value \in Writes /\ u = written[u.value]
    BY WriteParts
  <2>3. w = u.value \/ w \in past[u.value]
    BY <2>1, <2>2, Causality
  <2>4. u.value \in seen[r]
    BY DEF ReplicasTypeOK
  <2> QED BY <1>3, <2>3, <2>4
<1>4. \A v \in HeldAt(r) : v.value \in seen[r]
  BY DEF ReplicasTypeOK
<1> QED BY <1>1, <1>2, <1>3, <1>4

LEMMA ReceiveStep ==
    ASSUME ReplicasInv, NEW r \in Nodes, NEW w \in Writes, Replicas!Receive(r, written[w])
    PROVE  ReplicasInv'
<1> DEFINE inc == written[w]
           b == inc.clock
           held == versions[r]
           drop == \E i \in DOMAIN held : Replicas!Compare(held[i].clock, b) \in {"after", "equal"}
<1>0. ReplicasTypeOK /\ PastInv /\ SeenInv
  BY DEF ReplicasInv
<1>1. /\ UNCHANGED <<written, past>>
      /\ versions' = IF drop THEN versions
                     ELSE [versions EXCEPT ![r] = Append(Replicas!Survivors(held, inc), inc)]
      /\ seen' = [seen EXCEPT ![r] = (@ \cup {inc.value}) \cup past[inc.value]]
  BY DEF Replicas!Receive
<1>2. inc \in Versions /\ b \in Clocks /\ inc.value = w /\ past[w] \subseteq Writes
  BY <1>0, WriteParts
<1>3. held \in Seq(Versions)
  BY <1>0 DEF ReplicasTypeOK
<1>4. /\ seen' \in [Nodes -> SUBSET Writes]
      /\ seen'[r] = seen[r] \cup {w} \cup past[w]
      /\ \A q \in Nodes : q # r => seen'[q] = seen[q]
  <2>1. seen \in [Nodes -> SUBSET Writes]
    BY <1>0 DEF ReplicasTypeOK
  <2> QED BY <1>1, <1>2, <2>1
<1>5. \A v \in HeldAt(r) : v \in Versions /\ v.clock \in Clocks
  BY <1>0, WriteParts
<1>6. drop <=> \E u \in HeldAt(r) : Leq(b, u.clock)
  <2>1. drop <=> \E u \in HeldAt(r) : Replicas!Compare(u.clock, b) \in {"after", "equal"}
    BY DEF HeldAt
  <2>2. \A u \in HeldAt(r) : Replicas!Compare(u.clock, b) \in {"after", "equal"} <=> Leq(b, u.clock)
    <3> SUFFICES ASSUME NEW u \in HeldAt(r)
                 PROVE  Replicas!Compare(u.clock, b) \in {"after", "equal"} <=> Leq(b, u.clock)
      OBVIOUS
    <3> HIDE DEF b
    <3> QED BY <1>2, <1>5, CompareIsOrder
  <2> QED BY <2>1, <2>2
<1> DEFINE H == {v \in HeldAt(r) : Replicas!Compare(v.clock, b) = "concurrent"} \cup {inc}
<1>7. ~ drop => /\ Append(Replicas!Survivors(held, inc), inc) \in Seq(Versions)
                /\ \A v : Among(v, Append(Replicas!Survivors(held, inc), inc)) <=> v \in H
  <2> DEFINE s == Replicas!Survivors(held, inc)
  <2>1. s \in Seq(Versions) /\ \A v : Among(v, s) <=>
           Among(v, held) /\ Replicas!Compare(v.clock, inc.clock) = "concurrent"
    BY <1>2, <1>3, SurvivorsAreConcurrent
  <2>2. \A v : Among(v, held) <=> v \in HeldAt(r)
    BY DEF Among, HeldAt
  <2>3. Append(s, inc) \in Seq(Versions) /\ \A v : Among(v, Append(s, inc)) <=> Among(v, s) \/ v = inc
    <3> HIDE DEF s, inc
    <3> QED BY <1>2, <2>1, AmongAppended
  <2> QED BY <2>1, <2>2, <2>3
<1>8. /\ versions' \in [Nodes -> Seq(Versions)]
      /\ \A q \in Nodes : q # r => versions'[q] = versions[q]
      /\ drop => versions'[r] = versions[r]
      /\ ~ drop => versions'[r] = Append(Replicas!Survivors(held, inc), inc)
  <2>1. versions \in [Nodes -> Seq(Versions)]
    BY <1>0 DEF ReplicasTypeOK
  <2> HIDE DEF drop, inc, held
  <2> DEFINE e == Append(Replicas!Survivors(held, inc), inc)
  <2>2. ~ drop => e \in Seq(Versions)
    BY <1>7
  <2>3. versions' = IF drop THEN versions ELSE [versions EXCEPT ![r] = e]
    BY <1>1
  <2> HIDE DEF e
  <2>4. /\ versions' \in [Nodes -> Seq(Versions)]
        /\ \A q \in Nodes : q # r => versions'[q] = versions[q]
        /\ drop => versions'[r] = versions[r]
        /\ ~ drop => versions'[r] = e
    BY <2>1, <2>2, <2>3
  <2> QED BY <2>4 DEF e
<1>9. /\ \A q \in Nodes : q # r => HeldAt(q)' = HeldAt(q)
      /\ drop => HeldAt(r)' = HeldAt(r)
      /\ ~ drop => HeldAt(r)' = H
  <2>1. \A q \in Nodes : q # r => HeldAt(q)' = HeldAt(q)
    BY <1>8 DEF HeldAt
  <2>2. drop => HeldAt(r)' = HeldAt(r)
    BY <1>8 DEF HeldAt
  <2>3. ASSUME ~ drop PROVE HeldAt(r)' = H
    <3>1. \A v : v \in HeldAt(r)' <=> Among(v, versions'[r])
      BY DEF HeldAt, Among
    <3> HIDE DEF H, drop, inc, held
    <3> QED BY <1>7, <1>8, <2>3, <3>1
  <2> QED BY <2>1, <2>2, <2>3
<1>10. Writes' = Writes
  BY <1>1 DEF Writes
<1>11. ReplicasTypeOK'
  <2>1. ASSUME NEW q \in Nodes, NEW v \in HeldAt(q)' PROVE v.value \in seen'[q] /\ v = written[v.value]
    <3>1. v \in HeldAt(q) \/ (q = r /\ v = inc)
      <4> HIDE DEF drop
      <4> QED BY <1>9, <2>1
    <3> QED BY <1>0, <1>2, <1>4, <3>1 DEF ReplicasTypeOK
  <2> QED BY <1>0, <1>1, <1>4, <1>8, <1>10, <2>1 DEF ReplicasTypeOK
<1>12. PastInv'
  BY <1>0, <1>1, <1>10 DEF PastInv, Origin
<1>13. SeenInv'
  <2>1. ASSUME NEW q \in Nodes, q # r
        PROVE  /\ \A x \in seen'[q] : past[x] \subseteq seen'[q]
               /\ \A x \in seen'[q] : \E v \in HeldAt(q)' : Leq(written[x].clock, v.clock)
               /\ \A u, v \in HeldAt(q)' : Leq(u.clock, v.clock) => u = v
               /\ \A x \in Writes : written[x].clock[q] = 0
                                    \/ \E v \in HeldAt(q)' : written[x].clock[q] <= v.clock[q]
    BY <1>0, <1>4, <1>9, <2>1 DEF SeenInv
  <2>2. \A v \in HeldAt(r)' : v \in Versions /\ v.clock \in Clocks
    <3> HIDE DEF drop
    <3> QED BY <1>2, <1>5, <1>9
  <2>3. \E v \in HeldAt(r)' : Leq(b, v.clock)
    <3>1. CASE drop
      <4> HIDE DEF drop
      <4> QED BY <1>6, <1>9, <3>1
    <3>2. CASE ~ drop
      <4>1. inc \in HeldAt(r)' /\ Leq(b, inc.clock)
        <5> HIDE DEF drop
        <5> QED BY <1>2, <1>9, <3>2, LeqOrder
      <4> QED BY <4>1
    <3> QED BY <3>1, <3>2
  <2>4. ASSUME NEW u \in HeldAt(r) PROVE \E v \in HeldAt(r)' : Leq(u.clock, v.clock)
    <3>1. CASE u \in HeldAt(r)'
      BY <1>5, <3>1, LeqOrder
    <3>2. CASE u \notin HeldAt(r)'
      <4>1. ~ drop /\ Replicas!Compare(u.clock, b) # "concurrent"
        <5> HIDE DEF drop
        <5> QED BY <1>9, <2>4, <3>2
      <4>2. ~ Leq(b, u.clock)
        <5> HIDE DEF drop
        <5> QED BY <1>6, <4>1
      <4>3. Leq(u.clock, b)
        <5> HIDE DEF b
        <5> QED BY <1>2, <1>5, <4>1, <4>2, CompareIsOrder
      <4>4. inc \in HeldAt(r)'
        <5> HIDE DEF drop
        <5> QED BY <1>9, <4>1
      <4> QED BY <4>3, <4>4
    <3> QED BY <3>1, <3>2
  <2>5. \A x \in seen'[r] : past[x] \subseteq seen'[r]
    BY <1>0, <1>4 DEF SeenInv, PastInv
  <2>6. ASSUME NEW x \in seen'[r] PROVE \E v \in HeldAt(r)' : Leq(written[x].clock, v.clock)
    <3>1. x \in Writes /\ written[x].clock \in Clocks
      <4>1. x \in Writes
        BY <1>4
      <4> QED BY <1>0, <4>1, WriteParts
    <3>2. CASE x \in seen[r]
      <4>1. PICK u \in HeldAt(r) : Leq(written[x].clock, u.clock)
        BY <1>0, <3>2 DEF SeenInv
      <4>2. PICK v \in HeldAt(r)' : Leq(u.clock, v.clock)
        BY <2>4
      <4> QED BY <1>5, <2>2, <3>1, <4>1, <4>2, LeqOrder
    <3>3. CASE x \in {w} \cup past[w]
      <4>1. Leq(written[x].clock, b)
        BY <1>0, <3>1, <3>3, Causality
      <4>2. PICK v \in HeldAt(r)' : Leq(b, v.clock)
        BY <2>3
      <4> HIDE DEF b
      <4> QED BY <1>2, <2>2, <3>1, <4>1, <4>2, LeqOrder
    <3> QED BY <1>4, <3>2, <3>3
  <2>7. ASSUME NEW u \in HeldAt(r)', NEW v \in HeldAt(r)', Leq(u.clock, v.clock) PROVE u = v
    <3>1. CASE drop
      <4> HIDE DEF drop
      <4> QED BY <1>0, <1>9, <2>7, <3>1 DEF SeenInv
    <3>2. CASE ~ drop
      <4>1. \A x \in HeldAt(r) : Replicas!Compare(x.clock, b) = "concurrent" =>
               ~ Leq(x.clock, b) /\ ~ Leq(b, x.clock)
        <5> HIDE DEF b
        <5> QED BY <1>2, <1>5, CompareIsOrder
      <4>2. HeldAt(r)' = H
        <5> HIDE DEF drop
        <5> QED BY <1>9, <3>2
      <4> QED BY <1>0, <2>7, <4>1, <4>2 DEF SeenInv
    <3> QED BY <3>1, <3>2
  <2>8. ASSUME NEW x \in Writes, written[x].clock[r] # 0
        PROVE  \E v \in HeldAt(r)' : written[x].clock[r] <= v.clock[r]
    <3>1. PICK u \in HeldAt(r) : written[x].clock[r] <= u.clock[r]
      BY <1>0, <2>8 DEF SeenInv
    <3>2. PICK v \in HeldAt(r)' : Leq(u.clock, v.clock)
      BY <2>4
    <3>3. written[x].clock[r] \in Nat /\ u.clock[r] \in Nat /\ v.clock[r] \in Nat
          /\ u.clock[r] <= v.clock[r]
      BY <1>0, <1>5, <2>2, <3>2, WriteParts DEF Clocks, Leq
    <3> QED BY <3>1, <3>3
  <2> HIDE DEF H, drop, held, inc, b
  <2> QED BY <1>1, <1>10, <2>1, <2>5, <2>6, <2>7, <2>8 DEF SeenInv
<1> QED BY <1>11, <1>12, <1>13 DEF ReplicasInv

LEMMA WriteStep ==
    ASSUME ReplicasInv, NEW r \in Nodes, Replicas!Write(r)
    PROVE  ReplicasInv'
<1> DEFINE m == Replicas!MergeAll(versions[r])
           c == Replicas!Increment(m, r)
           N == Len(written) + 1
           new == [value |-> N, clock |-> c]
<1>0. ReplicasTypeOK /\ PastInv /\ SeenInv
  BY DEF ReplicasInv
<1>1. /\ versions' = [versions EXCEPT ![r] = <<new>>]
      /\ written' = Append(written, new)
      /\ past' = Append(past, seen[r])
      /\ seen' = [seen EXCEPT ![r] = @ \cup {new.value}]
  BY DEF Replicas!Write
<1>2. Len(written) \in Nat /\ N \in Nat \ {0} /\ N \notin Writes
  BY <1>0, WriteParts DEF Writes
<1>3. /\ m \in Clocks
      /\ \A v \in HeldAt(r) : Leq(v.clock, m)
      /\ \A n \in Nodes : m[n] = 0 \/ \E v \in HeldAt(r) : m[n] = v.clock[n]
  <2>1. versions[r] \in Seq(Versions)
    BY <1>0 DEF ReplicasTypeOK
  <2>2. /\ m \in Clocks
        /\ \A i \in DOMAIN versions[r] : Leq(versions[r][i].clock, m)
        /\ \A n \in Nodes :
             m[n] = 0 \/ \E i \in DOMAIN versions[r] : m[n] = versions[r][i].clock[n]
    BY <2>1, MergeAllIsMaximum
  <2> HIDE DEF m
  <2> QED BY <2>2 DEF HeldAt
<1>4. /\ c \in Clocks /\ c[r] = m[r] + 1 /\ \A n \in Nodes : n # r => c[n] = m[n]
      /\ \A n \in Nodes : m[n] \in Nat /\ c[n] \in Nat
      /\ Leq(m, c)
  <2> HIDE DEF m
  <2> QED BY <1>3 DEF Replicas!Increment, Clocks, Leq
<1>5. new \in Versions /\ new.value = N /\ new.clock = c
  <2> HIDE DEF c, N
  <2> QED BY <1>2, <1>4 DEF Versions
<1>6. seen[r] \subseteq Writes
  BY <1>0, WriteParts
<1>7. /\ written' \in Seq(Versions) /\ Len(written') = N /\ written'[N] = new
      /\ \A w \in Writes : written'[w] = written[w]
  <2>1. written \in Seq(Versions)
    BY <1>0 DEF ReplicasTypeOK
  <2> HIDE DEF new
  <2> QED BY <1>1, <1>5, <2>1 DEF Writes
<1>8. /\ past' \in Seq(SUBSET Nat) /\ Len(past') = N /\ past'[N] = seen[r]
      /\ \A w \in Writes : past'[w] = past[w]
  <2>1. past \in Seq(SUBSET Nat) /\ Len(past) = Len(written) /\ seen[r] \in SUBSET Nat
    BY <1>0, <1>6 DEF ReplicasTypeOK, Writes
  <2> QED BY <1>1, <2>1 DEF Writes
<1>9. Writes' = Writes \cup {N} /\ Writes' = 1 .. N /\ Writes = 1 .. (N - 1)
  BY <1>2, <1>7 DEF Writes
<1>10. /\ seen' \in [Nodes -> SUBSET Writes'] /\ seen'[r] = seen[r] \cup {N}
       /\ \A q \in Nodes : q # r => seen'[q] = seen[q]
  <2>1. seen \in [Nodes -> SUBSET Writes]
    BY <1>0 DEF ReplicasTypeOK
  <2>2. seen' = [seen EXCEPT ![r] = @ \cup {N}]
    BY <1>1, <1>5
  <2> HIDE DEF N
  <2> QED BY <1>9, <2>1, <2>2
<1>11. /\ versions' \in [Nodes -> Seq(Versions)] /\ versions'[r] = <<new>>
       /\ \A q \in Nodes : q # r => versions'[q] = versions[q]
  <2>1. versions \in [Nodes -> Seq(Versions)] /\ <<new>> \in Seq(Versions)
    BY <1>0, <1>5 DEF ReplicasTypeOK
  <2> HIDE DEF new
  <2> QED BY <1>1, <2>1
<1>12. HeldAt(r)' = {new} /\ \A q \in Nodes : q # r => HeldAt(q)' = HeldAt(q)
  <2> HIDE DEF new
  <2> QED BY <1>11 DEF HeldAt
<1> HIDE DEF N, new, c, m
<1>13. \A x \in seen[r] : Leq(written[x].clock, m) /\ Leq(written[x].clock, c)
  <2> SUFFICES ASSUME NEW x \in seen[r] PROVE Leq(written[x].clock, m) /\ Leq(written[x].clock, c)
    OBVIOUS
  <2>1. PICK v \in HeldAt(r) : Leq(written[x].clock, v.clock)
    BY <1>0 DEF SeenInv
  <2>2. x \in Writes
    BY <1>6
  <2>3. v.clock \in Clocks /\ written[x].clock \in Clocks
    BY <1>0, <2>2, WriteParts
  <2>4. Leq(written[x].clock, m)
    BY <1>3, <2>1, <2>3, LeqOrder
  <2> QED BY <1>3, <1>4, <2>3, <2>4, LeqOrder
<1>14. \A w \in Writes : written[w].clock[r] <= m[r] /\ written[w].clock[r] \in Nat
  <2> SUFFICES ASSUME NEW w \in Writes PROVE written[w].clock[r] <= m[r] /\ written[w].clock[r] \in Nat
    OBVIOUS
  <2>1. written[w].clock[r] \in Nat /\ m[r] \in Nat
    BY <1>0, <1>4, WriteParts
  <2>2. CASE written[w].clock[r] = 0
    BY <2>1, <2>2
  <2>3. ASSUME NEW v \in HeldAt(r), written[w].clock[r] <= v.clock[r]
        PROVE  written[w].clock[r] <= m[r]
    <3>1. v.clock[r] \in Nat /\ v.clock[r] <= m[r]
      BY <1>0, <1>3, WriteParts DEF Leq, Clocks
    <3> QED BY <2>1, <2>3, <3>1
  <2> QED BY <1>0, <2>1, <2>2, <2>3 DEF SeenInv
<1>15. ASSUME NEW n \in Nodes, m[n] # 0
       PROVE  \E x \in seen[r] : m[n] = written[x].clock[n]
  <2>1. PICK v \in HeldAt(r) : m[n] = v.clock[n]
    BY <1>3, <1>15
  <2>2. v.value \in seen[r] /\ v = written[v.value]
    BY <1>0 DEF ReplicasTypeOK
  <2> QED BY <2>1, <2>2
<1>16. ASSUME NEW w \in Writes, NEW n \in Nodes, NEW k \in Nat
       PROVE  Origin(w, n, k)' <=> Origin(w, n, k)
  <2>1. past[w] \subseteq Writes
    BY <1>0, WriteParts
  <2> QED BY <1>7, <1>8, <2>1 DEF Origin
<1>17. \A x \in seen[r] : written'[x] = written[x] /\ past'[x] = past[x]
  BY <1>6, <1>7, <1>8
<1>18. ASSUME NEW w \in Writes', w = N, NEW n \in Nodes, NEW k \in Nat \ {0}
       PROVE  Origin(w, n, k)' <=> n = r /\ k = m[r] + 1
  <2>1. Origin(w, n, k)' <=> c[n] = k /\ \A x \in seen[r] : written[x].clock[n] < k
    BY <1>5, <1>7, <1>8, <1>17, <1>18 DEF Origin
  <2>2. CASE n = r
    <3>1. \A x \in seen[r] : written[x].clock[n] < m[r] + 1
      BY <1>4, <1>6, <1>14, <2>2
    <3> QED BY <1>4, <2>1, <2>2, <3>1
  <2>3. CASE n # r
    <3>1. SUFFICES ASSUME c[n] = k, \A x \in seen[r] : written[x].clock[n] < k PROVE FALSE
      BY <2>1, <2>3
    <3>2. m[n] = k
      BY <1>4, <2>3, <3>1
    <3>3. PICK x \in seen[r] : k = written[x].clock[n]
      BY <1>15, <3>2
    <3>4. k < k
      BY <3>1, <3>3
    <3> QED BY <3>4
  <2> QED BY <2>2, <2>3
<1>19. ReplicasTypeOK'
  <2>1. \A w \in Writes' : written'[w].value = w /\ past'[w] \subseteq 1 .. (w - 1)
    <3>1. \A w \in Writes : written[w].value = w /\ past[w] \subseteq 1 .. (w - 1)
      BY <1>0 DEF ReplicasTypeOK
    <3> QED BY <1>5, <1>6, <1>7, <1>8, <1>9, <3>1
  <2>2. ASSUME NEW q \in Nodes, NEW v \in HeldAt(q)'
        PROVE  v.value \in seen'[q] /\ v = written'[v.value]
    <3>1. CASE q = r
      BY <1>5, <1>7, <1>10, <1>12, <2>2, <3>1
    <3>2. CASE q # r
      <4>1. v.value \in seen[q] /\ v = written[v.value] /\ v.value \in Writes
        BY <1>0, <1>12, <2>2, <3>2, WriteParts DEF ReplicasTypeOK
      <4> QED BY <1>7, <1>10, <3>2, <4>1
    <3> QED BY <3>1, <3>2
  <2> QED BY <1>7, <1>8, <1>10, <1>11, <2>1, <2>2 DEF ReplicasTypeOK
<1>20. PastInv'
  <2>1. ASSUME NEW w \in Writes', NEW x \in past'[w]
        PROVE  past'[x] \subseteq past'[w] /\ Leq(written'[x].clock, written'[w].clock)
    <3>1. CASE w \in Writes
      <4>1. x \in past[w] /\ x \in Writes
        BY <1>0, <1>8, <2>1, <3>1, WriteParts
      <4> QED BY <1>0, <1>7, <1>8, <3>1, <4>1 DEF PastInv
    <3>2. CASE w = N
      <4>1. x \in seen[r]
        BY <1>8, <2>1, <3>2
      <4>2. past[x] \subseteq seen[r]
        BY <1>0, <4>1 DEF SeenInv
      <4> QED BY <1>5, <1>7, <1>8, <1>13, <1>17, <3>2, <4>1, <4>2
    <3> QED BY <1>9, <3>1, <3>2
  <2>2. ASSUME NEW w \in Writes', NEW n \in Nodes, NEW k \in 1 .. written'[w].clock[n]
        PROVE  \E v \in past'[w] \cup {w} : Origin(v, n, k)'
    <3>0. written'[w].clock[n] \in Nat
      BY <1>0, <1>4, <1>5, <1>7, <1>9, WriteParts
    <3>1. k \in Nat \ {0} /\ k <= written'[w].clock[n]
      BY <3>0
    <3>2. ASSUME NEW x \in Writes, k <= written[x].clock[n]
          PROVE  \E v \in past[x] \cup {x} : Origin(v, n, k)'
      <4>1. k \in 1 .. written[x].clock[n]
        BY <1>0, <3>1, <3>2, WriteParts
      <4>2. PICK v \in past[x] \cup {x} : Origin(v, n, k)
        BY <1>0, <4>1 DEF PastInv
      <4>3. v \in Writes
        BY <1>0, WriteParts
      <4> QED BY <1>16, <3>1, <4>2, <4>3
    <3>3. CASE w \in Writes
      BY <1>7, <1>8, <3>1, <3>2, <3>3
    <3>4. CASE w = N
      <4>1. k <= c[n]
        BY <1>5, <1>7, <3>1, <3>4
      <4>2. CASE n = r /\ k = m[r] + 1
        BY <1>18, <3>1, <3>4, <4>2
      <4>3. CASE ~ (n = r /\ k = m[r] + 1)
        <5>1. k <= m[n] /\ m[n] # 0
          BY <1>4, <3>1, <4>1, <4>3
        <5>2. PICK x \in seen[r] : m[n] = written[x].clock[n]
          BY <1>15, <5>1
        <5>3. PICK v \in past[x] \cup {x} : Origin(v, n, k)'
          BY <1>6, <3>2, <5>1, <5>2
        <5>4. v \in seen[r]
          BY <1>0 DEF SeenInv
        <5> QED BY <1>8, <3>4, <5>3, <5>4
      <4> QED BY <4>2, <4>3
    <3> QED BY <1>9, <3>3, <3>4
  <2>3. ASSUME NEW v \in Writes', NEW w \in Writes', NEW n \in Nodes, NEW k \in Nat \ {0},
               Origin(v, n, k)', Origin(w, n, k)'
        PROVE  v = w
    <3>1. CASE v \in Writes /\ w \in Writes
      BY <1>0, <1>16, <2>3, <3>1 DEF PastInv
    <3>2. ASSUME NEW x \in Writes, NEW y \in Writes', y = N, Origin(x, n, k)', Origin(y, n, k)'
          PROVE  FALSE
      <4>1. n = r /\ k = m[r] + 1 /\ Origin(x, n, k)
        BY <1>16, <1>18, <3>2
      <4> QED BY <1>4, <1>14, <4>1 DEF Origin
    <3> QED BY <1>9, <2>3, <3>1, <3>2
  <2>4. ASSUME NEW w \in Writes' PROVE \E n \in Nodes, k \in Nat \ {0} : Origin(w, n, k)'
    <3>1. CASE w \in Writes
      BY <1>0, <1>16, <3>1 DEF PastInv
    <3>2. CASE w = N
      <4>1. m[r] + 1 \in Nat \ {0}
        BY <1>4
      <4> QED BY <1>18, <3>2, <4>1
    <3> QED BY <1>9, <3>1, <3>2
  <2> QED BY <2>1, <2>2, <2>3, <2>4 DEF PastInv
<1>21. SeenInv'
  <2>1. /\ \A x \in seen'[r] : past'[x] \subseteq seen'[r]
        /\ \A x \in seen'[r] : \E v \in HeldAt(r)' : Leq(written'[x].clock, v.clock)
        /\ \A u, v \in HeldAt(r)' : Leq(u.clock, v.clock) => u = v
        /\ \A w \in Writes' : written'[w].clock[r] = 0
                              \/ \E v \in HeldAt(r)' : written'[w].clock[r] <= v.clock[r]
    <3>1. \A x \in seen'[r] : past'[x] \subseteq seen'[r]
      BY <1>0, <1>8, <1>10, <1>17 DEF SeenInv
    <3>2. \A x \in seen'[r] : Leq(written'[x].clock, c)
      BY <1>4, <1>5, <1>7, <1>10, <1>13, <1>17, LeqOrder
    <3>3. \A w \in Writes' : written'[w].clock[r] <= c[r]
      <4>1. \A w \in Writes : written'[w].clock[r] <= c[r]
        BY <1>4, <1>7, <1>14
      <4>2. written'[N].clock[r] <= c[r]
        BY <1>4, <1>5, <1>7
      <4> QED BY <1>9, <4>1, <4>2
    <3> QED BY <1>5, <1>12, <3>1, <3>2, <3>3
  <2>2. ASSUME NEW q \in Nodes, q # r
        PROVE  /\ \A x \in seen'[q] : past'[x] \subseteq seen'[q]
               /\ \A x \in seen'[q] : \E v \in HeldAt(q)' : Leq(written'[x].clock, v.clock)
               /\ \A u, v \in HeldAt(q)' : Leq(u.clock, v.clock) => u = v
               /\ \A w \in Writes' : written'[w].clock[q] = 0
                                     \/ \E v \in HeldAt(q)' : written'[w].clock[q] <= v.clock[q]
    <3>1. seen'[q] = seen[q] /\ HeldAt(q)' = HeldAt(q) /\ seen[q] \subseteq Writes
      BY <1>0, <1>10, <1>12, <2>2, WriteParts
    <3>2. \A x \in seen[q] : written'[x] = written[x] /\ past'[x] = past[x]
      BY <1>7, <1>8, <3>1
    <3>3. \A w \in Writes : written'[w].clock[q] = 0
                            \/ \E v \in HeldAt(q)' : written'[w].clock[q] <= v.clock[q]
      BY <1>0, <1>7, <3>1 DEF SeenInv
    <3>4. written'[N].clock[q] = 0 \/ \E v \in HeldAt(q)' : written'[N].clock[q] <= v.clock[q]
      <4>1. written'[N].clock[q] = m[q]
        BY <1>4, <1>5, <1>7, <2>2
      <4>2. CASE m[q] = 0
        BY <4>1, <4>2
      <4>3. CASE m[q] # 0
        <5>1. PICK x \in seen[r] : m[q] = written[x].clock[q]
          BY <1>15, <4>3
        <5>2. x \in Writes
          BY <1>6
        <5> QED BY <1>0, <3>1, <4>1, <4>3, <5>1, <5>2 DEF SeenInv
      <4> QED BY <4>2, <4>3
    <3>5. \A w \in Writes' : written'[w].clock[q] = 0
                             \/ \E v \in HeldAt(q)' : written'[w].clock[q] <= v.clock[q]
      BY <1>9, <3>3, <3>4
    <3> QED BY <1>0, <3>1, <3>2, <3>5 DEF SeenInv
  <2> QED BY <2>1, <2>2 DEF SeenInv
<1> QED BY <1>19, <1>20, <1>21 DEF ReplicasInv

LEMMA ReplicasKept == Spec => []ReplicasInv
<1>1. Init => ReplicasInv
  <2> SUFFICES ASSUME Init PROVE ReplicasInv
    OBVIOUS
  <2>1. versions = [n \in Nodes |-> <<>>] /\ written = <<>> /\ past = <<>> /\ seen = [n \in Nodes |-> {}]
    BY DEF Init, Start, Replicas!Init
  <2>2. Writes = {} /\ Len(written) = 0 /\ Len(past) = 0 /\ \A r \in Nodes : HeldAt(r) = {}
    BY <2>1 DEF Writes, HeldAt
  <2>3. ReplicasTypeOK
    BY <2>1, <2>2 DEF ReplicasTypeOK
  <2>4. PastInv /\ SeenInv
    BY <2>1, <2>2 DEF PastInv, SeenInv
  <2> QED BY <2>3, <2>4 DEF ReplicasInv
<1>2. ReplicasInv /\ [Next]_vars => ReplicasInv'
  <2> SUFFICES ASSUME ReplicasInv, [Next]_vars PROVE ReplicasInv'
    OBVIOUS
  <2>1. CASE UNCHANGED replicaVars
    <3>1. UNCHANGED <<versions, written, past, seen>>
      BY <2>1 DEF replicaVars
    <3>2. Writes' = Writes /\ \A r \in Nodes : HeldAt(r)' = HeldAt(r)
      BY <3>1 DEF Writes, HeldAt
    <3>3. ReplicasTypeOK'
      BY <3>1, <3>2 DEF ReplicasInv, ReplicasTypeOK
    <3>4. PastInv'
      BY <3>1, <3>2 DEF ReplicasInv, PastInv, Origin
    <3>5. SeenInv'
      BY <3>1, <3>2 DEF ReplicasInv, SeenInv
    <3> QED BY <3>3, <3>4, <3>5 DEF ReplicasInv
  <2>2. CASE ReplicaStep
    BY <2>2, WriteStep, ReceiveStep DEF ReplicaStep, Replicas!Next, Writes
  <2> QED BY <2>1, <2>2 DEF Next, IdStep, RingStep, GeoStep, vars
<1> QED BY <1>1, <1>2, PTL DEF Spec

\* Cluster.ClockIsCausality (clock.go:8-11) for any nodes and any number of writes: two
\* clocks compare as the writes they stamp follow one another, or as concurrent.
THEOREM ClocksAreCausal == Spec => []ClockIsCausality
BY ReplicasKept, ClocksTellCausality, PTL

\* Cluster.HoldsTheFrontier (clock.go:168-169) for any nodes and messages in any order, any
\* number of times or never: a replica holds the latest of what it has heard of, no less
\* and no more.
THEOREM ReplicasHoldTheFrontier == Spec => []HoldsTheFrontier
BY ReplicasKept, HeldIsFrontier, PTL

-----------------------------------------------------------------------------
(* Ids.                                                                    *)

Slots == 0 .. (Machines - 1)
Numbers == 0 .. maxSequence
Stamps == [machine : Slots, at : Nat, id : Nat]

\* The sequence number in an id.
NumberIn(id) == id % (maxSequence + 1)

IdsTypeOK ==
    /\ clock \in [Slots -> Nat]
    /\ sequence \in [Slots -> Numbers]
    /\ lastMilli \in [Slots -> Int]
    /\ pc \in [Slots -> {"idle", "waiting", "spinning"}]
    /\ floor \in [Slots -> Int]
    /\ rewound \in BOOLEAN
    /\ issued \in Seq(Stamps)

\* An issued id is made of its machine, its time and a number.
PackedInv ==
    \A i \in 1 .. Len(issued) :
        LET d == issued[i] IN
        d.at >= Epoch /\ d.id = Generators!Pack(d.at - Epoch, d.machine, NumberIn(d.id))

\* What was issued d is behind its machine's generator, or behind the one before.
Behind(d) ==
    LET m == d.machine IN
    \/ d.at <= floor[m]
    \/ d.at < lastMilli[m]
    \/ d.at = lastMilli[m] /\ (NumberIn(d.id) <= sequence[m] \/ pc[m] = "spinning")

BehindInv == \A i \in 1 .. Len(issued) : Behind(issued[i])

UniqueInv ==
    ~ rewound =>
        /\ \A m \in Slots : clock[m] > floor[m]
        /\ \A i, j \in 1 .. Len(issued) : issued[i].id = issued[j].id => i = j

IdsInv == IdsTypeOK /\ PackedInv /\ BehindInv /\ UniqueInv

LEMMA GeneratorConstants ==
    /\ Machines \in Nat \ {0} /\ maxSequence \in Nat /\ Epoch \in Nat
    /\ TimestampLimit \in Nat \ {0} /\ MaxMilli \in Nat
    /\ Generators!MachineIds = Slots
BY Assumptions DEF Generators!SnowflakeAssumption, Generators!MachineIds, Slots

LEMMA DivMod ==
    ASSUME NEW q \in Nat, NEW d \in Nat \ {0}, NEW e \in 0 .. (d - 1)
    PROVE  (q * d + e) % d = e /\ (q * d + e) \div d = q
<1>1. (q * d + e) % d = e
  OBVIOUS
<1>2. (q * d + e) \div d = q
  OBVIOUS
<1> QED BY <1>1, <1>2

\* The fields do not borrow from each other: Parse is the inverse of Pack.
LEMMA PackParses ==
    ASSUME NEW e \in Nat, NEW m \in Slots, NEW s \in Numbers
    PROVE  LET id == Generators!Pack(e, m, s) IN
           /\ id \in Nat /\ NumberIn(id) = s
           /\ Generators!Parse(id).machineID = m /\ Generators!Parse(id).ts = e + Epoch
<1> DEFINE K == maxSequence + 1
           M == Machines
           x == e * M + m
           id == x * K + s
<1>1. K \in Nat \ {0} /\ M \in Nat \ {0} /\ m \in 0 .. (M - 1) /\ m \in Nat /\ s \in 0 .. (K - 1)
  BY GeneratorConstants DEF Slots, Numbers
<1>2. Generators!Pack(e, m, s) = id
  BY DEF Generators!Pack
<1>3. /\ Generators!Parse(id).machineID = (id \div K) % M
      /\ Generators!Parse(id).ts = (id \div (K * M)) + Epoch
      /\ NumberIn(id) = id % K
  <2> HIDE DEF id
  <2> QED BY DEF Generators!Parse, NumberIn
<1> HIDE DEF K, M
<1>4. e * M \in Nat
  BY <1>1
<1>5. x \in Nat
  BY <1>1, <1>4
<1>6. x % M = m
  BY <1>1, DivMod
<1>7. x * K \in Nat
  <2> HIDE DEF x
  <2> QED BY <1>1, <1>5
<1>8. id \in Nat
  <2> HIDE DEF x
  <2> QED BY <1>1, <1>7
<1>9. id % K = s /\ id \div K = x
  <2> HIDE DEF x
  <2> QED BY <1>1, <1>5, DivMod
<1>10. id \div (K * M) = e
  <2> DEFINE y == m * K + s
             Q == K * M
  <2>1. id = e * Q + y
    <3>1. e * (K * M) = (e * M) * K
      BY <1>1
    <3>2. (e * M + m) * K = (e * M) * K + m * K
      BY <1>1, <1>4
    <3> QED BY <1>1, <1>4, <3>1, <3>2
  <2>2. Q \in Nat \ {0}
    BY <1>1
  <2>3. y \in 0 .. (Q - 1)
    <3>1. m * K \in Nat /\ m * K <= (M - 1) * K
      BY <1>1
    <3>2. (M - 1) * K = Q - K
      BY <1>1
    <3> HIDE DEF Q
    <3> QED BY <1>1, <2>2, <3>1, <3>2
  <2> HIDE DEF y, Q, id
  <2>4. (e * Q + y) \div Q = e
    BY <2>2, <2>3, DivMod
  <2> QED BY <2>1, <2>4 DEF Q
<1> HIDE DEF id, x
<1> QED BY <1>2, <1>3, <1>6, <1>8, <1>9, <1>10

\* The end of a call with a time or a number that its generator has not used.
LEMMA EmitStep ==
    ASSUME IdsInv, NEW m \in Slots, NEW s \in Numbers,
           Generators!Emit(m, clock[m], s),
           \/ clock[m] > lastMilli[m]
           \/ clock[m] = lastMilli[m] /\ s = sequence[m] + 1 /\ pc[m] # "spinning"
    PROVE  IdsInv'
<1> DEFINE now == clock[m]
           e == now - Epoch
           d == [machine |-> m, at |-> now, id |-> Generators!Pack(e, m, s)]
           n == Len(issued)
           out == e < 0 \/ e >= TimestampLimit
<1>0. IdsTypeOK /\ PackedInv /\ BehindInv /\ UniqueInv
  BY DEF IdsInv
<1>1. /\ sequence' = [sequence EXCEPT ![m] = s]
      /\ lastMilli' = [lastMilli EXCEPT ![m] = now]
      /\ pc' = [pc EXCEPT ![m] = "idle"]
      /\ issued' = IF out THEN issued ELSE Append(issued, d)
      /\ UNCHANGED <<clock, floor, rewound>>
  BY DEF Generators!Emit, Generators!history
<1>2. now \in Nat /\ e \in Int /\ n \in Nat /\ TimestampLimit \in Nat /\ Epoch \in Nat
  BY <1>0, GeneratorConstants DEF IdsTypeOK
<1>3. ~ out => /\ e \in Nat /\ d \in Stamps /\ NumberIn(d.id) = s
               /\ Generators!Parse(d.id).machineID = m /\ Generators!Parse(d.id).ts = now
               /\ d.machine = m /\ d.at = now /\ d.id = Generators!Pack(e, m, s)
  <2> SUFFICES ASSUME ~ out
               PROVE  /\ e \in Nat /\ d \in Stamps /\ NumberIn(d.id) = s
                      /\ Generators!Parse(d.id).machineID = m /\ Generators!Parse(d.id).ts = now
                      /\ d.machine = m /\ d.at = now /\ d.id = Generators!Pack(e, m, s)
    OBVIOUS
  <2>1. e \in Nat /\ e + Epoch = now
    BY <1>2
  <2> DEFINE id == Generators!Pack(e, m, s)
  <2>2. id \in Nat /\ NumberIn(id) = s /\ Generators!Parse(id).machineID = m
        /\ Generators!Parse(id).ts = e + Epoch
    <3> HIDE DEF e
    <3> QED BY <2>1, PackParses
  <2> HIDE DEF id, e
  <2> QED BY <1>2, <2>1, <2>2 DEF Stamps, id
<1> DEFINE Old == 1 .. n
<1>4. /\ issued' \in Seq(Stamps)
      /\ \A i \in Old : issued'[i] = issued[i] /\ issued[i] \in Stamps
      /\ out => Len(issued') = n
      /\ ~ out => Len(issued') = n + 1 /\ issued'[n + 1] = d
  <2>1. issued \in Seq(Stamps)
    BY <1>0 DEF IdsTypeOK
  <2> HIDE DEF d, out
  <2> QED BY <1>1, <1>3, <2>1
<1>5. \A i \in 1 .. Len(issued') : i \in Old \/ (~ out /\ i = n + 1)
  <2> HIDE DEF out
  <2> QED BY <1>2, <1>4
<1>6. \A i \in Old : issued[i].machine \in Slots /\ issued[i].at \in Nat
                     /\ issued[i].id \in Nat /\ NumberIn(issued[i].id) \in Int
  <2>1. \A x \in Stamps : x.machine \in Slots /\ x.at \in Nat /\ x.id \in Nat
    BY DEF Stamps
  <2>2. \A x \in Nat : NumberIn(x) \in Int
    BY GeneratorConstants DEF NumberIn
  <2> HIDE DEF Old
  <2> QED BY <1>4, <2>1, <2>2
<1>7. IdsTypeOK'
  <2>1. /\ sequence' \in [Slots -> Numbers] /\ lastMilli' \in [Slots -> Int]
        /\ pc' \in [Slots -> {"idle", "waiting", "spinning"}]
    BY <1>0, <1>1, <1>2 DEF IdsTypeOK
  <2> QED BY <1>0, <1>1, <1>4, <2>1 DEF IdsTypeOK
<1>8. PackedInv'
  <2> SUFFICES ASSUME NEW i \in 1 .. Len(issued')
               PROVE  /\ issued'[i].at >= Epoch
                      /\ issued'[i].id = Generators!Pack(issued'[i].at - Epoch, issued'[i].machine,
                                                         NumberIn(issued'[i].id))
    BY DEF PackedInv
  <2>1. CASE i \in Old
    BY <1>0, <1>4, <2>1 DEF PackedInv
  <2>2. CASE ~ out /\ i = n + 1
    <3>1. issued'[i] = d /\ now >= Epoch
      BY <1>2, <1>3, <1>4, <2>2
    <3> HIDE DEF d
    <3> QED BY <1>3, <2>2, <3>1
  <2> QED BY <1>5, <2>1, <2>2
<1>9. /\ sequence'[m] = s /\ lastMilli'[m] = now /\ pc'[m] = "idle"
      /\ \A q \in Slots : q # m =>
            sequence'[q] = sequence[q] /\ lastMilli'[q] = lastMilli[q] /\ pc'[q] = pc[q]
  BY <1>0, <1>1 DEF IdsTypeOK
\* Nothing that was issued is at the time and the number of the new id.
<1>10. ASSUME NEW i \in Old, issued[i].machine = m
       PROVE  \/ issued[i].at <= floor[m] \/ issued[i].at < now
              \/ issued[i].at = now /\ NumberIn(issued[i].id) < s
  <2>1. Behind(issued[i])
    BY <1>0 DEF BehindInv
  <2>2. lastMilli[m] \in Int /\ sequence[m] \in Int /\ s \in Int
    BY <1>0, GeneratorConstants DEF IdsTypeOK, Numbers
  <2> HIDE DEF Old
  <2> QED BY <1>2, <1>6, <1>10, <2>1, <2>2, SMTT(20) DEF Behind
<1>11. BehindInv'
  <2> SUFFICES ASSUME NEW i \in 1 .. Len(issued') PROVE Behind(issued[i])'
    BY DEF BehindInv
  <2>0. s \in Int
    BY GeneratorConstants DEF Numbers
  <2>1. CASE i \in Old
    <3>1. issued'[i] = issued[i] /\ Behind(issued[i])
      BY <1>0, <1>4, <2>1 DEF BehindInv
    <3>2. CASE issued[i].machine = m
      <4>1. NumberIn(issued[i].id) \in Int
        BY <1>6, <2>1
      <4> HIDE DEF Old
      <4> QED BY <1>1, <1>9, <1>10, <2>0, <2>1, <3>1, <3>2, <4>1 DEF Behind
    <3>3. CASE issued[i].machine # m
      BY <1>1, <1>6, <1>9, <2>1, <3>1, <3>3 DEF Behind
    <3> QED BY <3>2, <3>3
  <2>2. CASE ~ out /\ i = n + 1
    <3>1. issued'[i] = d
      BY <1>4, <2>2
    <3>2. d.machine = m /\ d.at = now /\ NumberIn(d.id) = s
      BY <1>3, <2>2
    <3> HIDE DEF d, now
    <3> QED BY <1>9, <2>0, <3>1, <3>2 DEF Behind
  <2> QED BY <1>5, <2>1, <2>2
<1>12. UniqueInv'
  <2> SUFFICES ASSUME ~ rewound
               PROVE  /\ \A q \in Slots : clock[q] > floor[q]
                      /\ \A i, j \in 1 .. Len(issued') : issued'[i].id = issued'[j].id => i = j
    BY <1>1 DEF UniqueInv
  <2>1. /\ \A q \in Slots : clock[q] > floor[q]
        /\ \A i, j \in Old : issued[i].id = issued[j].id => i = j
    BY <1>0 DEF UniqueInv
  <2>2. ASSUME NEW i \in Old, ~ out, issued[i].id = d.id PROVE FALSE
    <3>1. /\ issued[i].at >= Epoch
          /\ issued[i].id = Generators!Pack(issued[i].at - Epoch, issued[i].machine,
                                            NumberIn(issued[i].id))
      BY <1>0 DEF PackedInv
    <3>2. issued[i].at - Epoch \in Nat /\ (issued[i].at - Epoch) + Epoch = issued[i].at
      BY <1>2, <1>6, <3>1
    <3>3. NumberIn(issued[i].id) \in Numbers
      BY <1>3, <2>2
    <3>4. /\ Generators!Parse(issued[i].id).machineID = issued[i].machine
          /\ Generators!Parse(issued[i].id).ts = issued[i].at
      <4> DEFINE a == issued[i].at - Epoch
                 q == issued[i].machine
                 k == NumberIn(issued[i].id)
      <4>1. a \in Nat /\ q \in Slots /\ k \in Numbers /\ issued[i].id = Generators!Pack(a, q, k)
            /\ a + Epoch = issued[i].at
        BY <1>6, <3>1, <3>2, <3>3
      <4> HIDE DEF a, k
      <4>2. /\ Generators!Parse(Generators!Pack(a, q, k)).machineID = q
            /\ Generators!Parse(Generators!Pack(a, q, k)).ts = a + Epoch
        <5> HIDE DEF q
        <5> QED BY <4>1, PackParses
      <4> QED BY <4>1, <4>2
    <3>5. issued[i].machine = m /\ issued[i].at = now /\ NumberIn(issued[i].id) = s
      <4> HIDE DEF out, d
      <4> QED BY <1>3, <2>2, <3>4
    <3>6. clock[m] > floor[m] /\ floor[m] \in Int
      BY <1>0, <2>1 DEF IdsTypeOK
    <3>7. s \in Int
      BY GeneratorConstants DEF Numbers
    <3> HIDE DEF Old
    <3> QED BY <1>2, <1>10, <3>5, <3>6, <3>7
  <2>3. ASSUME NEW i \in 1 .. Len(issued'), NEW j \in 1 .. Len(issued'),
               issued'[i].id = issued'[j].id
        PROVE  i = j
    <3>1. CASE i \in Old /\ j \in Old
      BY <1>4, <2>1, <2>3, <3>1
    <3>2. CASE i \in Old /\ ~ out /\ j = n + 1
      <4> HIDE DEF d, out
      <4> QED BY <1>4, <2>2, <2>3, <3>2
    <3>3. CASE j \in Old /\ ~ out /\ i = n + 1
      <4> HIDE DEF d, out
      <4> QED BY <1>4, <2>2, <2>3, <3>3
    <3> HIDE DEF out, d, Old
    <3> QED BY <1>5, <3>1, <3>2, <3>3
  <2> QED BY <2>1, <2>3
<1> QED BY <1>7, <1>8, <1>11, <1>12 DEF IdsInv

\* A call that returns no id.
LEMMA NoIdStep ==
    ASSUME IdsInv, NEW m \in Slots,
           Generators!Refuse(m) \/ Generators!Wait(m) \/ Generators!Exhaust(m)
    PROVE  IdsInv'
<1>0. IdsTypeOK /\ PackedInv /\ BehindInv /\ UniqueInv
  BY DEF IdsInv
<1>1. CASE Generators!Refuse(m)
  <2>1. UNCHANGED <<clock, sequence, lastMilli, pc, issued, floor, rewound>>
    BY <1>1 DEF Generators!Refuse, Generators!vars, Generators!gen, Generators!history
  <2> QED BY <1>0, <2>1 DEF IdsInv, IdsTypeOK, PackedInv, BehindInv, Behind, UniqueInv
<1>2. CASE Generators!Wait(m) \/ Generators!Exhaust(m)
  <2>1. /\ UNCHANGED <<clock, lastMilli, issued, floor, rewound>>
        /\ \/ pc[m] = "idle" /\ pc' = [pc EXCEPT ![m] = "waiting"] /\ UNCHANGED sequence
           \/ pc' = [pc EXCEPT ![m] = "spinning"] /\ sequence' = [sequence EXCEPT ![m] = 0]
    BY <1>2 DEF Generators!Wait, Generators!Exhaust, Generators!history
  <2>2. 0 \in Numbers
    BY GeneratorConstants DEF Numbers
  <2>3. IdsTypeOK'
    BY <1>0, <2>1, <2>2 DEF IdsTypeOK
  <2>4. \A q \in Slots : pc'[q] = "spinning"
                         \/ (sequence'[q] = sequence[q] /\ (pc[q] = "spinning" => pc'[q] = "spinning"))
    BY <1>0, <2>1 DEF IdsTypeOK
  <2>5. BehindInv'
    <3> SUFFICES ASSUME NEW i \in 1 .. Len(issued) PROVE Behind(issued[i])'
      BY <2>1 DEF BehindInv
    <3>1. issued[i] \in Stamps
      BY <1>0 DEF IdsTypeOK
    <3>2. issued[i].machine \in Slots
      BY <3>1 DEF Stamps
    <3> QED BY <1>0, <2>1, <2>4, <3>2 DEF BehindInv, Behind
  <2>6. PackedInv' /\ UniqueInv'
    BY <1>0, <2>1 DEF PackedInv, UniqueInv
  <2> QED BY <2>3, <2>5, <2>6 DEF IdsInv
<1> QED BY <1>1, <1>2

\* A clock moves, or a process restarts and its clock moved meanwhile.
LEMMA ClockStep ==
    ASSUME IdsInv, NEW m \in Slots,
           Generators!Tick(m) \/ Generators!StepBack(m) \/ Generators!NewGenerator(m)
    PROVE  IdsInv'
<1>0. IdsTypeOK /\ PackedInv /\ BehindInv /\ UniqueInv
  BY DEF IdsInv
<1>1. \E t \in Nat : Generators!SetClock(m, t)
  <2>1. clock[m] \in Nat
    BY <1>0 DEF IdsTypeOK
  <2>2. CASE Generators!Tick(m)
    BY <2>1, <2>2 DEF Generators!Tick
  <2>3. CASE Generators!StepBack(m)
    <3>1. PICK t \in 0 .. (clock[m] - 1) : Generators!SetClock(m, t)
      BY <2>3 DEF Generators!StepBack
    <3>2. t \in Nat
      BY <2>1
    <3> QED BY <3>1, <3>2
  <2>4. CASE Generators!NewGenerator(m)
    BY <2>1, <2>4 DEF Generators!NewGenerator
  <2> QED BY <2>2, <2>3, <2>4
<1>2. PICK t \in Nat : /\ clock' = [clock EXCEPT ![m] = t]
                       /\ rewound' = (rewound \/ t <= floor'[m])
  BY <1>1 DEF Generators!SetClock
<1>3. issued' = issued
  BY DEF Generators!Tick, Generators!StepBack, Generators!NewGenerator
<1>4. \A i \in 1 .. Len(issued) : issued[i].machine \in Slots /\ issued[i].at \in Nat
  <2>1. \A x \in Stamps : x.machine \in Slots /\ x.at \in Nat
    BY DEF Stamps
  <2> QED BY <1>0, <2>1 DEF IdsTypeOK
<1>5. /\ sequence' \in [Slots -> Numbers] /\ lastMilli' \in [Slots -> Int]
      /\ pc' \in [Slots -> {"idle", "waiting", "spinning"}] /\ floor' \in [Slots -> Int]
      /\ \A q \in Slots : q # m => floor'[q] = floor[q]
      /\ \A i \in 1 .. Len(issued) : Behind(issued[i])'
  <2>1. CASE Generators!Tick(m) \/ Generators!StepBack(m)
    <3>1. UNCHANGED <<sequence, lastMilli, pc, floor>>
      BY <2>1 DEF Generators!Tick, Generators!StepBack, Generators!gen
    <3> QED BY <1>0, <1>3, <3>1 DEF IdsTypeOK, BehindInv, Behind
  <2>2. CASE Generators!NewGenerator(m)
    <3>1. /\ floor' = [floor EXCEPT ![m] = IF lastMilli[m] > floor[m] THEN lastMilli[m] ELSE floor[m]]
          /\ sequence' = [sequence EXCEPT ![m] = 0]
          /\ lastMilli' = [lastMilli EXCEPT ![m] = -1]
          /\ pc' = [pc EXCEPT ![m] = "idle"]
      BY <2>2 DEF Generators!NewGenerator
    <3>2. lastMilli[m] \in Int /\ floor[m] \in Int /\ 0 \in Numbers
      BY <1>0, GeneratorConstants DEF IdsTypeOK, Numbers
    <3>3. /\ sequence' \in [Slots -> Numbers] /\ lastMilli' \in [Slots -> Int]
          /\ pc' \in [Slots -> {"idle", "waiting", "spinning"}] /\ floor' \in [Slots -> Int]
      BY <1>0, <3>1, <3>2 DEF IdsTypeOK
    <3>4. /\ floor'[m] \in Int /\ floor'[m] >= floor[m] /\ floor'[m] >= lastMilli[m]
          /\ \A q \in Slots : q # m => /\ floor'[q] = floor[q] /\ lastMilli'[q] = lastMilli[q]
                                       /\ sequence'[q] = sequence[q] /\ pc'[q] = pc[q]
      BY <1>0, <3>1, <3>2 DEF IdsTypeOK
    <3>5. ASSUME NEW i \in 1 .. Len(issued) PROVE Behind(issued[i])'
      <4>1. Behind(issued[i]) /\ issued[i].machine \in Slots /\ issued[i].at \in Nat
        BY <1>0, <1>4 DEF BehindInv
      <4>2. CASE issued[i].machine = m
        <5>1. issued[i].at <= floor[m] \/ issued[i].at <= lastMilli[m]
          BY <3>2, <4>1, <4>2 DEF Behind
        <5>2. issued[i].at <= floor'[m]
          BY <3>2, <3>4, <4>1, <5>1
        <5> QED BY <1>3, <4>2, <5>2 DEF Behind
      <4>3. CASE issued[i].machine # m
        BY <1>3, <3>4, <4>1, <4>3 DEF Behind
      <4> QED BY <4>2, <4>3
    <3> QED BY <3>3, <3>4, <3>5
  <2> QED BY <2>1, <2>2
<1>6. IdsTypeOK'
  <2>1. clock' \in [Slots -> Nat] /\ rewound' \in BOOLEAN
    BY <1>0, <1>2 DEF IdsTypeOK
  <2> QED BY <1>0, <1>3, <1>5, <2>1 DEF IdsTypeOK
<1>7. UniqueInv'
  <2> SUFFICES ASSUME ~ rewound'
               PROVE  /\ \A q \in Slots : clock'[q] > floor'[q]
                      /\ \A i, j \in 1 .. Len(issued) : issued[i].id = issued[j].id => i = j
    BY <1>3 DEF UniqueInv
  <2>1. ~ rewound /\ ~ (t <= floor'[m])
    BY <1>2
  <2>2. \A q \in Slots : clock'[q] = IF q = m THEN t ELSE clock[q]
    BY <1>0, <1>2 DEF IdsTypeOK
  <2>3. ASSUME NEW q \in Slots PROVE clock'[q] > floor'[q]
    <3>1. CASE q = m
      <4>1. floor'[m] \in Int /\ clock'[q] = t
        BY <1>5, <2>2, <3>1
      <4> QED BY <2>1, <3>1, <4>1
    <3>2. CASE q # m
      <4>1. clock[q] > floor[q] /\ floor'[q] = floor[q] /\ clock'[q] = clock[q]
        BY <1>0, <1>5, <2>1, <2>2, <3>2 DEF UniqueInv
      <4> QED BY <4>1
    <3> QED BY <3>1, <3>2
  <2> QED BY <1>0, <2>1, <2>3 DEF UniqueInv
<1>8. PackedInv' /\ BehindInv'
  BY <1>0, <1>3, <1>5 DEF PackedInv, BehindInv
<1> QED BY <1>6, <1>7, <1>8 DEF IdsInv

LEMMA IdsStep == IdsInv /\ [Next]_vars => IdsInv'
<1> SUFFICES ASSUME IdsInv, [Next]_vars PROVE IdsInv'
  OBVIOUS
<1>1. CASE UNCHANGED generatorVars
  BY <1>1 DEF generatorVars, IdsInv, IdsTypeOK, PackedInv, BehindInv, Behind, UniqueInv
<1>2. CASE IdStep
  <2>1. PICK m \in Slots : \/ Generators!Call(m) \/ Generators!Tick(m)
                           \/ Generators!StepBack(m) \/ Generators!NewGenerator(m)
    BY <1>2, GeneratorConstants DEF IdStep, Generators!Next
  <2>2. 0 \in Numbers /\ (sequence[m] < maxSequence => sequence[m] + 1 \in Numbers)
    BY GeneratorConstants DEF IdsInv, IdsTypeOK, Numbers
  <2>3. CASE Generators!NewMilli(m) \/ Generators!Spin(m)
    <3>1. clock[m] > lastMilli[m] /\ Generators!Emit(m, clock[m], 0)
      BY <2>3 DEF Generators!NewMilli, Generators!Spin
    <3> QED BY <2>2, <3>1, EmitStep
  <2>4. CASE Generators!SameMilli(m)
    <3>1. /\ clock[m] = lastMilli[m] /\ sequence[m] < maxSequence /\ pc[m] # "spinning"
          /\ Generators!Emit(m, clock[m], sequence[m] + 1)
      BY <2>4 DEF Generators!SameMilli, Generators!Running
    <3> QED BY <2>2, <3>1, EmitStep
  <2> QED BY <2>1, <2>3, <2>4, NoIdStep, ClockStep DEF Generators!Call
<1> QED BY <1>1, <1>2 DEF Next, ReplicaStep, RingStep, GeoStep, vars

\* Cluster.IdsAreSound (snowflake.go:14-22) for any number of machines, any width of the
\* sequence and the timestamp and any movement of the clocks: ids are unique, but where a
\* clock showed again what a generator before the restart had used, and Parse finds the
\* machine and the time.
THEOREM IdsStaySound == Spec => []IdsAreSound
<1>1. Init => IdsInv
  <2> SUFFICES ASSUME Init PROVE IdsInv
    OBVIOUS
  <2>1. /\ clock = [m \in Slots |-> 0] /\ sequence = [m \in Slots |-> 0]
        /\ lastMilli = [m \in Slots |-> -1] /\ pc = [m \in Slots |-> "idle"]
        /\ issued = <<>> /\ floor = [m \in Slots |-> -1] /\ rewound = FALSE
    BY GeneratorConstants DEF Init, Start, Generators!Init
  <2>2. Len(issued) = 0 /\ 0 \in Numbers
    BY <2>1, GeneratorConstants DEF Numbers
  <2>3. IdsTypeOK
    <3>1. lastMilli \in [Slots -> Int] /\ floor \in [Slots -> Int]
      BY <2>1
    <3>2. clock \in [Slots -> Nat] /\ sequence \in [Slots -> Numbers]
      BY <2>1, <2>2
    <3>3. issued \in Seq(Stamps)
      BY <2>1
    <3>4. pc \in [Slots -> {"idle", "waiting", "spinning"}] /\ rewound \in BOOLEAN
      BY <2>1
    <3> QED BY <3>1, <3>2, <3>3, <3>4 DEF IdsTypeOK
  <2>4. PackedInv /\ BehindInv /\ UniqueInv
    BY <2>1, <2>2 DEF PackedInv, BehindInv, UniqueInv
  <2> QED BY <2>3, <2>4 DEF IdsInv
<1>2. IdsInv => IdsAreSound
  <2> SUFFICES ASSUME IdsTypeOK, PackedInv, UniqueInv PROVE IdsAreSound
    BY DEF IdsInv
  <2>1. ASSUME NEW i \in 1 .. Len(issued)
        PROVE  /\ Generators!Parse(issued[i].id).machineID = issued[i].machine
               /\ Generators!Parse(issued[i].id).ts = issued[i].at
    <3> DEFINE a == issued[i].at - Epoch
               q == issued[i].machine
               k == NumberIn(issued[i].id)
    <3>1. issued[i] \in Stamps
      BY DEF IdsTypeOK
    <3>2. q \in Slots /\ issued[i].at \in Nat /\ issued[i].id \in Nat
      BY <3>1 DEF Stamps
    <3>3. issued[i].at >= Epoch /\ issued[i].id = Generators!Pack(a, q, k)
      BY DEF PackedInv
    <3>4. a \in Nat /\ a + Epoch = issued[i].at
      BY <3>2, <3>3, GeneratorConstants
    <3>5. k \in Numbers
      BY <3>2, GeneratorConstants DEF NumberIn, Numbers
    <3> HIDE DEF a, k
    <3>6. /\ Generators!Parse(Generators!Pack(a, q, k)).machineID = q
          /\ Generators!Parse(Generators!Pack(a, q, k)).ts = a + Epoch
      <4> HIDE DEF q
      <4> QED BY <3>2, <3>4, <3>5, PackParses
    <3> QED BY <3>3, <3>4, <3>6
  <2> QED BY <2>1 DEF IdsAreSound, Generators!IdsAreSound, UniqueInv
<1> QED BY <1>1, <1>2, IdsStep, PTL DEF Spec

-----------------------------------------------------------------------------
(* Ranks. Of the members of a finite set A, ordered by a function f that   *)
(* tells them apart, the first L.                                          *)

Ranking(f, A) == f \in [A -> Nat] /\ \A x, y \in A : f[x] = f[y] => x = y

Ahead(f, A, o) == {x \in A : f[x] < f[o]}

First(f, A, L) == {o \in A : Cardinality(Ahead(f, A, o)) < L}

AtMost(L, A) == IF L > Cardinality(A) THEN Cardinality(A) ELSE L

LEMMA AheadParts ==
    ASSUME NEW A, IsFiniteSet(A), NEW f, Ranking(f, A), NEW o \in A
    PROVE  /\ IsFiniteSet(Ahead(f, A, o)) /\ Cardinality(Ahead(f, A, o)) \in Nat
           /\ Cardinality(Ahead(f, A, o)) < Cardinality(A)
           /\ \A x \in A : f[x] < f[o] => Cardinality(Ahead(f, A, x)) < Cardinality(Ahead(f, A, o))
<1>1. \A x \in A : f[x] \in Nat
  BY DEF Ranking
<1>2. \A x \in A : Ahead(f, A, x) \subseteq A \ {x}
  BY <1>1 DEF Ahead
<1>3. ASSUME NEW B, NEW C, IsFiniteSet(C), B \subseteq C, NEW c \in C, c \notin B
      PROVE  IsFiniteSet(B) /\ Cardinality(B) \in Nat /\ Cardinality(C) \in Nat
             /\ Cardinality(B) < Cardinality(C)
  <2>1. IsFiniteSet(B) /\ Cardinality(B) <= Cardinality(C) /\ Cardinality(B) # Cardinality(C)
    BY <1>3, FS_Subset
  <2>2. Cardinality(B) \in Nat /\ Cardinality(C) \in Nat
    BY <1>3, <2>1, FS_CardinalityType
  <2> QED BY <2>1, <2>2
<1>4. /\ IsFiniteSet(Ahead(f, A, o)) /\ Cardinality(Ahead(f, A, o)) \in Nat
      /\ Cardinality(Ahead(f, A, o)) < Cardinality(A)
  BY <1>2, <1>3
<1>5. ASSUME NEW x \in A, f[x] < f[o]
      PROVE  Cardinality(Ahead(f, A, x)) < Cardinality(Ahead(f, A, o))
  <2>1. Ahead(f, A, x) \subseteq Ahead(f, A, o) /\ x \in Ahead(f, A, o) /\ x \notin Ahead(f, A, x)
    BY <1>1, <1>5 DEF Ahead
  <2> QED BY <1>3, <1>4, <2>1
<1> QED BY <1>4, <1>5

LEMMA FirstCount ==
    ASSUME NEW A, IsFiniteSet(A), NEW f, Ranking(f, A), NEW L \in 0 .. Cardinality(A)
    PROVE  Cardinality(First(f, A, L)) = L
<1> DEFINE R(o) == Cardinality(Ahead(f, A, o))
           S == {k \in 0 .. Cardinality(A) : Cardinality(First(f, A, k)) = k}
<1>0. Cardinality(A) \in Nat
  BY FS_CardinalityType
<1>1. /\ \A o \in A : f[o] \in Nat
      /\ \A x, y \in A : f[x] = f[y] => x = y
  BY DEF Ranking
<1>2. /\ \A o \in A : R(o) \in Nat /\ IsFiniteSet(Ahead(f, A, o))
      /\ \A x, y \in A : f[x] < f[y] => R(x) < R(y)
  BY AheadParts
<1>3. 0 \in S
  <2>1. First(f, A, 0) = {}
    BY <1>2 DEF First
  <2>2. 0 \in 0 .. Cardinality(A)
    BY <1>0
  <2> QED BY <2>1, <2>2, FS_EmptySet
<1>4. ASSUME NEW k \in 1 .. Cardinality(A), k - 1 \in S PROVE k \in S
  <2> DEFINE B == First(f, A, k - 1)
             C == A \ B
  <2>1. B \subseteq A /\ Cardinality(B) = k - 1 /\ IsFiniteSet(B)
    <3>1. B \subseteq A
      BY DEF First
    <3> QED BY <1>4, <3>1, FS_Subset
  <2>2. C # {}
    <3>1. B # A
      BY <1>0, <2>1
    <3> QED BY <2>1, <3>1
  <2>3. \E o \in C : \A x \in C : f[o] <= f[x]
    <3> DEFINE Fs == {f[x] : x \in C}
    <3>1. Fs \subseteq Nat /\ Fs # {}
      BY <1>1, <2>2
    <3>2. PICK n \in Fs : \A l \in Fs : n <= l
      <4> HIDE DEF Fs
      <4> QED BY <3>1, LeastOf
    <3> QED BY <3>2
  <2>4. PICK o \in C : \A x \in C : f[o] <= f[x]
    BY <2>3
  <2>5. \A x \in A : x \in B <=> R(x) < k - 1
    BY DEF First
  <2> HIDE DEF B
  <2>6. o \in A /\ ~ (R(o) < k - 1)
    BY <2>4, <2>5
  <2>7. ASSUME NEW x \in A PROVE x \in B <=> f[x] < f[o]
    <3>1. ASSUME x \in B PROVE f[x] < f[o]
      <4>1. R(x) < k - 1 /\ R(x) \in Nat /\ R(o) \in Nat
        BY <1>2, <2>5, <2>6, <3>1
      <4>2. x # o /\ ~ (f[o] < f[x])
        BY <1>2, <2>4, <2>6, <3>1, <4>1
      <4> HIDE DEF R
      <4> QED BY <1>1, <2>6, <4>2
    <3>2. ASSUME x \notin B PROVE ~ (f[x] < f[o])
      BY <1>1, <2>4, <2>6, <3>2
    <3> QED BY <3>1, <3>2
  <2>8. Ahead(f, A, o) = B
    BY <2>1, <2>7 DEF Ahead
  <2>9. R(o) = k - 1
    BY <2>1, <2>8
  <2> HIDE DEF R
  <2>10. First(f, A, k) = B \cup {o}
    <3>1. ASSUME NEW x \in A, R(x) < k, x \notin B PROVE x = o
      <4>1. f[o] <= f[x]
        BY <2>4, <3>1
      <4>2. ~ (f[o] < f[x])
        <5>1. R(x) \in Nat /\ R(o) \in Nat
          BY <1>2, <2>6
        <5> QED BY <1>2, <2>6, <2>9, <3>1, <5>1
      <4> QED BY <1>1, <2>6, <4>1, <4>2
    <3>2. \A x \in B : R(x) < k
      BY <1>2, <2>1, <2>5
    <3>3. R(o) < k
      BY <2>9
    <3>4. First(f, A, k) = {x \in A : R(x) < k}
      BY DEF First, R
    <3> QED BY <2>1, <2>6, <3>1, <3>2, <3>3, <3>4
  <2>11. Cardinality(First(f, A, k)) = k
    <3>1. o \notin B
      BY <2>4
    <3>2. Cardinality(B \cup {o}) = Cardinality(B) + 1
      BY <2>1, <3>1, FS_AddElement
    <3> QED BY <2>1, <2>10, <3>2
  <2>12. k \in 0 .. Cardinality(A)
    BY <1>0
  <2> QED BY <2>11, <2>12
<1> HIDE DEF S
<1>5. \A k \in 0 .. Cardinality(A) : k \in S
  BY <1>0, <1>3, <1>4, CountUp
<1> QED BY <1>5 DEF S

\* What comes first in a larger set and is in the smaller one comes first there as well.
LEMMA FirstInLess ==
    ASSUME NEW B, IsFiniteSet(B), NEW A \in SUBSET B, NEW f, Ranking(f, A),
           NEW g, Ranking(g, B), \A x \in A : g[x] = f[x],
           NEW L \in Nat, NEW o \in A, o \in First(g, B, AtMost(L, B))
    PROVE  o \in First(f, A, AtMost(L, A))
<1>1. IsFiniteSet(A) /\ Cardinality(A) \in Nat /\ Cardinality(B) \in Nat
  BY FS_Subset, FS_CardinalityType
<1>2. Ahead(f, A, o) \subseteq Ahead(g, B, o)
  BY DEF Ahead
<1>3. /\ IsFiniteSet(Ahead(g, B, o)) /\ Cardinality(Ahead(g, B, o)) \in Nat
      /\ Cardinality(Ahead(f, A, o)) \in Nat
      /\ Cardinality(Ahead(f, A, o)) < Cardinality(A)
  BY <1>1, AheadParts
<1>4. Cardinality(Ahead(f, A, o)) <= Cardinality(Ahead(g, B, o))
  BY <1>2, <1>3, FS_Subset
<1>5. Cardinality(Ahead(g, B, o)) < AtMost(L, B)
  BY DEF First
<1>6. Cardinality(Ahead(f, A, o)) < AtMost(L, A)
  BY <1>1, <1>3, <1>4, <1>5 DEF AtMost
<1> QED BY <1>6 DEF First

-----------------------------------------------------------------------------
(* The ring.                                                               *)

LEMMA RingCountingIsShared ==
    /\ \A S : Ring!Cardinality(S) = Cardinality(S)
    /\ \A S : Ring!IsFiniteSet(S) <=> IsFiniteSet(S)
<1>1. \A S : Ring!Cardinality(S) = Cardinality(S)
  BY DEF Ring!Cardinality, Cardinality
<1>2. \A S : Ring!IsFiniteSet(S) <=> IsFiniteSet(S)
  BY DEF Ring!IsFiniteSet, IsFiniteSet
<1> QED BY <1>1, <1>2

Points == 0 .. (Size - 1)
Virtuals == UNION {Ring!Virtual(n) : n \in Nodes}

\* The positions of n's virtual nodes.
Places(n) == {hash[v] : v \in Ring!Virtual(n)}

RingInv ==
    /\ hash \in [Virtuals -> Points \cup {-1}]
    /\ nodes \subseteq Nodes
    /\ positions \in [Points -> {0, 1}]
    /\ owners \in [Points -> Nodes \cup {"none"}]
    /\ \A u, v \in Virtuals : hash[u] = hash[v] /\ hash[u] # -1 => u = v
    /\ \A n \in Nodes : Places(n) \subseteq Points \/ Places(n) = {-1}
    /\ \A n \in nodes : Places(n) \subseteq Points
    /\ \A p \in Points, n \in Nodes : owners[p] = n <=> n \in nodes /\ p \in Places(n)
    /\ \A p \in Points : positions[p] = 0 <=> owners[p] = "none"

LEMMA RingConstants ==
    /\ IsFiniteSet(Nodes) /\ "none" \notin Nodes /\ virtualNodes \in Nat \ {0} /\ Size \in Nat
    /\ Ring!Points = Points /\ Ring!None = "none" /\ Ring!Unknown = -1 /\ -1 \notin Points
<1>1. Ring!RingAssumption
  BY Assumptions
<1>2. -1 \notin Points
  BY <1>1 DEF Points, Ring!RingAssumption
<1> QED BY <1>1, <1>2, RingCountingIsShared
        DEF Ring!RingAssumption, Ring!Points, Points, Ring!None, Ring!Unknown

LEMMA VirtualParts ==
    /\ \A n \in Nodes : Ring!Virtual(n) # {} /\ Ring!Virtual(n) \subseteq Virtuals
    /\ \A n, k \in Nodes : n # k => Ring!Virtual(n) \cap Ring!Virtual(k) = {}
<1>1. \A n \in Nodes : Ring!Virtual(n) # {}
  <2> SUFFICES ASSUME NEW n \in Nodes PROVE Ring!Virtual(n) # {}
    OBVIOUS
  <2>1. 1 \in 1 .. virtualNodes
    BY RingConstants
  <2>2. <<n, 1>> \in Ring!Virtual(n)
    BY <2>1 DEF Ring!Virtual
  <2> QED BY <2>2
<1>2. \A n \in Nodes : Ring!Virtual(n) \subseteq Virtuals
  BY DEF Virtuals
<1>3. ASSUME NEW n \in Nodes, NEW k \in Nodes, NEW v \in Ring!Virtual(n) \cap Ring!Virtual(k)
      PROVE  n = k
  BY DEF Ring!Virtual
<1> QED BY <1>1, <1>2, <1>3

\* Positions of two nodes differ.
LEMMA PlacesApart ==
    ASSUME RingInv, NEW n \in nodes, NEW k \in nodes, NEW p, p \in Places(n), p \in Places(k)
    PROVE  n = k
<1>1. n \in Nodes /\ k \in Nodes
  BY DEF RingInv
<1>2. PICK u \in Ring!Virtual(n) : hash[u] = p
  BY DEF Places
<1>3. PICK v \in Ring!Virtual(k) : hash[v] = p
  BY DEF Places
<1>4. p # -1 /\ u \in Virtuals /\ v \in Virtuals
  BY <1>1, RingConstants, VirtualParts DEF RingInv
<1>5. u = v
  BY <1>2, <1>3, <1>4 DEF RingInv
<1> QED BY <1>1, <1>5, VirtualParts

LEMMA TakenParts ==
    ASSUME RingInv
    PROVE  /\ {owners[p] : p \in Ring!Taken} = nodes
           /\ \A o \in nodes : {p \in Ring!Taken : owners[p] = o} = Places(o)
           /\ \A p \in Ring!Taken : p \in Points /\ owners[p] \in nodes /\ p \in Places(owners[p])
           /\ \A o \in nodes : Places(o) \subseteq Points /\ Places(o) # {}
<1>1. \A p : p \in Ring!Taken <=> p \in Points /\ owners[p] # "none"
  <2>1. \A p \in Points : positions[p] > 0 <=> positions[p] # 0
    BY DEF RingInv
  <2> QED BY <2>1, RingConstants DEF Ring!Taken, RingInv
<1>2. \A o \in nodes : o \in Nodes /\ o # "none" /\ Places(o) \subseteq Points
  BY RingConstants DEF RingInv
<1>3. \A p \in Ring!Taken : p \in Points /\ owners[p] \in nodes /\ p \in Places(owners[p])
  <2> SUFFICES ASSUME NEW p \in Ring!Taken
               PROVE  p \in Points /\ owners[p] \in nodes /\ p \in Places(owners[p])
    OBVIOUS
  <2>1. p \in Points /\ owners[p] \in Nodes
    BY <1>1 DEF RingInv
  <2> QED BY <2>1 DEF RingInv
<1>4. \A o \in nodes : {p \in Ring!Taken : owners[p] = o} = Places(o)
  <2> SUFFICES ASSUME NEW o \in nodes PROVE {p \in Ring!Taken : owners[p] = o} = Places(o)
    OBVIOUS
  <2>1. \A p \in Points : owners[p] = o <=> p \in Places(o)
    BY <1>2 DEF RingInv
  <2> QED BY <1>1, <1>2, <2>1
<1>5. \A o \in nodes : Places(o) # {}
  BY <1>2, VirtualParts DEF Places
<1>6. {owners[p] : p \in Ring!Taken} = nodes
  BY <1>3, <1>4, <1>5
<1> QED BY <1>2, <1>3, <1>4, <1>5, <1>6

\* A walk around the ring meets different positions after different distances.
LEMMA Distances ==
    ASSUME NEW key \in Points
    PROVE  /\ \A p \in Points : Ring!Distance(key, p) \in Nat
           /\ \A p, q \in Points : Ring!Distance(key, p) = Ring!Distance(key, q) => p = q
<1>1. key \in Int /\ key >= 0 /\ key < Size /\ Size \in Nat \ {0}
  BY RingConstants DEF Points
<1>2. ASSUME NEW p \in Points
      PROVE  Ring!Distance(key, p) = IF p >= key THEN p - key ELSE p - key + Size
  <2>1. p \in Int /\ p >= 0 /\ p < Size
    BY RingConstants DEF Points
  <2>2. CASE p >= key
    <3>1. (p - key) % Size = p - key
      BY <1>1, <2>1, <2>2
    <3> QED BY <2>2, <3>1 DEF Ring!Distance
  <2>3. CASE ~ (p >= key)
    <3>1. (p - key) % Size = p - key + Size
      BY <1>1, <2>1, <2>3
    <3> QED BY <2>3, <3>1 DEF Ring!Distance
  <2> QED BY <2>2, <2>3
<1>3. \A p \in Points : p \in Int /\ p >= 0 /\ p < Size
  BY RingConstants DEF Points
<1>4. \A p \in Points : Ring!Distance(key, p) \in Nat
  BY <1>1, <1>2, <1>3
<1>5. ASSUME NEW p \in Points, NEW q \in Points, Ring!Distance(key, p) = Ring!Distance(key, q)
      PROVE  p = q
  BY <1>1, <1>2, <1>3, <1>5
<1> QED BY <1>4, <1>5

\* The distance to the first of the places of a node.
NearestOf(key, places) ==
    CHOOSE x \in {Ring!Distance(key, p) : p \in places} :
        \A y \in {Ring!Distance(key, p) : p \in places} : x <= y

LEMMA NearestIsLeast ==
    ASSUME NEW key \in Points, NEW P \in SUBSET Points, P # {}
    PROVE  /\ \E p \in P : NearestOf(key, P) = Ring!Distance(key, p)
           /\ \A p \in P : NearestOf(key, P) <= Ring!Distance(key, p)
<1> DEFINE D == {Ring!Distance(key, p) : p \in P}
<1>1. D \subseteq Nat /\ D # {}
  BY Distances
<1>2. \E x \in D : \A y \in D : x <= y
  <2> HIDE DEF D
  <2> QED BY <1>1, LeastOf
<1>3. NearestOf(key, P) \in D /\ \A y \in D : NearestOf(key, P) <= y
  BY <1>2 DEF NearestOf
<1> QED BY <1>3

FarOf(key) == [o \in nodes |-> NearestOf(key, Places(o))]

LEMMA FarRanks ==
    ASSUME RingInv, NEW key \in Points
    PROVE  Ranking(FarOf(key), nodes) /\ \A o \in nodes : Ring!Reach(key, o) = FarOf(key)[o]
<1>1. \A o \in nodes : Places(o) \subseteq Points /\ Places(o) # {}
  BY TakenParts
<1>2. \A o \in nodes : \E p \in Places(o) : NearestOf(key, Places(o)) = Ring!Distance(key, p)
  BY <1>1, NearestIsLeast
<1>3. \A o \in nodes : NearestOf(key, Places(o)) \in Nat
  BY <1>1, <1>2, Distances
<1>4. FarOf(key) \in [nodes -> Nat]
  BY <1>3 DEF FarOf
<1>5. ASSUME NEW x \in nodes, NEW y \in nodes, FarOf(key)[x] = FarOf(key)[y] PROVE x = y
  <2>1. PICK p \in Places(x) : NearestOf(key, Places(x)) = Ring!Distance(key, p)
    BY <1>2
  <2>2. PICK q \in Places(y) : NearestOf(key, Places(y)) = Ring!Distance(key, q)
    BY <1>2
  <2>3. p = q
    BY <1>1, <1>5, <2>1, <2>2, Distances DEF FarOf
  <2> QED BY <2>1, <2>2, <2>3, PlacesApart
<1>6. ASSUME NEW o \in nodes PROVE Ring!Reach(key, o) = FarOf(key)[o]
  <2>1. {p \in Ring!Taken : owners[p] = o} = Places(o)
    BY TakenParts
  <2> QED BY <2>1 DEF Ring!Reach, Ring!Min, NearestOf, FarOf
<1> QED BY <1>4, <1>5, <1>6 DEF Ranking

LEMMA GetNIsFirst ==
    ASSUME RingInv, NEW key \in Points, NEW n \in Nat
    PROVE  Ring!GetN(key, n) = First(FarOf(key), nodes, AtMost(n, nodes))
<1> DEFINE met == {owners[p] : p \in Ring!Taken}
           limit == IF n > Ring!Cardinality(nodes) THEN Ring!Cardinality(nodes) ELSE n
<1>1. met = nodes /\ limit = AtMost(n, nodes)
  BY TakenParts, RingCountingIsShared DEF AtMost
<1>2. Ring!GetN(key, n) =
        {o \in met : Ring!Cardinality({x \in met : Ring!Reach(key, x) < Ring!Reach(key, o)}) < limit}
  BY DEF Ring!GetN
<1>3. \A o \in nodes :
        {x \in nodes : Ring!Reach(key, x) < Ring!Reach(key, o)} = Ahead(FarOf(key), nodes, o)
  BY FarRanks DEF Ahead
<1>4. Ring!GetN(key, n) =
        {o \in nodes : Ring!Cardinality({x \in nodes : Ring!Reach(key, x) < Ring!Reach(key, o)})
                           < AtMost(n, nodes)}
  <2> HIDE DEF limit
  <2> QED BY <1>1, <1>2
<1> QED BY <1>3, <1>4, RingCountingIsShared DEF First

LEMMA NodesFinite ==
    ASSUME RingInv PROVE IsFiniteSet(nodes) /\ Cardinality(nodes) \in Nat
BY RingConstants, FS_Subset, FS_CardinalityType DEF RingInv

LEMMA ReplicasDistinct == RingInv => Ring!ReplicasAreDistinctNodes
<1> SUFFICES ASSUME RingInv, nodes # {}, NEW key \in Points,
                    NEW n \in 1 .. Cardinality(Nodes)
             PROVE  /\ Ring!GetN(key, n) \subseteq nodes
                    /\ Cardinality(Ring!GetN(key, n)) = AtMost(n, nodes)
                    /\ Ring!Get(key) \in Ring!GetN(key, n)
  BY RingConstants, RingCountingIsShared DEF Ring!ReplicasAreDistinctNodes, AtMost
<1> DEFINE f == FarOf(key)
           L == AtMost(n, nodes)
<1>1. n \in Nat \ {0} /\ IsFiniteSet(nodes) /\ Cardinality(nodes) \in Nat \ {0}
  <2>1. Cardinality(Nodes) \in Nat
    BY RingConstants, FS_CardinalityType
  <2> QED BY <2>1, NodesFinite, FS_EmptySet
<1>2. L \in 0 .. Cardinality(nodes) /\ L > 0
  BY <1>1 DEF AtMost
<1>3. Ring!GetN(key, n) = First(f, nodes, L) /\ Ranking(f, nodes)
  BY <1>1, GetNIsFirst, FarRanks
<1>4. Cardinality(First(f, nodes, L)) = L
  <2> HIDE DEF f, L
  <2> QED BY <1>1, <1>2, <1>3, FirstCount
<1>5. First(f, nodes, L) \subseteq nodes
  BY DEF First
<1>6. Ring!Get(key) \in First(f, nodes, L)
  <2> DEFINE p == CHOOSE p \in Ring!Taken :
                    \A q \in Ring!Taken : Ring!Distance(key, p) <= Ring!Distance(key, q)
  <2>1. Ring!Taken \subseteq Points /\ Ring!Taken # {}
    BY TakenParts
  <2>2. p \in Ring!Taken /\ \A q \in Ring!Taken : Ring!Distance(key, p) <= Ring!Distance(key, q)
    <3>1. PICK t \in Ring!Taken : NearestOf(key, Ring!Taken) = Ring!Distance(key, t)
      BY <2>1, NearestIsLeast
    <3>2. \A q \in Ring!Taken : Ring!Distance(key, t) <= Ring!Distance(key, q)
      BY <2>1, <3>1, NearestIsLeast
    <3> QED BY <3>1, <3>2
  <2>3. Ring!Get(key) = owners[p]
    BY <2>1 DEF Ring!Get
  <2> HIDE DEF p
  <2> DEFINE o == owners[p]
  <2>4. o \in nodes /\ p \in Places(o)
    BY <2>2, TakenParts
  <2>5. f[o] <= Ring!Distance(key, p) /\ f[o] \in Nat /\ Ring!Distance(key, p) \in Nat
    BY <1>3, <2>1, <2>2, <2>4, TakenParts, NearestIsLeast, Distances DEF FarOf, Ranking
  <2>6. ASSUME NEW x \in nodes PROVE ~ (f[x] < f[o])
    <3>1. PICK q \in Places(x) : f[x] = Ring!Distance(key, q)
      BY TakenParts, NearestIsLeast DEF FarOf
    <3>2. q \in Ring!Taken
      BY TakenParts
    <3>3. Ring!Distance(key, p) <= f[x] /\ f[x] \in Nat
      BY <1>3, <2>2, <3>1, <3>2 DEF Ranking
    <3> HIDE DEF f, o
    <3> QED BY <2>5, <3>3
  <2>7. Ahead(f, nodes, o) = {}
    <3> HIDE DEF f, o
    <3> QED BY <2>6 DEF Ahead
  <2>8. Cardinality(Ahead(f, nodes, o)) = 0
    BY <2>7, FS_EmptySet
  <2> HIDE DEF f, L, o
  <2>9. o \in First(f, nodes, L)
    BY <1>2, <2>4, <2>8 DEF First
  <2> QED BY <2>3, <2>9 DEF o
<1> QED BY <1>3, <1>4, <1>5, <1>6

\* What hashKey gives the virtual nodes of n: positions of their own that no other has,
\* and the same ones every time.
LEMMA HashParts ==
    ASSUME RingInv, NEW n \in Nodes, NEW h \in Ring!hashKey(n)
    PROVE  /\ h \in [Ring!Virtual(n) -> Points]
           /\ \A u, v \in Ring!Virtual(n) : h[u] = h[v] => u = v
           /\ \A v \in Ring!Virtual(n), u \in Virtuals \ Ring!Virtual(n) : h[v] # hash[u]
<1> DEFINE known == [v \in Ring!Virtual(n) |-> hash[v]]
           free == Points \ {hash[u] : u \in Virtuals}
<1>0. Ring!Virtual(n) \subseteq Virtuals /\ hash \in [Virtuals -> Points \cup {-1}]
  BY VirtualParts DEF RingInv
<1>1. Places(n) = {known[v] : v \in DOMAIN known}
  BY DEF Places
<1>2. Ring!hashKey(n) = IF Places(n) = {-1}
        THEN {M \in [Ring!Virtual(n) -> free] : \A a, b \in DOMAIN M : M[a] = M[b] => a = b}
        ELSE {known}
  <2>1. Ring!Range(hash) = {hash[u] : u \in Virtuals}
    BY <1>0 DEF Ring!Range
  <2>2. Ring!Restrict(hash, Ring!Virtual(n)) = known /\ Ring!Range(known) = Places(n)
    BY <1>1 DEF Ring!Restrict, Ring!Range
  <2>3. Ring!Injection(Ring!Virtual(n), free) =
          {M \in [Ring!Virtual(n) -> free] : \A a, b \in DOMAIN M : M[a] = M[b] => a = b}
    BY DEF Ring!Injection, Ring!IsInjective
  <2> HIDE DEF known
  <2> QED BY <2>1, <2>2, <2>3, RingConstants DEF Ring!hashKey
<1>3. CASE Places(n) = {-1}
  <2>1. h \in [Ring!Virtual(n) -> free] /\ \A a, b \in DOMAIN h : h[a] = h[b] => a = b
    BY <1>2, <1>3
  <2> QED BY <2>1
<1>4. CASE Places(n) # {-1}
  <2>1. h = known
    BY <1>2, <1>4
  <2>2. Places(n) \subseteq Points
    BY <1>4 DEF RingInv
  <2>3. \A v \in Ring!Virtual(n) : hash[v] \in Points /\ hash[v] # -1 /\ h[v] = hash[v]
    BY <2>1, <2>2, RingConstants DEF Places
  <2>4. h \in [Ring!Virtual(n) -> Points]
    BY <2>1, <2>3
  <2> QED BY <1>0, <2>3, <2>4 DEF RingInv
<1> QED BY <1>3, <1>4

LEMMA AddStep ==
    ASSUME RingInv, NEW n \in Nodes, Ring!Add(n)
    PROVE  RingInv' /\ \A o \in nodes : Places(o)' = Places(o)
<1>1. PICK h \in Ring!hashKey(n) :
        LET copies(p) == Ring!Cardinality({v \in Ring!Virtual(n) : h[v] = p}) IN
        /\ hash' = [v \in DOMAIN hash |-> IF v \in Ring!Virtual(n) THEN h[v] ELSE hash[v]]
        /\ positions' = [p \in Ring!Points |-> positions[p] + copies(p)]
        /\ owners' = [p \in Ring!Points |-> IF copies(p) > 0 THEN n ELSE owners[p]]
  BY DEF Ring!Add
<1>2. /\ h \in [Ring!Virtual(n) -> Points]
      /\ \A u, v \in Ring!Virtual(n) : h[u] = h[v] => u = v
      /\ \A v \in Ring!Virtual(n), u \in Virtuals \ Ring!Virtual(n) : h[v] # hash[u]
  BY HashParts
<1>3. n \notin nodes /\ nodes' = nodes \cup {n}
  BY DEF Ring!Add
<1> DEFINE V == Ring!Virtual(n)
           New(p) == \E v \in V : h[v] = p
<1>4. \A p : Ring!Cardinality({v \in V : h[v] = p}) = IF New(p) THEN 1 ELSE 0
  <2> SUFFICES ASSUME NEW p
               PROVE  Cardinality({v \in V : h[v] = p}) = IF New(p) THEN 1 ELSE 0
    BY RingCountingIsShared
  <2>1. CASE New(p)
    <3>1. PICK v \in V : h[v] = p
      BY <2>1
    <3>2. {u \in V : h[u] = p} = {v}
      BY <1>2, <3>1
    <3>3. Cardinality({v}) = 1
      BY FS_Singleton, Zenon
    <3> QED BY <2>1, <3>2, <3>3
  <2>2. CASE ~ New(p)
    <3>1. {u \in V : h[u] = p} = {}
      BY <2>2
    <3> QED BY <2>2, <3>1, FS_EmptySet
  <2> QED BY <2>1, <2>2
<1>5. /\ hash' = [v \in Virtuals |-> IF v \in V THEN h[v] ELSE hash[v]]
      /\ positions' = [p \in Points |-> positions[p] + IF New(p) THEN 1 ELSE 0]
      /\ owners' = [p \in Points |-> IF New(p) THEN n ELSE owners[p]]
  <2>1. DOMAIN hash = Virtuals
    BY DEF RingInv
  <2>2. positions' = [p \in Points |-> positions[p] + Ring!Cardinality({v \in V : h[v] = p})]
    BY <1>1, RingConstants
  <2>3. owners' = [p \in Points |->
           IF Ring!Cardinality({v \in V : h[v] = p}) > 0 THEN n ELSE owners[p]]
    BY <1>1, RingConstants
  <2>4. ASSUME NEW p PROVE Ring!Cardinality({v \in V : h[v] = p}) > 0 <=> New(p)
    <3> DEFINE c == Ring!Cardinality({v \in V : h[v] = p})
    <3>1. c = IF New(p) THEN 1 ELSE 0
      BY <1>4
    <3> HIDE DEF c, New
    <3>2. c > 0 <=> New(p)
      BY <3>1
    <3> QED BY <3>2 DEF c
  <2>5. hash' = [v \in Virtuals |-> IF v \in V THEN h[v] ELSE hash[v]]
    BY <1>1, <2>1
  <2> HIDE DEF New
  <2> QED BY <1>4, <2>2, <2>3, <2>4, <2>5
<1> HIDE DEF V
<1>6. V \subseteq Virtuals /\ V # {}
  BY VirtualParts DEF V
<1>7. /\ \A v \in V : hash'[v] = h[v] /\ h[v] \in Points
      /\ \A v \in Virtuals \ V : hash'[v] = hash[v]
  BY <1>2, <1>5, <1>6 DEF V
<1>8. /\ \A p : p \in Places(n)' <=> New(p)
      /\ \A k \in Nodes : k # n => Places(k)' = Places(k)
  <2>1. \A p : p \in Places(n)' <=> New(p)
    BY <1>7 DEF Places, V
  <2>2. ASSUME NEW k \in Nodes, k # n PROVE Places(k)' = Places(k)
    <3>1. Ring!Virtual(k) \subseteq Virtuals \ V
      BY <2>2, VirtualParts DEF V
    <3> QED BY <1>7, <3>1 DEF Places
  <2> QED BY <2>1, <2>2
<1>9. \A p \in Points : New(p) => owners[p] = "none" /\ positions[p] = 0
  <2> SUFFICES ASSUME NEW p \in Points, NEW v \in V, h[v] = p, owners[p] # "none" PROVE FALSE
    BY DEF RingInv
  <2>1. owners[p] \in Nodes
    BY DEF RingInv
  <2>2. owners[p] \in nodes /\ p \in Places(owners[p]) /\ owners[p] # n
    BY <1>3, <2>1 DEF RingInv
  <2>3. PICK u \in Ring!Virtual(owners[p]) : hash[u] = p
    BY <2>2 DEF Places
  <2>4. u \in Virtuals \ V
    BY <2>1, <2>2, VirtualParts DEF V
  <2> QED BY <1>2, <2>3, <2>4 DEF V
<1>10. hash' \in [Virtuals -> Points \cup {-1}]
  <2>1. hash \in [Virtuals -> Points \cup {-1}]
    BY DEF RingInv
  <2> QED BY <1>5, <1>7, <2>1
<1>11. nodes' \subseteq Nodes
  BY <1>3 DEF RingInv
<1>12. positions' \in [Points -> {0, 1}] /\ owners' \in [Points -> Nodes \cup {"none"}]
  <2>1. positions \in [Points -> {0, 1}] /\ owners \in [Points -> Nodes \cup {"none"}]
    BY DEF RingInv
  <2> HIDE DEF New
  <2> QED BY <1>5, <1>9, <2>1
<1>13. \A u, v \in Virtuals : hash'[u] = hash'[v] /\ hash'[u] # -1 => u = v
  <2>1. \A u, v \in Virtuals : hash[u] = hash[v] /\ hash[u] # -1 => u = v
    BY DEF RingInv
  <2>2. ASSUME NEW u \in V, NEW v \in Virtuals \ V PROVE hash'[u] # hash'[v]
    BY <1>2, <1>7 DEF V
  <2>3. ASSUME NEW u \in V, NEW v \in V, hash'[u] = hash'[v] PROVE u = v
    BY <1>2, <1>7, <2>3 DEF V
  <2> QED BY <1>6, <1>7, <2>1, <2>2, <2>3
<1>14. /\ \A k \in Nodes : Places(k)' \subseteq Points \/ Places(k)' = {-1}
       /\ \A k \in nodes' : Places(k)' \subseteq Points
  <2>1. Places(n)' \subseteq Points
    BY <1>7, <1>8
  <2>2. \A k \in Nodes : k # n => Places(k)' \subseteq Points \/ Places(k)' = {-1}
    BY <1>8 DEF RingInv
  <2>3. \A k \in nodes : k # n => Places(k)' \subseteq Points
    BY <1>8 DEF RingInv
  <2>4. \A k \in nodes' : Places(k)' \subseteq Points
    BY <1>3, <2>1, <2>3
  <2>5. \A k \in Nodes : Places(k)' \subseteq Points \/ Places(k)' = {-1}
    BY <2>1, <2>2
  <2> QED BY <2>4, <2>5
<1>15. ASSUME NEW p \in Points, NEW k \in Nodes
       PROVE  owners'[p] = k <=> k \in nodes' /\ p \in Places(k)'
  <2>1. owners'[p] = IF New(p) THEN n ELSE owners[p]
    BY <1>5
  <2>2. owners[p] = k <=> k \in nodes /\ p \in Places(k)
    BY DEF RingInv
  <2>3. New(p) => owners[p] = "none"
    BY <1>9
  <2> HIDE DEF New
  <2>4. CASE k = n
    BY <1>3, <1>8, <2>1, <2>2, <2>4
  <2>5. CASE k # n
    BY <1>3, <1>8, <2>1, <2>2, <2>3, <2>5, RingConstants
  <2> QED BY <2>4, <2>5
<1>16. \A p \in Points : positions'[p] = 0 <=> owners'[p] = "none"
  <2> HIDE DEF New
  <2> QED BY <1>5, <1>9, RingConstants DEF RingInv
<1>17. RingInv'
  BY <1>10, <1>11, <1>12, <1>13, <1>14, <1>15, <1>16 DEF RingInv
<1>18. \A o \in nodes : Places(o)' = Places(o)
  BY <1>3, <1>8 DEF RingInv
<1> QED BY <1>17, <1>18

LEMMA RemoveStep ==
    ASSUME RingInv, NEW n \in Nodes, Ring!Remove(n)
    PROVE  RingInv' /\ \A o : Places(o)' = Places(o)
<1>1. /\ n \in nodes /\ nodes' = nodes \ {n} /\ hash' = hash
      /\ positions' = [p \in Points |-> IF owners[p] = n THEN positions[p] - 1 ELSE positions[p]]
      /\ owners' = [p \in Points |-> IF owners[p] = n THEN "none" ELSE owners[p]]
  BY RingConstants DEF Ring!Remove
<1>2. \A o : Places(o)' = Places(o)
  BY <1>1 DEF Places
<1>3. \A p \in Points : owners[p] = n => positions[p] = 1
  BY RingConstants DEF RingInv
<1>4. positions' \in [Points -> {0, 1}] /\ owners' \in [Points -> Nodes \cup {"none"}]
  BY <1>1, <1>3 DEF RingInv
<1>5. ASSUME NEW p \in Points, NEW k \in Nodes
      PROVE  owners'[p] = k <=> k \in nodes' /\ p \in Places(k)
  <2>1. owners[p] = k <=> k \in nodes /\ p \in Places(k)
    BY DEF RingInv
  <2>2. owners'[p] = IF owners[p] = n THEN "none" ELSE owners[p]
    BY <1>1
  <2> QED BY <1>1, <2>1, <2>2, RingConstants
<1>6. \A p \in Points : positions'[p] = 0 <=> owners'[p] = "none"
  BY <1>1, <1>3 DEF RingInv
<1>7. RingInv'
  BY <1>1, <1>2, <1>4, <1>5, <1>6 DEF RingInv
<1> QED BY <1>2, <1>7

RanksRight ==
    \A key \in Points, n \in Nat :
        /\ Ring!GetN(key, n) = First(FarOf(key), nodes, AtMost(n, nodes))
        /\ Ranking(FarOf(key), nodes) /\ IsFiniteSet(nodes)

LEMMA GetNRanks == RingInv => RanksRight
BY GetNIsFirst, FarRanks, NodesFinite DEF RanksRight

\* A node that stays keeps its places, so that what is near it stays near.
LEMMA MovesAreNecessary ==
    ASSUME RingInv, RingInv', \A o \in nodes : o \in nodes' => Places(o)' = Places(o),
           nodes \subseteq nodes' \/ nodes' \subseteq nodes
    PROVE  Ring!OnlyNecessaryMoves
<1> SUFFICES ASSUME NEW key \in Points, NEW n \in 1 .. Cardinality(Nodes)
             PROVE  /\ nodes \subseteq nodes' =>
                          Ring!GetN(key, n)' \subseteq Ring!GetN(key, n) \cup (nodes' \ nodes)
                    /\ nodes' \subseteq nodes =>
                          Ring!GetN(key, n) \subseteq Ring!GetN(key, n)' \cup (nodes \ nodes')
  BY RingConstants, RingCountingIsShared DEF Ring!OnlyNecessaryMoves
<1>1. n \in Nat
  BY RingConstants, FS_CardinalityType
<1> DEFINE f == FarOf(key)
           g == FarOf(key)'
<1>2. /\ Ring!GetN(key, n) = First(f, nodes, AtMost(n, nodes)) /\ Ranking(f, nodes)
      /\ IsFiniteSet(nodes)
  BY <1>1, GetNRanks DEF RanksRight
<1>3. /\ Ring!GetN(key, n)' = First(g, nodes', AtMost(n, nodes')) /\ Ranking(g, nodes')
      /\ IsFiniteSet(nodes')
  <2>1. RanksRight'
    BY GetNRanks, PTL
  <2> QED BY <1>1, <2>1 DEF RanksRight
<1>4. \A o \in nodes : o \in nodes' => g[o] = f[o]
  BY DEF FarOf
<1> HIDE DEF f, g
<1>5. ASSUME nodes \subseteq nodes', NEW o \in Ring!GetN(key, n)', o \in nodes
      PROVE  o \in Ring!GetN(key, n)
  BY <1>1, <1>2, <1>3, <1>4, <1>5, FirstInLess
<1>6. ASSUME nodes' \subseteq nodes, NEW o \in Ring!GetN(key, n), o \in nodes'
      PROVE  o \in Ring!GetN(key, n)'
  BY <1>1, <1>2, <1>3, <1>4, <1>6, FirstInLess
<1>7. \A o \in Ring!GetN(key, n)' : o \in nodes'
  BY <1>3 DEF First
<1>8. \A o \in Ring!GetN(key, n) : o \in nodes
  BY <1>2 DEF First
<1> QED BY <1>5, <1>6, <1>7, <1>8

\* Cluster.PlacementIsStable (ring_test.go:64-65, ring.go:86-87) for any nodes, any number
\* of virtual nodes and any hash without collisions: a step of the ring moves replicas
\* only to the node that joins or from the one that leaves, and every key has its full set
\* of different replicas after it.
THEOREM PlacementStaysStable == Spec => PlacementIsStable
<1>1. Init => RingInv
  <2> SUFFICES ASSUME Init PROVE RingInv
    OBVIOUS
  <2>1. /\ hash = [v \in Virtuals |-> -1] /\ nodes = {}
        /\ positions = [p \in Points |-> 0] /\ owners = [p \in Points |-> "none"]
    BY RingConstants DEF Init, Start, Ring!Init, Virtuals
  <2>2. \A n \in Nodes : Places(n) = {-1}
    <3> SUFFICES ASSUME NEW n \in Nodes PROVE Places(n) = {-1}
      OBVIOUS
    <3>1. Ring!Virtual(n) # {} /\ \A v \in Ring!Virtual(n) : hash[v] = -1
      BY <2>1, VirtualParts
    <3> QED BY <3>1 DEF Places
  <2> QED BY <2>1, <2>2, RingConstants DEF RingInv
<1>2. RingInv /\ [Next]_vars =>
        RingInv' /\ (vars' # vars /\ part = "ring" => Ring!OnlyNecessaryMoves)
  <2> SUFFICES ASSUME RingInv, [Next]_vars
               PROVE  RingInv' /\ (vars' # vars /\ part = "ring" => Ring!OnlyNecessaryMoves)
    OBVIOUS
  <2>1. CASE UNCHANGED ringVars /\ (vars' = vars \/ part # "ring")
    <3>1. UNCHANGED <<hash, nodes, positions, owners>>
      BY <2>1 DEF ringVars
    <3>2. \A n : Places(n)' = Places(n)
      BY <3>1 DEF Places
    <3> QED BY <2>1, <3>1, <3>2 DEF RingInv
  <2>2. CASE RingStep
    <3>1. PICK n \in Nodes : Ring!Add(n) \/ Ring!Remove(n)
      BY <2>2 DEF RingStep, Ring!Next
    <3>2. RingInv' /\ \A o \in nodes : Places(o)' = Places(o)
      BY <3>1, AddStep, RemoveStep
    <3>3. nodes \subseteq nodes' \/ nodes' \subseteq nodes
      BY <3>1 DEF Ring!Add, Ring!Remove
    <3> QED BY <3>2, <3>3, MovesAreNecessary
  <2> QED BY <2>1, <2>2 DEF Next, IdStep, ReplicaStep, GeoStep, vars
<1>3. RingInv /\ RingInv' /\ [Next]_vars
      => [part = "ring" => Ring!OnlyNecessaryMoves /\ Ring!ReplicasAreDistinctNodes']_vars
  <2>1. RingInv' => Ring!ReplicasAreDistinctNodes'
    BY ReplicasDistinct, PTL
  <2> QED BY <1>2, <2>1
<1> QED BY <1>1, <1>2, <1>3, PTL DEF Spec, PlacementIsStable

-----------------------------------------------------------------------------
(* Geohash. A cell is an interval of latitudes and one of longitudes; both *)
(* are multiples of the cell's size away from the world's edge.            *)

LEMMA GeoConstants ==
    /\ HalfLat \in Nat \ {0} /\ HalfLng \in Nat \ {0}
    /\ CharBits \in Nat \ {0} /\ MaxPrecision \in Nat \ {0}
    /\ Geo!CanBeHalved(HalfLat, (CharBits * MaxPrecision) \div 2)
    /\ Geo!CanBeHalved(HalfLng, (CharBits * MaxPrecision + 1) \div 2)
BY Assumptions DEF Geo!GeoAssumption

\* h[i] is n, halved i times.
Chain(h, n, times) ==
    /\ h[0] = n
    /\ \A i \in 0 .. times : h[i] \in Nat \ {0}
    /\ \A i \in 1 .. times : h[i - 1] = 2 * h[i]

LEMMA HalvesChain ==
    ASSUME NEW n \in Nat \ {0}, NEW N \in Nat, Geo!CanBeHalved(n, N)
    PROVE  \E h : Chain(h, n, N)
<1> DEFINE F == [i \in 1 .. N |-> [v \in Nat |-> v \div 2]]
           half == CHOOSE h : h = [i \in 0 .. N |-> IF i = 0 THEN n ELSE h[i - 1] \div 2]
<1>1. \A i \in 1 .. N : half[i - 1] % 2 = 0
  BY DEF Geo!CanBeHalved
<1>2. Passes(F, N, Nat)
  BY DEF Passes
<1>3. PICK g : RunOf(g, F, N, Nat, n)
  <2> HIDE DEF F
  <2> QED BY <1>2, LoopRuns
<1>4. g \in [0 .. N -> Nat] /\ g[0] = n /\ \A i \in 1 .. N : g[i] = g[i - 1] \div 2
  <2>1. g \in [0 .. N -> Nat] /\ g[0] = n /\ \A i \in 1 .. N : g[i] = F[i][g[i - 1]]
    <3> HIDE DEF F
    <3> QED BY <1>3 DEF RunOf
  <2>2. ASSUME NEW i \in 1 .. N PROVE g[i] = g[i - 1] \div 2
    <3>1. i - 1 \in 0 .. N
      OBVIOUS
    <3>2. g[i - 1] \in Nat
      BY <2>1, <3>1
    <3> QED BY <2>1, <3>2
  <2> QED BY <2>1, <2>2
<1> HIDE DEF F
<1>5. g = [i \in 0 .. N |-> IF i = 0 THEN n ELSE g[i - 1] \div 2]
  <2>1. \A i \in 0 .. N : i # 0 => i \in 1 .. N
    OBVIOUS
  <2> QED BY <1>4, <2>1
<1>6. half = [i \in 0 .. N |-> IF i = 0 THEN n ELSE half[i - 1] \div 2]
  BY <1>5
<1> HIDE DEF half
<1> DEFINE S == {i \in 0 .. N : half[i] \in Nat \ {0}}
<1>7. 0 \in S
  BY <1>6
<1>8. ASSUME NEW i \in 1 .. N, i - 1 \in S PROVE i \in S /\ half[i - 1] = 2 * half[i]
  <2>1. half[i] = half[i - 1] \div 2 /\ half[i - 1] % 2 = 0 /\ half[i - 1] \in Nat \ {0}
    <3>1. i \in 0 .. N /\ i # 0
      OBVIOUS
    <3>2. half[i] = half[i - 1] \div 2
      BY <1>6, <3>1
    <3> QED BY <1>1, <1>8, <3>2
  <2> QED BY <2>1
<1>9. \A i \in 0 .. N : i \in S
  <2> HIDE DEF S
  <2> QED BY <1>7, <1>8, CountUp
<1>10. half[0] = n
  BY <1>6
<1>11. \A i \in 1 .. N : half[i - 1] = 2 * half[i]
  <2>1. \A i \in 1 .. N : i - 1 \in 0 .. N
    OBVIOUS
  <2> HIDE DEF S
  <2> QED BY <1>8, <1>9, <2>1
<1>12. Chain(half, n, N)
  BY <1>9, <1>10, <1>11 DEF Chain
<1> QED BY <1>12

\* Half the height and half the width of a cell of i bits.
Sizes(hy, hx, N) ==
    /\ hy[0] = HalfLat /\ hx[0] = HalfLng
    /\ \A i \in 0 .. N : hy[i] \in Nat \ {0} /\ hx[i] \in Nat \ {0}
    /\ \A i \in 1 .. N : i % 2 = 1 => hx[i - 1] = 2 * hx[i] /\ hy[i - 1] = hy[i]
    /\ \A i \in 1 .. N : i % 2 # 1 => hy[i - 1] = 2 * hy[i] /\ hx[i - 1] = hx[i]

LEMMA SizesExist == \E hy, hx : Sizes(hy, hx, CharBits * MaxPrecision)
<1> DEFINE N == CharBits * MaxPrecision
<1>1. N \in Nat
  BY GeoConstants
<1> HIDE DEF N
<1>2. /\ N \div 2 \in Nat /\ (N + 1) \div 2 \in Nat
      /\ \A i \in 0 .. N : i \div 2 \in 0 .. N \div 2 /\ (i + 1) \div 2 \in 0 .. (N + 1) \div 2
      /\ \A i \in 1 .. N : i % 2 = 1 => /\ (i + 1) \div 2 \in 1 .. (N + 1) \div 2
                                       /\ ((i - 1) + 1) \div 2 = ((i + 1) \div 2) - 1
                                       /\ (i - 1) \div 2 = i \div 2
      /\ \A i \in 1 .. N : i % 2 # 1 => /\ i \div 2 \in 1 .. N \div 2
                                       /\ (i - 1) \div 2 = (i \div 2) - 1
                                       /\ ((i - 1) + 1) \div 2 = (i + 1) \div 2
  BY <1>1
<1>3. PICK y : Chain(y, HalfLat, N \div 2)
  BY <1>2, GeoConstants, HalvesChain DEF N
<1>4. PICK x : Chain(x, HalfLng, (N + 1) \div 2)
  BY <1>2, GeoConstants, HalvesChain DEF N
<1> DEFINE hy == [i \in 0 .. N |-> y[i \div 2]]
           hx == [i \in 0 .. N |-> x[(i + 1) \div 2]]
<1>5. \A i \in 1 .. N : i \in 0 .. N /\ i - 1 \in 0 .. N
  BY <1>1
<1>6. hy[0] = HalfLat /\ hx[0] = HalfLng
  BY <1>1, <1>3, <1>4 DEF Chain
<1>7. \A i \in 0 .. N : hy[i] \in Nat \ {0} /\ hx[i] \in Nat \ {0}
  BY <1>2, <1>3, <1>4 DEF Chain
<1>8. ASSUME NEW i \in 1 .. N, i % 2 = 1 PROVE hx[i - 1] = 2 * hx[i] /\ hy[i - 1] = hy[i]
  BY <1>2, <1>4, <1>5, <1>8 DEF Chain
<1>9. ASSUME NEW i \in 1 .. N, i % 2 # 1 PROVE hy[i - 1] = 2 * hy[i] /\ hx[i - 1] = hx[i]
  BY <1>2, <1>3, <1>5, <1>9 DEF Chain
<1> HIDE DEF hy, hx
<1>10. Sizes(hy, hx, N)
  BY <1>6, <1>7, <1>8, <1>9 DEF Sizes
<1> QED BY <1>10 DEF N

\* An interval of size 2 * h, some number of intervals from the end -H of -H .. H.
Interval(min, max, H, h) ==
    /\ {min, max} \subseteq Int /\ {H, h} \subseteq Nat \ {0}
    /\ max = min + 2 * h /\ -H <= min /\ max <= H
    /\ \E a \in Int : min = (a * (2 * h)) - H
    /\ \E m \in Int : H = m * h

\* The upper end belongs to the next interval, if there is one.
Within(z, min, max, H) == z \in Int /\ min <= z /\ (z < max \/ (z = max /\ max = H))

LEMMA WholeInterval ==
    ASSUME NEW H \in Nat \ {0} PROVE Interval(-H, H, H, H)
<1>1. -H = (0 * (2 * H)) - H /\ H = 1 * H
  OBVIOUS
<1> QED BY <1>1 DEF Interval

LEMMA HalfInterval ==
    ASSUME NEW min, NEW max, NEW H, NEW h, NEW g \in Nat \ {0}, h = 2 * g,
           Interval(min, max, H, h)
    PROVE  /\ (min + max) \div 2 = min + h
           /\ Interval(min, min + h, H, g) /\ Interval(min + h, max, H, g)
<1> USE DEF Interval
<1>1. (min + max) \div 2 = min + h
  OBVIOUS
<1>2. PICK a \in Int : min = (a * (2 * h)) - H
  OBVIOUS
<1>3. PICK m \in Int : H = m * h
  OBVIOUS
<1>4. /\ min = ((2 * a) * (2 * g)) - H
      /\ min + h = ((2 * a + 1) * (2 * g)) - H
      /\ H = (2 * m) * g
  BY <1>2, <1>3
<1>5. 2 * a \in Int /\ 2 * a + 1 \in Int /\ 2 * m \in Int
  OBVIOUS
<1> QED BY <1>1, <1>4, <1>5

\* Intervals of one size: when points of theirs are less than a size apart, they are the
\* same or adjacent.
LEMMA FewSteps ==
    ASSUME NEW c \in Int, NEW w \in Nat \ {0}, NEW n \in Int, c * w < n * w
    PROVE  c < n
<1>1. SUFFICES ASSUME c >= n PROVE FALSE
  OBVIOUS
<1>2. (c - n) * w >= 0
  BY <1>1
<1>3. (c - n) * w = c * w - n * w
  OBVIOUS
<1>4. c * w \in Int /\ n * w \in Int
  OBVIOUS
<1> QED BY <1>2, <1>3, <1>4

LEMMA Adjacent ==
    ASSUME NEW min, NEW max, NEW min2, NEW max2, NEW H, NEW h, NEW z, NEW z2,
           Interval(min, max, H, h), Interval(min2, max2, H, h),
           Within(z, min, max, H), Within(z2, min2, max2, H),
           z - z2 < 2 * h, z2 - z < 2 * h
    PROVE  min2 = min \/ min2 = min + 2 * h \/ min2 = min - 2 * h
<1>0. /\ min \in Int /\ max \in Int /\ min2 \in Int /\ max2 \in Int /\ h \in Nat \ {0}
      /\ H \in Nat \ {0} /\ z \in Int /\ z2 \in Int
  BY DEF Interval, Within
<1>1. min2 - min < 4 * h /\ min - min2 < 4 * h
  BY <1>0 DEF Interval, Within
<1>2. PICK a \in Int : min = (a * (2 * h)) - H
  BY DEF Interval
<1>3. PICK b \in Int : min2 = (b * (2 * h)) - H
  BY DEF Interval
<1> DEFINE w == 2 * h
<1>4. w \in Nat \ {0} /\ a * w \in Int /\ b * w \in Int /\ 4 * h = 2 * w
  BY <1>0
<1>5. min2 - min = (b - a) * w /\ min - min2 = (a - b) * w
  BY <1>0, <1>2, <1>3, <1>4
<1> HIDE DEF w
<1>6. (b - a) * w < 2 * w /\ (a - b) * w < 2 * w
  BY <1>1, <1>4, <1>5
<1>7. b - a < 2 /\ a - b < 2
  <2>1. b - a \in Int /\ a - b \in Int /\ 2 \in Int
    OBVIOUS
  <2> QED BY <1>4, <1>6, <2>1, FewSteps
<1>8. b - a = 0 \/ b - a = 1 \/ b - a = -1
  BY <1>7
<1>9. (b - a) * w = 0 \/ (b - a) * w = w \/ (b - a) * w = -w
  BY <1>4, <1>8
<1> QED BY <1>0, <1>4, <1>5, <1>9 DEF w

\* The same around the world: the first interval is next to the last.
LEMMA Antipodes ==
    ASSUME NEW min, NEW max, NEW min2, NEW max2, NEW H, NEW h, NEW z, NEW z2,
           Interval(min, max, H, h), Interval(min2, max2, H, h),
           Within(z, min, max, H), Within(z2, min2, max2, H),
           2 * H - (z - z2) < 2 * h
    PROVE  max = H /\ min2 = -H
<1>0. /\ min \in Int /\ max \in Int /\ min2 \in Int /\ max2 \in Int /\ h \in Nat \ {0}
      /\ H \in Nat \ {0} /\ z \in Int /\ z2 \in Int /\ max = min + 2 * h
      /\ -H <= min2 /\ max <= H
  BY DEF Interval, Within
<1>1. z - z2 <= max - min2
  BY <1>0 DEF Within
<1>2. PICK a \in Int : min = (a * (2 * h)) - H
  BY DEF Interval
<1>3. PICK b \in Int : min2 = (b * (2 * h)) - H
  BY DEF Interval
<1>4. PICK m \in Int : H = m * h
  BY DEF Interval
<1> DEFINE w == 2 * h
<1>5. w \in Nat \ {0} /\ a * w \in Int /\ b * w \in Int /\ m * w \in Int /\ 2 * H = m * w
  BY <1>0, <1>4
<1>6. max = (a + 1) * w - H
  BY <1>0, <1>2
<1>7. max - min2 > 2 * H - w
  BY <1>0, <1>1 DEF w
<1>8. (0 - b) * w < 1 * w /\ a * w < m * w
  <2>1. (0 - b) * w = -(b * w) /\ (a + 1) * w = a * w + w
    BY <1>5
  <2>2. b * w >= 0 /\ a * w + w <= m * w
    BY <1>0, <1>3, <1>5, <1>6, <2>1 DEF w
  <2> HIDE DEF w
  <2> QED BY <1>5, <2>1, <2>2
<1>9. (m - 2) * w < (a - b) * w
  <2>1. (m - 2) * w = m * w - 2 * w /\ (a - b) * w = a * w - b * w /\ (a + 1) * w = a * w + w
    BY <1>5
  <2>2. min2 = b * w - H
    BY <1>3
  <2> HIDE DEF w
  <2> QED BY <1>0, <1>5, <1>6, <1>7, <2>1, <2>2
<1> HIDE DEF w
<1>10. 0 - b < 1 /\ a < m /\ m - 2 < a - b
  <2>1. 0 - b \in Int /\ 1 \in Int /\ m - 2 \in Int /\ a - b \in Int
    OBVIOUS
  <2> QED BY <1>5, <1>8, <1>9, <2>1, FewSteps
<1>11. b = 0 /\ a + 1 = m
  BY <1>10
<1>12. min2 = 0 * w - H /\ max = m * w - H
  BY <1>3, <1>6, <1>11 DEF w
<1>13. 0 * w = 0
  BY <1>5
<1> QED BY <1>0, <1>5, <1>12, <1>13

\* The halves of an interval: a point is in the one that it is compared into, and only
\* there.
Splits(min, mid, max, H, g) ==
    /\ Interval(min, mid, H, g) /\ Interval(mid, max, H, g)
    /\ \A z : Within(z, min, max, H) /\ z >= mid <=> Within(z, mid, max, H)
    /\ \A z : Within(z, min, max, H) /\ ~ (z >= mid) <=> Within(z, min, mid, H)

LEMMA SplitInterval ==
    ASSUME NEW min, NEW max, NEW H, NEW h, NEW g \in Nat \ {0}, h = 2 * g,
           Interval(min, max, H, h), NEW mid, mid = (min + max) \div 2
    PROVE  Splits(min, mid, max, H, g)
<1>1. mid = min + h /\ Interval(min, mid, H, g) /\ Interval(mid, max, H, g)
  BY HalfInterval
<1>2. /\ min \in Int /\ max \in Int /\ H \in Nat /\ h \in Nat \ {0} /\ mid \in Int
      /\ max = min + 2 * h /\ max <= H
  BY <1>1 DEF Interval
<1>3. min <= mid /\ mid < max /\ mid # H
  BY <1>1, <1>2
<1>4. ASSUME NEW z
      PROVE  /\ Within(z, min, max, H) /\ z >= mid <=> Within(z, mid, max, H)
             /\ Within(z, min, max, H) /\ ~ (z >= mid) <=> Within(z, min, mid, H)
  BY <1>2, <1>3 DEF Within
<1> QED BY <1>1, <1>4 DEF Splits

Boxes == [minLat : Int, maxLat : Int, minLng : Int, maxLng : Int]

Cell(b, hy, hx, i) ==
    /\ b \in Boxes
    /\ Interval(b.minLat, b.maxLat, HalfLat, hy[i]) /\ Interval(b.minLng, b.maxLng, HalfLng, hx[i])

Inside(y, x, b) == Within(y, b.minLat, b.maxLat, HalfLat) /\ Within(x, b.minLng, b.maxLng, HalfLng)

\* Bit i of the hash of the point, and the step of Encode's loop that appends it.
Bit(b, i, y, x) == IF i % 2 = 1 THEN x >= Geo!midLng(b) ELSE y >= Geo!midLat(b)

BitPass(s, i, y, x) ==
    [bits |-> Append(s.bits, Bit(s.box, i, y, x)),
     box |-> Geo!Half(s.box, i % 2 = 1, Bit(s.box, i, y, x))]

LEMMA HalfBox ==
    ASSUME NEW hy, NEW hx, NEW N \in Nat, Sizes(hy, hx, N), NEW i \in 1 .. N,
           NEW b, Cell(b, hy, hx, i - 1), NEW set \in BOOLEAN
    PROVE  /\ Cell(Geo!Half(b, i % 2 = 1, set), hy, hx, i)
           /\ \A y, x : Inside(y, x, b) /\ Bit(b, i, y, x) = set
                        <=> Inside(y, x, Geo!Half(b, i % 2 = 1, set))
<1> DEFINE c == Geo!Half(b, i % 2 = 1, set)
<1>1. /\ i \in 0 .. N /\ i - 1 \in 0 .. N /\ b \in Boxes
      /\ hy[i] \in Nat \ {0} /\ hx[i] \in Nat \ {0}
      /\ Interval(b.minLat, b.maxLat, HalfLat, hy[i - 1])
      /\ Interval(b.minLng, b.maxLng, HalfLng, hx[i - 1])
  BY DEF Sizes, Cell
<1>2. CASE i % 2 = 1
  <2> DEFINE mid == Geo!midLng(b)
  <2>1. hx[i - 1] = 2 * hx[i] /\ hy[i - 1] = hy[i]
    BY <1>2 DEF Sizes
  <2>2. mid = (b.minLng + b.maxLng) \div 2 /\ mid \in Int
    BY <1>1 DEF Geo!midLng, Boxes
  <2> HIDE DEF mid
  <2>3. Splits(b.minLng, mid, b.maxLng, HalfLng, hx[i])
    BY <1>1, <2>1, <2>2, SplitInterval
  <2>4. /\ c \in Boxes /\ c.minLat = b.minLat /\ c.maxLat = b.maxLat
        /\ set => c.minLng = mid /\ c.maxLng = b.maxLng
        /\ ~ set => c.minLng = b.minLng /\ c.maxLng = mid
    BY <1>1, <1>2, <2>2 DEF Boxes, Geo!Half, mid
  <2> HIDE DEF c
  <2>5. Cell(c, hy, hx, i)
    BY <1>1, <2>1, <2>3, <2>4 DEF Cell, Splits
  <2>6. ASSUME NEW y, NEW x PROVE Inside(y, x, b) /\ Bit(b, i, y, x) = set <=> Inside(y, x, c)
    <3>1. Bit(b, i, y, x) <=> x >= mid
      BY <1>2 DEF Bit, mid
    <3>2. Bit(b, i, y, x) \in BOOLEAN
      BY <1>2 DEF Bit
    <3> QED BY <2>3, <2>4, <3>1, <3>2 DEF Inside, Splits
  <2> QED BY <2>5, <2>6 DEF c
<1>3. CASE i % 2 # 1
  <2> DEFINE mid == Geo!midLat(b)
  <2>1. hy[i - 1] = 2 * hy[i] /\ hx[i - 1] = hx[i]
    BY <1>3 DEF Sizes
  <2>2. mid = (b.minLat + b.maxLat) \div 2 /\ mid \in Int
    BY <1>1 DEF Geo!midLat, Boxes
  <2> HIDE DEF mid
  <2>3. Splits(b.minLat, mid, b.maxLat, HalfLat, hy[i])
    BY <1>1, <2>1, <2>2, SplitInterval
  <2>4. /\ c \in Boxes /\ c.minLng = b.minLng /\ c.maxLng = b.maxLng
        /\ set => c.minLat = mid /\ c.maxLat = b.maxLat
        /\ ~ set => c.minLat = b.minLat /\ c.maxLat = mid
    BY <1>1, <1>3, <2>2 DEF Boxes, Geo!Half, mid
  <2> HIDE DEF c
  <2>5. Cell(c, hy, hx, i)
    BY <1>1, <2>1, <2>3, <2>4 DEF Cell, Splits
  <2>6. ASSUME NEW y, NEW x PROVE Inside(y, x, b) /\ Bit(b, i, y, x) = set <=> Inside(y, x, c)
    <3>1. Bit(b, i, y, x) <=> y >= mid
      BY <1>3 DEF Bit, mid
    <3>2. Bit(b, i, y, x) \in BOOLEAN
      BY <1>3 DEF Bit
    <3> QED BY <2>3, <2>4, <3>1, <3>2 DEF Inside, Splits
  <2> QED BY <2>5, <2>6 DEF c
<1> QED BY <1>2, <1>3

NoBits == [bits |-> <<>>, box |-> Geo!World]

BitStates == [bits : Seq(BOOLEAN), box : Boxes]

Run(f, y, x, n) == f[0] = NoBits /\ \A i \in 1 .. n : f[i] = BitPass(f[i - 1], i, y, x)

LEMMA WorldIsCell ==
    ASSUME NEW hy, NEW hx, NEW N \in Nat, Sizes(hy, hx, N)
    PROVE  /\ Geo!World \in Boxes /\ Cell(Geo!World, hy, hx, 0)
           /\ \A y \in -HalfLat .. HalfLat, x \in -HalfLng .. HalfLng : Inside(y, x, Geo!World)
<1>1. HalfLat \in Nat \ {0} /\ HalfLng \in Nat \ {0}
  BY GeoConstants
<1>2. /\ Geo!World \in Boxes
      /\ Geo!World.minLat = -HalfLat /\ Geo!World.maxLat = HalfLat
      /\ Geo!World.minLng = -HalfLng /\ Geo!World.maxLng = HalfLng
  BY <1>1 DEF Geo!World, Boxes
<1> HIDE DEF Geo!World
<1>3. Cell(Geo!World, hy, hx, 0)
  BY <1>1, <1>2, WholeInterval DEF Cell, Sizes
<1>4. \A y \in -HalfLat .. HalfLat, x \in -HalfLng .. HalfLng : Inside(y, x, Geo!World)
  BY <1>1, <1>2 DEF Inside, Within
<1> QED BY <1>2, <1>3, <1>4

LEMMA BitPassType ==
    ASSUME NEW s \in BitStates, NEW i, NEW y, NEW x
    PROVE  BitPass(s, i, y, x) \in BitStates /\ Bit(s.box, i, y, x) \in BOOLEAN
<1>1. s.box \in Boxes /\ s.bits \in Seq(BOOLEAN)
  BY DEF BitStates
<1>2. Geo!midLat(s.box) \in Int /\ Geo!midLng(s.box) \in Int
  BY <1>1 DEF Boxes, Geo!midLat, Geo!midLng
<1> DEFINE t == Bit(s.box, i, y, x)
<1>3. t \in BOOLEAN
  <2>1. \A a, b : (a >= b) \in BOOLEAN
    OBVIOUS
  <2> QED BY <2>1 DEF Bit
<1> HIDE DEF t, Geo!midLat, Geo!midLng
<1>4. Geo!Half(s.box, i % 2 = 1, t) \in Boxes
  BY <1>1, <1>2 DEF Geo!Half, Boxes
<1>5. Append(s.bits, t) \in Seq(BOOLEAN)
  BY <1>1, <1>3
<1>6. BitPass(s, i, y, x) = [bits |-> Append(s.bits, t), box |-> Geo!Half(s.box, i % 2 = 1, t)]
  BY DEF BitPass, t
<1>7. BitPass(s, i, y, x) \in BitStates
  <2> HIDE DEF Boxes
  <2> QED BY <1>4, <1>5, <1>6 DEF BitStates
<1> QED BY <1>3, <1>7 DEF t

\* Encode's loop has a run.
LEMMA BisectRuns ==
    ASSUME NEW y, NEW x, NEW N \in Nat
    PROVE  \E f : Run(f, y, x, N) /\ f[N] = Geo!Bisect(y, x, N)
<1> DEFINE F == [i \in 1 .. N |-> [s \in BitStates |-> BitPass(s, i, y, x)]]
           at == CHOOSE p : p = [i \in 0 .. N |->
                     IF i = 0 THEN NoBits ELSE BitPass(p[i - 1], i, y, x)]
<1>1. Geo!Bisect(y, x, N) = at[N]
  BY DEF Geo!Bisect, BitPass, Bit, NoBits
<1>2. NoBits \in BitStates
  <2>1. Geo!World \in Boxes
    BY GeoConstants DEF Geo!World, Boxes
  <2>2. <<>> \in Seq(BOOLEAN)
    OBVIOUS
  <2> HIDE DEF Geo!World, Boxes
  <2> QED BY <2>1, <2>2 DEF NoBits, BitStates
<1> HIDE DEF NoBits, BitPass, BitStates
<1>3. Passes(F, N, BitStates)
  BY BitPassType DEF Passes
<1>4. PICK g : RunOf(g, F, N, BitStates, NoBits)
  <2> HIDE DEF F
  <2> QED BY <1>2, <1>3, LoopRuns
<1>5. g \in [0 .. N -> BitStates] /\ g[0] = NoBits
      /\ \A i \in 1 .. N : g[i] = BitPass(g[i - 1], i, y, x)
  <2>1. g \in [0 .. N -> BitStates] /\ g[0] = NoBits /\ \A i \in 1 .. N : g[i] = F[i][g[i - 1]]
    <3> HIDE DEF F
    <3> QED BY <1>4 DEF RunOf
  <2>2. ASSUME NEW i \in 1 .. N PROVE g[i] = BitPass(g[i - 1], i, y, x)
    <3>1. i - 1 \in 0 .. N
      OBVIOUS
    <3>2. g[i - 1] \in BitStates
      BY <2>1, <3>1
    <3> QED BY <2>1, <3>2
  <2> QED BY <2>1, <2>2
<1> HIDE DEF F
<1>6. g = [i \in 0 .. N |-> IF i = 0 THEN NoBits ELSE BitPass(g[i - 1], i, y, x)]
  <2>1. \A i \in 0 .. N : i # 0 => i \in 1 .. N
    OBVIOUS
  <2> QED BY <1>5, <2>1
<1>7. at = [i \in 0 .. N |-> IF i = 0 THEN NoBits ELSE BitPass(at[i - 1], i, y, x)]
  BY <1>6
<1> HIDE DEF at
<1>8. Run(at, y, x, N)
  <2>1. \A i \in 1 .. N : i \in 0 .. N /\ i # 0
    OBVIOUS
  <2>2. at[0] = NoBits
    BY <1>7
  <2>3. \A i \in 1 .. N : at[i] = BitPass(at[i - 1], i, y, x)
    BY <1>7, <2>1
  <2> QED BY <2>2, <2>3 DEF Run
<1> QED BY <1>1, <1>8

\* After i passes there are i bits, and the cell that they stand for has the point.
RunAt(f, y, x, hy, hx, i) ==
    /\ f[i] \in BitStates /\ Len(f[i].bits) = i
    /\ \A l \in 1 .. i : f[i].bits[l] = Bit(f[l - 1].box, l, y, x)
    /\ Cell(f[i].box, hy, hx, i) /\ Inside(y, x, f[i].box)

LEMMA RunBits ==
    ASSUME NEW hy, NEW hx, NEW N \in Nat, Sizes(hy, hx, N), NEW n \in 0 .. N,
           NEW y \in -HalfLat .. HalfLat, NEW x \in -HalfLng .. HalfLng,
           NEW f, Run(f, y, x, n)
    PROVE  \A i \in 0 .. n : RunAt(f, y, x, hy, hx, i)
<1> DEFINE S == {i \in 0 .. n : RunAt(f, y, x, hy, hx, i)}
<1>1. 0 \in S
  <2>1. f[0] = NoBits
    BY DEF Run
  <2>2. Geo!World \in Boxes /\ Cell(Geo!World, hy, hx, 0) /\ Inside(y, x, Geo!World)
    BY WorldIsCell
  <2>3. <<>> \in Seq(BOOLEAN) /\ Len(<<>>) = 0
    OBVIOUS
  <2>4. f[0].bits = <<>> /\ f[0].box = Geo!World /\ f[0] \in BitStates
    <3> HIDE DEF Geo!World, Boxes
    <3> QED BY <2>1, <2>2, <2>3 DEF NoBits, BitStates
  <2> HIDE DEF Geo!World
  <2>5. RunAt(f, y, x, hy, hx, 0)
    BY <2>2, <2>3, <2>4 DEF RunAt
  <2> QED BY <2>5
<1>2. ASSUME NEW i \in 1 .. n, i - 1 \in S PROVE i \in S
  <2> DEFINE s == f[i - 1]
             t == Bit(s.box, i, y, x)
  <2>1. RunAt(f, y, x, hy, hx, i - 1) /\ f[i] = BitPass(s, i, y, x) /\ i \in 1 .. N
    BY <1>2 DEF Run
  <2>2. s \in BitStates /\ f[i] \in BitStates /\ t \in BOOLEAN
    BY <2>1, BitPassType DEF RunAt
  <2>3. f[i].bits = Append(s.bits, t) /\ f[i].box = Geo!Half(s.box, i % 2 = 1, t)
    BY <2>1 DEF BitPass
  <2>4. s.bits \in Seq(BOOLEAN) /\ Len(s.bits) = i - 1
    BY <2>1, <2>2 DEF RunAt, BitStates
  <2>5. Cell(f[i].box, hy, hx, i) /\ Inside(y, x, f[i].box)
    <3> HIDE DEF s, t
    <3>1. Cell(s.box, hy, hx, i - 1) /\ Inside(y, x, s.box)
      BY <2>1 DEF RunAt, s
    <3> QED BY <2>1, <2>2, <2>3, <3>1, HalfBox DEF t
  <2> HIDE DEF t
  <2>6. /\ Len(f[i].bits) = i /\ f[i].bits[i] = t
        /\ \A l \in 1 .. (i - 1) : f[i].bits[l] = s.bits[l]
    BY <2>2, <2>3, <2>4
  <2>7. ASSUME NEW l \in 1 .. i PROVE f[i].bits[l] = Bit(f[l - 1].box, l, y, x)
    <3>1. CASE l = i
      BY <2>6, <3>1 DEF t
    <3>2. CASE l # i
      <4>1. l \in 1 .. (i - 1)
        BY <3>2
      <4> QED BY <2>1, <2>6, <4>1 DEF RunAt
    <3> QED BY <3>1, <3>2
  <2>8. RunAt(f, y, x, hy, hx, i)
    BY <2>2, <2>5, <2>6, <2>7 DEF RunAt
  <2> QED BY <2>8
<1>3. \A i \in 0 .. n : i \in S
  <2> HIDE DEF S
  <2> QED BY <1>1, <1>2, CountUp
<1> QED BY <1>3

\* A point in the cell of another has the same bits.
LEMMA RunsAgree ==
    ASSUME NEW hy, NEW hx, NEW N \in Nat, Sizes(hy, hx, N), NEW n \in 0 .. N, NEW m \in 0 .. n,
           NEW y \in -HalfLat .. HalfLat, NEW x \in -HalfLng .. HalfLng,
           NEW f, Run(f, y, x, n), NEW v, NEW u, NEW g, Run(g, v, u, m),
           Inside(v, u, f[m].box)
    PROVE  g[m] = f[m]
<1> DEFINE S == {i \in 0 .. m : Inside(v, u, f[i].box) => g[i] = f[i]}
<1>1. 0 \in S
  BY DEF Run
<1>2. ASSUME NEW i \in 1 .. m, i - 1 \in S PROVE i \in S
  <2> SUFFICES ASSUME Inside(v, u, f[i].box) PROVE g[i] = f[i]
    OBVIOUS
  <2> DEFINE s == f[i - 1]
             t == Bit(s.box, i, y, x)
  <2>1. /\ i \in 1 .. n /\ i \in 1 .. N /\ i - 1 \in 0 .. n
        /\ f[i] = BitPass(s, i, y, x) /\ g[i] = BitPass(g[i - 1], i, v, u)
    BY DEF Run
  <2>2. RunAt(f, y, x, hy, hx, i - 1)
    BY <2>1, RunBits
  <2>3. Cell(s.box, hy, hx, i - 1) /\ t \in BOOLEAN /\ f[i].box = Geo!Half(s.box, i % 2 = 1, t)
    <3>1. s \in BitStates /\ Cell(s.box, hy, hx, i - 1)
      BY <2>2 DEF RunAt
    <3>2. t \in BOOLEAN
      BY <3>1, BitPassType
    <3> QED BY <2>1, <3>1, <3>2 DEF BitPass
  <2>4. Inside(v, u, s.box) /\ Bit(s.box, i, v, u) = t
    <3> HIDE DEF s, t
    <3> QED BY <2>1, <2>3, HalfBox
  <2>5. g[i - 1] = s
    BY <1>2, <2>4
  <2> QED BY <2>1, <2>4, <2>5 DEF BitPass
<1>3. m \in S
  <2>1. m \in 0 .. m
    OBVIOUS
  <2> HIDE DEF S
  <2> QED BY <1>1, <1>2, <2>1, CountUp
<1> QED BY <1>3

\* Decode finds the cell of the bits again.
LEMMA DecodeRun ==
    ASSUME NEW hy, NEW hx, NEW N \in Nat, Sizes(hy, hx, N), NEW n \in 0 .. N,
           NEW y \in -HalfLat .. HalfLat, NEW x \in -HalfLng .. HalfLng,
           NEW f, Run(f, y, x, n)
    PROVE  Geo!Decode(f[n].bits) = f[n].box
<1> DEFINE hash0 == f[n].bits
           g == [i \in 0 .. n |-> f[i].box]
           at == CHOOSE p : p = [i \in 0 .. n |->
                     IF i = 0 THEN Geo!World ELSE Geo!Half(p[i - 1], i % 2 = 1, hash0[i])]
<1>1. n \in 0 .. n /\ n \in Nat
  OBVIOUS
<1>2. \A i \in 0 .. n : RunAt(f, y, x, hy, hx, i)
  BY RunBits
<1>3. Len(hash0) = n /\ \A i \in 1 .. n : hash0[i] = Bit(f[i - 1].box, i, y, x)
  BY <1>1, <1>2 DEF RunAt
<1> HIDE DEF hash0
<1>4. Geo!Decode(hash0) = at[n]
  BY <1>3 DEF Geo!Decode
<1>5. f[0].box = Geo!World
  BY DEF Run, NoBits
<1>6. ASSUME NEW i \in 1 .. n PROVE f[i].box = Geo!Half(f[i - 1].box, i % 2 = 1, hash0[i])
  <2> HIDE DEF g, at
  <2>1. f[i] = BitPass(f[i - 1], i, y, x)
    BY DEF Run
  <2>2. hash0[i] = Bit(f[i - 1].box, i, y, x)
    BY <1>3
  <2> HIDE DEF Bit, Geo!Half
  <2> QED BY <2>1, <2>2 DEF BitPass
<1> HIDE DEF Geo!World, Geo!Half
<1>7. g = [i \in 0 .. n |-> IF i = 0 THEN Geo!World ELSE Geo!Half(g[i - 1], i % 2 = 1, hash0[i])]
  <2>1. \A i \in 0 .. n : i # 0 => i \in 1 .. n /\ i - 1 \in 0 .. n
    OBVIOUS
  <2> QED BY <1>5, <1>6, <2>1
<1> HIDE DEF g
<1>8. at = [i \in 0 .. n |-> IF i = 0 THEN Geo!World ELSE Geo!Half(at[i - 1], i % 2 = 1, hash0[i])]
  BY <1>7
<1> HIDE DEF at
<1> DEFINE S == {i \in 0 .. n : at[i] = f[i].box}
<1>9. 0 \in S
  BY <1>5, <1>8
<1>10. ASSUME NEW i \in 1 .. n, i - 1 \in S PROVE i \in S
  <2>1. i \in 0 .. n /\ i # 0
    OBVIOUS
  <2>2. at[i] = Geo!Half(at[i - 1], i % 2 = 1, hash0[i])
    BY <1>8, <2>1
  <2> QED BY <1>6, <1>10, <2>1, <2>2
<1>11. n \in S
  <2> HIDE DEF S
  <2> QED BY <1>1, <1>9, <1>10, CountUp
<1> QED BY <1>4, <1>11 DEF hash0

\* The bits of a hash of p characters are those of a run.
Hashed(f, y, x, p) ==
    /\ Run(f, y, x, CharBits * p) /\ Geo!Encode(y, x, p) = f[CharBits * p].bits
    /\ Geo!Decode(f[CharBits * p].bits) = f[CharBits * p].box

LEMMA Precisions ==
    ASSUME NEW p \in 1 .. MaxPrecision
    PROVE  /\ CharBits * MaxPrecision \in Nat /\ CharBits * p \in 0 .. CharBits * MaxPrecision
           /\ (CharBits * p) \div CharBits = p
           /\ \A q \in 1 .. p : CharBits * q \in 0 .. CharBits * p
<1>1. CharBits \in Nat \ {0} /\ MaxPrecision \in Nat \ {0}
  BY GeoConstants
<1>2. ASSUME NEW a \in Nat, NEW b \in Nat, a <= b
      PROVE  CharBits * a \in Nat /\ CharBits * b \in Nat /\ CharBits * a <= CharBits * b
  <2>1. CharBits * (b - a) >= 0 /\ CharBits * (b - a) = CharBits * b - CharBits * a
    BY <1>1, <1>2
  <2>2. CharBits * a \in Nat /\ CharBits * b \in Nat
    BY <1>1
  <2> QED BY <2>1, <2>2
<1>3. CharBits * MaxPrecision \in Nat /\ CharBits * p \in 0 .. CharBits * MaxPrecision
  BY <1>1, <1>2
<1>4. (CharBits * p) \div CharBits = p
  BY <1>1
<1>5. \A q \in 1 .. p : CharBits * q \in 0 .. CharBits * p
  BY <1>1, <1>2
<1> QED BY <1>3, <1>4, <1>5

LEMMA EncodeRuns ==
    ASSUME NEW hy, NEW hx, Sizes(hy, hx, CharBits * MaxPrecision), NEW p \in 1 .. MaxPrecision,
           NEW y \in -HalfLat .. HalfLat, NEW x \in -HalfLng .. HalfLng
    PROVE  \E f : Hashed(f, y, x, p)
<1> DEFINE n == CharBits * p
           N == CharBits * MaxPrecision
<1>1. N \in Nat /\ n \in 0 .. N /\ n \in Nat /\ MaxPrecision \in Nat
  BY Precisions, GeoConstants
<1>2. Geo!Encode(y, x, p) = Geo!Bisect(y, x, n).bits
  <2>1. ~ (p < 1)
    BY <1>1
  <2> QED BY <2>1 DEF Geo!Encode
<1> HIDE DEF n, N
<1>3. PICK f : Run(f, y, x, n) /\ f[n] = Geo!Bisect(y, x, n)
  BY <1>1, BisectRuns
<1>4. Geo!Decode(f[n].bits) = f[n].box
  BY <1>1, <1>3, DecodeRun DEF N
<1>5. Hashed(f, y, x, p)
  BY <1>2, <1>3, <1>4 DEF Hashed, n
<1> QED BY <1>5

\* The row of a neighbour: the middle of the interval of any point less than a cell away.
RowStep(min, max, min2, max2, h) ==
    \E d \in -1 .. 1 :
        /\ Geo!clampLat((min + max) \div 2 + d * (max - min)) = min2 + h
        /\ d = 0 => min2 = min /\ max2 = max

LEMMA RowOfNeighbor ==
    ASSUME NEW min, NEW max, NEW min2, NEW max2, NEW h, NEW z, NEW z2,
           Interval(min, max, HalfLat, h), Interval(min2, max2, HalfLat, h),
           Within(z, min, max, HalfLat), Within(z2, min2, max2, HalfLat),
           Geo!Abs(z - z2) < max - min
    PROVE  RowStep(min, max, min2, max2, h)
<1> USE DEF RowStep
<1>1. /\ min \in Int /\ max \in Int /\ min2 \in Int /\ max2 \in Int /\ h \in Nat \ {0}
      /\ HalfLat \in Nat \ {0} /\ z \in Int /\ z2 \in Int
      /\ max = min + 2 * h /\ max2 = min2 + 2 * h /\ -HalfLat <= min2 /\ max2 <= HalfLat
  BY DEF Interval, Within
<1>2. (min + max) \div 2 = min + h /\ max - min = 2 * h
  BY <1>1
<1>3. z - z2 < 2 * h /\ z2 - z < 2 * h
  BY <1>1, <1>2 DEF Geo!Abs
<1>4. min2 = min \/ min2 = min + 2 * h \/ min2 = min - 2 * h
  BY <1>3, Adjacent
<1>5. Geo!clampLat(min2 + h) = min2 + h
  BY <1>1 DEF Geo!clampLat
<1>6. CASE min2 = min
  <2>1. min + h + 0 * (2 * h) = min2 + h /\ max2 = max
    BY <1>1, <1>6
  <2> QED BY <1>2, <1>5, <1>6, <2>1
<1>7. CASE min2 = min + 2 * h
  <2>1. min + h + 1 * (2 * h) = min2 + h
    BY <1>1, <1>7
  <2> QED BY <1>2, <1>5, <2>1
<1>8. CASE min2 = min - 2 * h
  <2>1. min + h + (-1) * (2 * h) = min2 + h
    BY <1>1, <1>8
  <2> QED BY <1>2, <1>5, <2>1
<1> QED BY <1>4, <1>6, <1>7, <1>8

\* The column, which may lie on the other side of the antimeridian.
ColumnStep(min, max, min2, max2, h) ==
    \E d \in -1 .. 1 :
        /\ Geo!wrapLng((min + max) \div 2 + d * (max - min)) = min2 + h
        /\ d = 0 => min2 = min /\ max2 = max

LEMMA ColumnOfNeighbor ==
    ASSUME NEW min, NEW max, NEW min2, NEW max2, NEW h, NEW z, NEW z2,
           Interval(min, max, HalfLng, h), Interval(min2, max2, HalfLng, h),
           Within(z, min, max, HalfLng), Within(z2, min2, max2, HalfLng),
           Geo!Around(z, z2) < max - min
    PROVE  ColumnStep(min, max, min2, max2, h)
<1> USE DEF ColumnStep
<1>1. /\ min \in Int /\ max \in Int /\ min2 \in Int /\ max2 \in Int /\ h \in Nat \ {0}
      /\ HalfLng \in Nat \ {0} /\ z \in Int /\ z2 \in Int
      /\ max = min + 2 * h /\ max2 = min2 + 2 * h
      /\ -HalfLng <= min2 /\ max2 <= HalfLng /\ -HalfLng <= min /\ max <= HalfLng
  BY DEF Interval, Within
<1>2. (min + max) \div 2 = min + h /\ max - min = 2 * h
  BY <1>1
<1>3. Geo!wrapLng(min2 + h) = min2 + h
  BY <1>1 DEF Geo!wrapLng
<1>4. CASE Geo!Abs(z - z2) <= HalfLng
  <2>1. z - z2 < 2 * h /\ z2 - z < 2 * h
    BY <1>1, <1>2, <1>4 DEF Geo!Abs, Geo!Around
  <2>2. min2 = min \/ min2 = min + 2 * h \/ min2 = min - 2 * h
    BY <2>1, Adjacent
  <2>3. CASE min2 = min
    <3>1. min + h + 0 * (2 * h) = min2 + h /\ max2 = max
      BY <1>1, <2>3
    <3> QED BY <1>2, <1>3, <2>3, <3>1
  <2>4. CASE min2 = min + 2 * h
    <3>1. min + h + 1 * (2 * h) = min2 + h
      BY <1>1, <2>4
    <3> QED BY <1>2, <1>3, <3>1
  <2>5. CASE min2 = min - 2 * h
    <3>1. min + h + (-1) * (2 * h) = min2 + h
      BY <1>1, <2>5
    <3> QED BY <1>2, <1>3, <3>1
  <2> QED BY <2>2, <2>3, <2>4, <2>5
<1>5. CASE Geo!Abs(z - z2) > HalfLng /\ z >= z2
  <2>1. 2 * HalfLng - (z - z2) < 2 * h
    BY <1>1, <1>2, <1>5 DEF Geo!Abs, Geo!Around
  <2>2. max = HalfLng /\ min2 = -HalfLng
    BY <2>1, Antipodes
  <2>3. Geo!wrapLng(min + h + 1 * (2 * h)) = min2 + h
    BY <1>1, <2>2 DEF Geo!wrapLng
  <2> QED BY <1>2, <2>3
<1>6. CASE Geo!Abs(z - z2) > HalfLng /\ z < z2
  <2>1. 2 * HalfLng - (z2 - z) < 2 * h
    BY <1>1, <1>2, <1>6 DEF Geo!Abs, Geo!Around
  <2>2. max2 = HalfLng /\ min = -HalfLng
    BY <2>1, Antipodes
  <2>3. Geo!wrapLng(min + h + (-1) * (2 * h)) = min2 + h
    BY <1>1, <2>2 DEF Geo!wrapLng
  <2> QED BY <1>2, <2>3
<1>7. Geo!Abs(z - z2) \in Int
  BY <1>1 DEF Geo!Abs
<1> QED BY <1>1, <1>4, <1>5, <1>6, <1>7

GeoTypeOK == lat \in -HalfLat .. HalfLat /\ lng \in -HalfLng .. HalfLng /\ precision \in 1 .. MaxPrecision

\* The points of a cell have one hash.
OneHash(b, code, p) == \A v, u \in Int : Inside(v, u, b) => Geo!Encode(v, u, p) = code

LEMMA CellHash ==
    ASSUME NEW hy, NEW hx, Sizes(hy, hx, CharBits * MaxPrecision), NEW p \in 1 .. MaxPrecision,
           NEW y \in -HalfLat .. HalfLat, NEW x \in -HalfLng .. HalfLng, NEW f, Hashed(f, y, x, p)
    PROVE  OneHash(f[CharBits * p].box, Geo!Encode(y, x, p), p)
<1> SUFFICES ASSUME NEW v \in Int, NEW u \in Int, Inside(v, u, f[CharBits * p].box)
             PROVE  Geo!Encode(v, u, p) = Geo!Encode(y, x, p)
  BY DEF OneHash
<1> DEFINE n == CharBits * p
           N == CharBits * MaxPrecision
<1>1. N \in Nat /\ n \in 0 .. N /\ n \in 0 .. n
  BY Precisions
<1>2. Run(f, y, x, n) /\ Geo!Encode(y, x, p) = f[n].bits /\ Inside(v, u, f[n].box)
  BY DEF Hashed
<1>3. Sizes(hy, hx, N)
  OBVIOUS
<1> HIDE DEF n, N
<1>4. RunAt(f, y, x, hy, hx, n)
  BY <1>1, <1>2, <1>3, RunBits
<1>5. v \in -HalfLat .. HalfLat /\ u \in -HalfLng .. HalfLng
  <2>1. Cell(f[n].box, hy, hx, n)
    BY <1>4 DEF RunAt
  <2> QED BY <1>2, <2>1, GeoConstants DEF Cell, Inside, Within, Interval, Boxes
<1>6. PICK g : Hashed(g, v, u, p)
  BY <1>5, EncodeRuns
<1>7. Run(g, v, u, n) /\ Geo!Encode(v, u, p) = g[n].bits
  BY <1>6 DEF Hashed, n
<1>8. g[n] = f[n]
  BY <1>1, <1>2, <1>3, <1>7, RunsAgree
<1> QED BY <1>2, <1>7, <1>8

\* The hash of fewer characters is a prefix.
LEMMA PrefixHash ==
    ASSUME NEW hy, NEW hx, Sizes(hy, hx, CharBits * MaxPrecision), NEW p \in 1 .. MaxPrecision,
           NEW y \in -HalfLat .. HalfLat, NEW x \in -HalfLng .. HalfLng, NEW q \in 1 .. p
    PROVE  SubSeq(Geo!Encode(y, x, p), 1, q * CharBits) = Geo!Encode(y, x, q)
<1> DEFINE n == CharBits * p
           m == CharBits * q
           N == CharBits * MaxPrecision
<1>1. N \in Nat /\ n \in 0 .. N /\ m \in 0 .. n /\ q * CharBits = m /\ q \in 1 .. MaxPrecision
  BY Precisions, GeoConstants
<1>2. Sizes(hy, hx, N)
  OBVIOUS
<1>3. PICK f : Run(f, y, x, n) /\ Geo!Encode(y, x, p) = f[n].bits
  BY EncodeRuns DEF Hashed
<1>4. PICK g : Run(g, y, x, m) /\ Geo!Encode(y, x, q) = g[m].bits
  BY <1>1, EncodeRuns DEF Hashed
<1> HIDE DEF n, m, N
<1>5. RunAt(f, y, x, hy, hx, n) /\ RunAt(f, y, x, hy, hx, m)
  <2>1. n \in 0 .. n
    BY <1>1
  <2> QED BY <1>1, <1>2, <1>3, <2>1, RunBits
<1>6. g[m] = f[m]
  BY <1>1, <1>2, <1>3, <1>4, <1>5, RunsAgree DEF RunAt
<1> DEFINE s == f[n].bits
           t == f[m].bits
<1>7. /\ s \in Seq(BOOLEAN) /\ Len(s) = n /\ t \in Seq(BOOLEAN) /\ Len(t) = m
      /\ \A l \in 1 .. m : t[l] = s[l]
  <2>1. 1 .. m \subseteq 1 .. n
    BY <1>1
  <2> QED BY <1>5, <2>1 DEF RunAt, BitStates
<1> HIDE DEF s, t
<1>8. SubSeq(s, 1, m) = t
  <2>1. /\ SubSeq(s, 1, m) \in Seq(BOOLEAN) /\ Len(SubSeq(s, 1, m)) = m
        /\ \A l \in 1 .. m : SubSeq(s, 1, m)[l] = s[l]
    BY <1>1, <1>7
  <2> DEFINE r == SubSeq(s, 1, m)
  <2>2. r \in Seq(BOOLEAN) /\ Len(r) = Len(t) /\ \A l \in 1 .. Len(t) : r[l] = t[l]
    BY <1>7, <2>1
  <2> HIDE DEF r
  <2>3. r = t
    BY <1>7, <2>2
  <2> QED BY <2>3 DEF r
<1> QED BY <1>1, <1>3, <1>4, <1>6, <1>8 DEF s, t

LEMMA GeoFinds == GeoTypeOK => Geo!NearbyIsFound
<1> SUFFICES ASSUME GeoTypeOK PROVE Geo!NearbyIsFound
  OBVIOUS
<1> USE DEF GeoTypeOK
<1> DEFINE n == CharBits * precision
           N == CharBits * MaxPrecision
           code == Geo!Encode(lat, lng, precision)
<1>1. PICK hy, hx : Sizes(hy, hx, N)
  BY SizesExist
<1>2. N \in Nat /\ n \in 0 .. N /\ n \in 0 .. n /\ n \div CharBits = precision
  BY Precisions
<1>3. PICK f : Hashed(f, lat, lng, precision)
  BY <1>1, EncodeRuns
<1> DEFINE b == f[n].box
<1>4. code = f[n].bits /\ Geo!Decode(code) = b /\ Run(f, lat, lng, n)
  BY <1>3 DEF Hashed
<1> HIDE DEF N, n
<1>5. /\ Len(code) = n /\ Cell(b, hy, hx, n) /\ Inside(lat, lng, b)
      /\ code \in Seq(BOOLEAN)
  <2>1. RunAt(f, lat, lng, hy, hx, n)
    BY <1>1, <1>2, <1>4, RunBits
  <2> QED BY <1>4, <2>1 DEF RunAt, BitStates
<1> HIDE DEF code, b
<1>6. lat \in b.minLat .. b.maxLat /\ lng \in b.minLng .. b.maxLng
  BY <1>5 DEF Cell, Boxes, Inside, Within
<1>7. \A q \in 1 .. precision : SubSeq(code, 1, q * CharBits) = Geo!Encode(lat, lng, q)
  BY <1>1, PrefixHash DEF N, code
<1>8. ASSUME NEW y \in -HalfLat .. HalfLat, NEW x \in -HalfLng .. HalfLng,
             Geo!Abs(lat - y) < b.maxLat - b.minLat, Geo!Around(lng, x) < b.maxLng - b.minLng
      PROVE  Geo!Encode(y, x, precision) \in Geo!SearchArea(lat, lng, precision)
  <2>1. PICK g : Hashed(g, y, x, precision)
    BY <1>1, EncodeRuns DEF N
  <2> DEFINE c == g[n].box
             v == c.minLat + hy[n]
             u == c.minLng + hx[n]
  <2>2. Cell(c, hy, hx, n) /\ Inside(y, x, c)
    <3>1. Run(g, y, x, n)
      BY <2>1 DEF Hashed, n
    <3>2. RunAt(g, y, x, hy, hx, n)
      BY <1>1, <1>2, <3>1, RunBits
    <3> QED BY <3>2 DEF RunAt
  <2>3. /\ Interval(b.minLat, b.maxLat, HalfLat, hy[n]) /\ Interval(b.minLng, b.maxLng, HalfLng, hx[n])
        /\ Interval(c.minLat, c.maxLat, HalfLat, hy[n]) /\ Interval(c.minLng, c.maxLng, HalfLng, hx[n])
        /\ Within(lat, b.minLat, b.maxLat, HalfLat) /\ Within(lng, b.minLng, b.maxLng, HalfLng)
        /\ Within(y, c.minLat, c.maxLat, HalfLat) /\ Within(x, c.minLng, c.maxLng, HalfLng)
    BY <1>5, <2>2 DEF Cell, Inside
  <2> HIDE DEF c
  <2>4. v \in Int /\ u \in Int /\ Inside(v, u, c)
    BY <2>3 DEF Interval, Inside, Within
  <2>5. Geo!Encode(v, u, precision) = Geo!Encode(y, x, precision)
    <3>1. OneHash(c, Geo!Encode(y, x, precision), precision)
      BY <1>1, <2>1, CellHash DEF N, n, c
    <3> HIDE DEF v, u
    <3> QED BY <2>4, <3>1 DEF OneHash
  <2>6. PICK d \in -1 .. 1 :
          /\ Geo!clampLat((b.minLat + b.maxLat) \div 2 + d * (b.maxLat - b.minLat)) = v
          /\ d = 0 => c.minLat = b.minLat /\ c.maxLat = b.maxLat
    <3>1. RowStep(b.minLat, b.maxLat, c.minLat, c.maxLat, hy[n])
      BY <1>8, <2>3, RowOfNeighbor
    <3> QED BY <3>1 DEF RowStep
  <2>7. PICK e \in -1 .. 1 :
          /\ Geo!wrapLng((b.minLng + b.maxLng) \div 2 + e * (b.maxLng - b.minLng)) = u
          /\ e = 0 => c.minLng = b.minLng /\ c.maxLng = b.maxLng
    <3>1. ColumnStep(b.minLng, b.maxLng, c.minLng, c.maxLng, hx[n])
      BY <1>8, <2>3, ColumnOfNeighbor
    <3> QED BY <3>1 DEF ColumnStep
  <2> HIDE DEF v, u
  <2>8. CASE d = 0 /\ e = 0
    <3>1. Inside(y, x, b)
      BY <2>2, <2>6, <2>7, <2>8 DEF Inside
    <3>2. y \in Int /\ x \in Int
      BY GeoConstants
    <3>3. Geo!Encode(y, x, precision) = code
      <4>1. OneHash(b, code, precision)
        BY <1>1, <1>3, CellHash DEF N, n, b, code
      <4> QED BY <3>1, <3>2, <4>1 DEF OneHash
    <3> QED BY <3>3 DEF Geo!SearchArea, code
  <2>9. CASE ~ (d = 0 /\ e = 0)
    <3> DEFINE ways == ((-1 .. 1) \X (-1 .. 1)) \ {<<0, 0>>}
               To(w) == Geo!Encode(Geo!clampLat(Geo!midLat(b) + w[1] * (b.maxLat - b.minLat)),
                                   Geo!wrapLng(Geo!midLng(b) + w[2] * (b.maxLng - b.minLng)),
                                   Len(code) \div CharBits)
    <3>1. Geo!Neighbors(code) = {To(w) : w \in ways}
      BY <1>4 DEF Geo!Neighbors
    <3>2. <<d, e>> \in ways
      BY <2>9
    <3>3. To(<<d, e>>) = Geo!Encode(v, u, precision)
      BY <1>2, <1>5, <2>6, <2>7 DEF Geo!midLat, Geo!midLng
    <3> HIDE DEF To, ways
    <3>4. Geo!Encode(y, x, precision) \in Geo!Neighbors(code)
      BY <2>5, <3>1, <3>2, <3>3
    <3> QED BY <3>4 DEF Geo!SearchArea, code
  <2> QED BY <2>8, <2>9
<1> QED BY <1>4, <1>6, <1>7, <1>8 DEF Geo!NearbyIsFound, code

\* Cluster.NearbyIsFound (geohash.go:134-136) for a world of any size that can be halved,
\* any number of bits per character and any precision: what is less than a cell away is in
\* the cells searched, across the antimeridian and up to the poles.
THEOREM NearbyIsAlwaysFound == Spec => []NearbyIsFound
<1>1. Init => GeoTypeOK
  BY GeoConstants DEF Init, Start, Geo!Init, GeoTypeOK
<1>2. GeoTypeOK /\ [Next]_vars => GeoTypeOK'
  <2> SUFFICES ASSUME GeoTypeOK, [Next]_vars PROVE GeoTypeOK'
    OBVIOUS
  <2>1. CASE UNCHANGED geoVars
    BY <2>1 DEF geoVars, GeoTypeOK
  <2>2. CASE Geo!Next
    <3>1. \A d \in -1 .. 1 : Geo!clampLat(lat + d) \in -HalfLat .. HalfLat
      BY GeoConstants DEF GeoTypeOK, Geo!clampLat
    <3>2. \A d \in -1 .. 1 : Geo!wrapLng(lng + d) \in -HalfLng .. HalfLng
      BY GeoConstants DEF GeoTypeOK, Geo!wrapLng
    <3> QED BY <2>2, <3>1, <3>2 DEF Geo!Next, Geo!Move, GeoTypeOK
  <2> QED BY <2>1, <2>2 DEF Next, IdStep, ReplicaStep, RingStep, GeoStep, vars
<1>3. GeoTypeOK => NearbyIsFound
  BY GeoFinds DEF NearbyIsFound
<1> QED BY <1>1, <1>2, <1>3, PTL DEF Spec
=============================================================================
