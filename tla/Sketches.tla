------------------------------ MODULE Sketches ------------------------------
(***************************************************************************)
(* The probabilistic structures of code/bloom_filter, count_min_sketch and *)
(* hyperloglog. A behaviour builds one of them, named by sketch. Hashes    *)
(* are any functions of the items, picked when the structure is built, so  *)
(* that every pattern of collisions comes up; what the sketches promise    *)
(* whatever the hashes are is in reach, their error rates are not.         *)
(***************************************************************************)
EXTENDS Integers, FiniteSetsExt

CONSTANTS
    Items,
    HashBits,      \* width of a hash, 64 in the code
    m, k,          \* BloomFilter: bits and hash functions
    w, d,          \* CountMinSketch: columns and rows
    p,             \* HyperLogLog: precision
    Shards,        \* HyperLogLogs of that precision
    MaxTotal       \* bound: a CountMinSketch counts no further

SketchAssumption ==
    /\ HashBits \in Nat /\ p \in 1 .. HashBits /\ 2^HashBits > 0
    /\ {m, k, w, d} \subseteq Nat \ {0} /\ MaxTotal \in Nat

VARIABLES
    sketch,         \* which structure was built, or "none"
    h1, h2,         \* the hashes of each item; HyperLogLog uses h1 only
    bits,           \* BloomFilter.bits: the indices that are set
    counts, total,  \* CountMinSketch
    registers,      \* HyperLogLog.registers, per shard
    truth, held     \* history: how often an item was added, and what a shard has seen

vars == <<sketch, h1, h2, bits, counts, total, registers, truth, held>>

Hashes == 0 .. (2^HashBits - 1)
\* The second hash is made odd.
Strides == {h \in Hashes : h % 2 = 1}
Rows == 0 .. (d - 1)
Registers == 0 .. (2^p - 1)

Init ==
    /\ sketch = "none"
    /\ h1 = [x \in Items |-> 0] /\ h2 = [x \in Items |-> 1]
    /\ bits = {}
    /\ counts = [i \in Rows |-> [c \in 0 .. (w - 1) |-> 0]] /\ total = 0
    /\ registers = [s \in Shards |-> [i \in Registers |-> 0]]
    /\ truth = [x \in Items |-> 0] /\ held = [s \in Shards |-> {}]

\* One of the constructors, in a world with some hash function.
New ==
    /\ sketch = "none"
    /\ sketch' \in {"BloomFilter", "CountMinSketch", "HyperLogLog"}
    /\ h1' \in [Items -> Hashes]
    /\ h2' \in IF sketch' = "HyperLogLog" THEN {h2} ELSE [Items -> Strides]
    /\ UNCHANGED <<bits, counts, total, registers, truth, held>>

\* (h1 + i*h2) % size; the sum wraps around before the remainder is taken.
Index(x, i, size) == ((h1[x] + i * h2[x]) % 2^HashBits) % size

-----------------------------------------------------------------------------

BloomAdd(x) ==
    /\ sketch = "BloomFilter"
    /\ bits' = bits \cup {Index(x, i, m) : i \in 0 .. (k - 1)}
    /\ truth' = [truth EXCEPT ![x] = 1]
    /\ UNCHANGED <<sketch, h1, h2, counts, total, registers, held>>

Contains(x) == \A i \in 0 .. (k - 1) : Index(x, i, m) \in bits

CountAdd(x, n) ==
    /\ sketch = "CountMinSketch" /\ total + n <= MaxTotal
    /\ counts' = [i \in Rows |-> [counts[i] EXCEPT ![Index(x, i, w)] = @ + n]]
    /\ total' = total + n
    /\ truth' = [truth EXCEPT ![x] = @ + n]
    /\ UNCHANGED <<sketch, h1, h2, bits, registers, held>>

Estimate(x) == Min({counts[i][Index(x, i, w)] : i \in Rows})

HeavyHitters(candidates, threshold) == {x \in candidates : Estimate(x) >= threshold}

-----------------------------------------------------------------------------

\* The top p bits of the hash pick the register.
register(x) == h1[x] \div 2^(HashBits - p)

\* One more than the leading zeros of the other bits, a one put after them.
rank(x) ==
    LET rest == h1[x] % 2^(HashBits - p) IN
    Cardinality({j \in 0 .. (HashBits - p) : rest < 2^j})

HyperAdd(s, x) ==
    /\ sketch = "HyperLogLog"
    /\ registers' = [registers EXCEPT ![s][register(x)] = Max({@, rank(x)})]
    /\ held' = [held EXCEPT ![s] = @ \cup {x}]
    /\ UNCHANGED <<sketch, h1, h2, bits, counts, total, truth>>

\* Mutant: s takes over the registers of t.
MergeOverwrites(s, t) ==
    /\ sketch = "HyperLogLog"
    /\ registers' = [registers EXCEPT ![s] = registers[t]]
    /\ held' = [held EXCEPT ![s] = @ \cup held[t]]
    /\ UNCHANGED <<sketch, h1, h2, bits, counts, total, truth>>

\* s.Merge(t): of one precision, so it is never refused.
Merge(s, t) ==
    /\ sketch = "HyperLogLog"
    /\ registers' = [registers EXCEPT ![s] = [i \in Registers |-> Max({@[i], registers[t][i]})]]
    /\ held' = [held EXCEPT ![s] = @ \cup held[t]]
    /\ UNCHANGED <<sketch, h1, h2, bits, counts, total, truth>>

\* Contains, Estimate and HeavyHitters change nothing.
Query == sketch # "none" /\ UNCHANGED vars

Next ==
    \/ New \/ Query
    \/ \E x \in Items : BloomAdd(x) \/ \E n \in 1 .. 2 : CountAdd(x, n)
    \/ \E s \in Shards : \E x \in Items : HyperAdd(s, x)
    \/ \E s, t \in Shards : Merge(s, t)

-----------------------------------------------------------------------------

\* bloom_test.go:9 "may lie about presence, never about absence".
NoFalseNegative == sketch = "BloomFilter" => \A x \in Items : truth[x] > 0 => Contains(x)

\* cms.go:4-5: an estimate lies between the true count and the total, so no candidate
\* that is frequent enough is missing from the heavy hitters.
NeverUnderCounts ==
    sketch = "CountMinSketch" =>
        /\ \A x \in Items : truth[x] <= Estimate(x) /\ Estimate(x) <= total
        /\ \A t \in 0 .. total : {x \in Items : truth[x] >= t} \subseteq HeavyHitters(Items, t)

\* hll.go:107-108 "per-shard counters combine losslessly": however items were spread,
\* repeated and merged, a shard is the counter that had seen them all itself.
MergesLosslessly ==
    sketch = "HyperLogLog" =>
        \A s \in Shards : \A i \in Registers :
            registers[s][i] = Max({0} \cup {rank(x) : x \in {y \in held[s] : register(y) = i}})

ErrOnOneSide == NoFalseNegative /\ NeverUnderCounts /\ MergesLosslessly
=============================================================================
