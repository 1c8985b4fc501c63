------------------------------ MODULE LFUCache ------------------------------
(***************************************************************************)
(* The LFU cache of code/lfu_cache/lfu.go: a list of frequency buckets in  *)
(* ascending order, each with its keys, most recently added first. The     *)
(* linked lists are sequences here; a node's bucket pointer is the bucket  *)
(* that holds it. LRUCache models the pointer work of such a list.         *)
(***************************************************************************)
EXTENDS Integers, Sequences, FiniteSets, SequencesExt, Lists

CONSTANTS
    Keys, Values,
    capacity,
    Missing,   \* what items holds for a key that has no node
    MaxFreq    \* bound: uses of one key while it is held

LFUAssumption ==
    /\ IsFiniteSet(Keys) /\ Missing \notin Values
    /\ capacity \in Nat \ {0} /\ MaxFreq \in Nat \ {0}

VARIABLES
    items,     \* LFUCache.items: the value in the node of each key
    buckets,   \* the buckets from the sentinel on, lowest frequency first
    uses,      \* history: how often each key was used since it was inserted
    recency    \* history: the keys ever used, most recently used first

vars == <<items, buckets, uses, recency>>

Held == {k \in Keys : items[k] # Missing}

Init ==
    /\ items = [k \in Keys |-> Missing]
    /\ buckets = <<>>
    /\ uses = [k \in Keys |-> 0]
    /\ recency = <<>>

newBucket(f) == [freq |-> f, nodes |-> <<>>]

\* The place of the bucket whose nodes hold k (lfuNode.bucket).
bucketOf(k) == CHOOSE i \in 1 .. Len(buckets) : Contains(buckets[i].nodes, k)

\* The bucket list with a bucket for frequency f right after place i, which may be 0
\* for the sentinel, unless it is there already.
withBucketAfter(bs, i, f) ==
    IF i < Len(bs) /\ bs[i + 1].freq = f THEN bs ELSE InsertAt(bs, i + 1, newBucket(f))

\* freqBucket.pushFront and freqBucket.remove on the bucket at place i.
pushFront(bs, i, k) == [bs EXCEPT ![i].nodes = <<k>> \o @]
remove(bs, i, k) == [bs EXCEPT ![i].nodes = Without(@, k)]

removeIfEmpty(bs, i) == IF bs[i].nodes = <<>> THEN RemoveAt(bs, i) ELSE bs

promote(k) ==
    LET i == bucketOf(k)
        with == withBucketAfter(buckets, i, buckets[i].freq + 1)
    IN  removeIfEmpty(pushFront(remove(with, i, k), i + 1, k), i)

\* The node evict removes: the last of the lowest bucket. It is called only when the
\* cache is full, so there is a bucket.
victim == Last(buckets[1].nodes)

\* The end of Put: the new node goes to the bucket for frequency 1.
add(bs, k) == pushFront(withBucketAfter(bs, 0, 1), 1, k)

Used(k) == recency' = <<k>> \o Without(recency, k)

Get(k) ==
    /\ items[k] # Missing /\ uses[k] < MaxFreq
    /\ buckets' = promote(k)
    /\ uses' = [uses EXCEPT ![k] = @ + 1]
    /\ Used(k)
    /\ UNCHANGED items

PutUpdate(k, v) ==
    /\ items[k] # Missing /\ uses[k] < MaxFreq
    /\ items' = [items EXCEPT ![k] = v]
    /\ buckets' = promote(k)
    /\ uses' = [uses EXCEPT ![k] = @ + 1]
    /\ Used(k)

PutInsert(k, v) ==
    /\ items[k] = Missing
    /\ Cardinality(Held) < capacity
    /\ items' = [items EXCEPT ![k] = v]
    /\ buckets' = add(buckets, k)
    /\ uses' = [uses EXCEPT ![k] = 1]
    /\ Used(k)

PutEvict(k, v) ==
    /\ items[k] = Missing
    /\ Cardinality(Held) >= capacity
    /\ items' = [items EXCEPT ![victim] = Missing, ![k] = v]
    /\ buckets' = add(removeIfEmpty(remove(buckets, 1, victim), 1), k)
    /\ uses' = [uses EXCEPT ![victim] = 0, ![k] = 1]
    /\ Used(k)

Put(k, v) == PutUpdate(k, v) \/ PutInsert(k, v) \/ PutEvict(k, v)

Next == \E k \in Keys : Get(k) \/ \E v \in Values : Put(k, v)

Spec == Init /\ [][Next]_vars

-----------------------------------------------------------------------------

\* Whether k was used more recently than g.
UsedAfter(k, g) ==
    \E i, j \in 1 .. Len(recency) : recency[i] = k /\ recency[j] = g /\ i < j

\* lfu.go:23-24 "evicts the least frequently used entry, breaking ties by least recently
\* used": no key that stays was used less than the one that goes, nor as often but
\* longer ago.
LeastUsedGoes ==
    [][\A gone \in Held \ Held' : \A k \in Held \cap Held' :
          \/ uses[gone] < uses[k]
          \/ uses[gone] = uses[k] /\ UsedAfter(k, gone)]_vars
=============================================================================
