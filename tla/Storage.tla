------------------------------ MODULE Storage ------------------------------
(***************************************************************************)
(* The storage structures of the handbook: write-ahead log, LSM tree, the  *)
(* two caches and the sketches. The packages share no state, so a          *)
(* behaviour exercises the one named by part and leaves the others in      *)
(* their initial state.                                                    *)
(***************************************************************************)
EXTENDS Integers

CONSTANTS
    LogKeys, LogValues, Oversized, MaxAppends,
    LSMKeys, LSMValues, KeyLen, maxLevel, flushBytes, indexInterval, MaxTables,
    CacheKeys, CacheValues, capacity, Missing, listHead, listTail, MaxGets, MaxFreq,
    Items, HashBits, BloomBits, BloomHashes, Columns, Depth, Precision, Shards, MaxTotal

VARIABLES
    part,
    log, flushed, synced, stale, open, broken, syncOnWrite, seq, appends, acked, sound,
    mem, tables, call,
    entries, list, hits, misses, used,
    items, buckets, uses, recency,
    sketch, h1, h2, bits, counts, total, registers, truth, held

Log == INSTANCE WAL WITH Keys <- LogKeys, Values <- LogValues
LSM == INSTANCE LSMTree WITH Keys <- LSMKeys, Values <- LSMValues
LRU == INSTANCE LRUCache
    WITH Keys <- CacheKeys, Values <- CacheValues, items <- entries,
         head <- listHead, tail <- listTail
LFU == INSTANCE LFUCache WITH Keys <- CacheKeys, Values <- CacheValues
Sketch == INSTANCE Sketches
    WITH m <- BloomBits, k <- BloomHashes, w <- Columns, d <- Depth, p <- Precision

ASSUME Assumptions ==
    /\ Log!WALAssumption /\ LSM!LSMAssumption
    /\ LRU!LRUAssumption /\ LFU!LFUAssumption /\ Sketch!SketchAssumption

logVars == <<log, flushed, synced, stale, open, broken, syncOnWrite, seq, appends, acked, sound>>
lsmVars == <<mem, tables, call>>
lruVars == <<entries, list, hits, misses, used>>
lfuVars == <<items, buckets, uses, recency>>
sketchVars == <<sketch, h1, h2, bits, counts, total, registers, truth, held>>
vars == <<part, logVars, lsmVars, lruVars, lfuVars, sketchVars>>

Parts == {"log", "lsm", "lru", "lfu", "sketch"}

Start == Log!Init /\ LSM!Init /\ LRU!Init /\ LFU!Init /\ Sketch!Init

Init == part \in Parts /\ Start

LogStep ==
    /\ part = "log" /\ Log!Next
    /\ UNCHANGED <<part, lsmVars, lruVars, lfuVars, sketchVars>>
LSMStep ==
    /\ part = "lsm" /\ LSM!Next
    /\ UNCHANGED <<part, logVars, lruVars, lfuVars, sketchVars>>
LRUStep ==
    /\ part = "lru" /\ LRU!Next
    /\ UNCHANGED <<part, logVars, lsmVars, lfuVars, sketchVars>>
LFUStep ==
    /\ part = "lfu" /\ LFU!Next
    /\ UNCHANGED <<part, logVars, lsmVars, lruVars, sketchVars>>

SketchStep ==
    /\ part = "sketch" /\ Sketch!Next
    /\ UNCHANGED <<part, logVars, lsmVars, lruVars, lfuVars>>

Next == LogStep \/ LSMStep \/ LRUStep \/ LFUStep \/ SketchStep

Spec == Init /\ [][Next]_vars

-----------------------------------------------------------------------------

\* wal.go:57-58: what was acknowledged with nothing unreadable up to it survives.
DurableOnSoundLog == Log!DurableOnSoundLog

\* wal_test.go:72, wal.go:219: what is recovered was written in that order.
ReplayIsOrdered == Log!ReplayIsOrdered

\* bloom_test.go:9, cms.go:4-5, hll.go:107-108: a sketch errs on the side it promises.
SketchesErrOnOneSide == part = "sketch" => Sketch!ErrOnOneSide

Store == INSTANCE KVStore
    WITH Keys <- LSMKeys, Values <- LSMValues,
         store <- IF part = "lsm" THEN LSM!View ELSE [k \in LSMKeys |-> {}]

\* lsm.go:292-294, :4-6: the LSM tree implements KVStore call by call. A Put gives its key
\* that value, also over a tombstone or an older table's value, a Delete takes it away from
\* all tables at once, no other key changes, and neither a flush nor a failure of one
\* shows. Its skip list keeps sound levels and sizes.
ActsAsAStore == Store!Spec /\ [](part = "lsm" => LSM!MemtableIsSound)

Recency == INSTANCE RecencyCache
    WITH Keys <- CacheKeys, Values <- CacheValues, value <- entries,
         recency <- IF part = "lru" THEN LRU!keysMRUFirst ELSE <<>>

\* lru.go:12, lfu.go:23-24: the LRU cache implements RecencyCache, with the walk of its
\* list as the order of use; the key that leaves the LFU cache was used least.
EvictsTheRightKey == Recency!Spec /\ LFU!LeastUsedGoes
=============================================================================
