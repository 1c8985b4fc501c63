------------------------------- MODULE LSMTree -------------------------------
(***************************************************************************)
(* The LSM tree of code/lsm_memtable/lsm.go: a memtable, the SSTables it   *)
(* was flushed to, and reads through both. Writers and readers hold the    *)
(* tree's lock, so each call is one step. Reads of a table succeed.        *)
(***************************************************************************)
EXTENDS Integers, Sequences, SequencesExt, FiniteSets

CONSTANTS
    Keys, Values, KeyLen, maxLevel,
    flushBytes,
    indexInterval,
    MaxTables        \* bound: flushes that succeed

Mem == INSTANCE Memtable

LSMAssumption ==
    /\ Mem!MemtableAssumption
    /\ flushBytes \in Nat /\ MaxTables \in Nat
    /\ indexInterval \in Nat \ {0}

VARIABLES
    mem,      \* the memtable
    tables,   \* newest last; each is its entries in the order they were written
    call      \* history: the call made last

vars == <<mem, tables, call>>

Init == mem = Mem!NewMemtable /\ tables = <<>> /\ call = <<"none">>

\* flushLocked on memtable m: nothing to do, an I/O error that leaves the memtable
\* in place, or a new table.
flushLocked(m) ==
    \/ m.count = 0 /\ mem' = m /\ UNCHANGED tables
    \/ m.count # 0 /\ mem' = m /\ UNCHANGED tables
    \/ /\ m.count # 0 /\ Len(tables) < MaxTables
       /\ tables' = Append(tables, Mem!Entries(m))
       /\ mem' = Mem!NewMemtable

maybeFlush(m) ==
    IF m.bytes < flushBytes THEN mem' = m /\ UNCHANGED tables ELSE flushLocked(m)

\* Mutant: only a key that the memtable holds gets a tombstone.
DeleteHere(k) ==
    /\ call' = <<"delete", k>>
    /\ IF Mem!Has(mem, k) THEN \E m \in Mem!Delete(mem, k) : maybeFlush(m)
       ELSE UNCHANGED <<mem, tables>>

\* Put and Delete return an error when the flush fails, but the write is made.
Put(k, v) == call' = <<"put", k, v>> /\ \E m \in Mem!Put(mem, k, v) : maybeFlush(m)
Delete(k) == call' = <<"delete", k>> /\ \E m \in Mem!Delete(mem, k) : maybeFlush(m)
Flush == call' = <<"flush">> /\ flushLocked(mem)

Next ==
    \/ \E k \in Keys, v \in Values : Put(k, v)
    \/ \E k \in Keys : Delete(k)
    \/ Flush

Spec == Init /\ [][Next]_vars

-----------------------------------------------------------------------------
(* Reads.                                                                  *)

\* Position s of table t is its last index entry at or before key.
IndexEntry(t, key, s) ==
    /\ (s - 1) % indexInterval = 0
    /\ t[s].key <= key
    /\ s + indexInterval \in DOMAIN t => t[s + indexInterval].key > key

Scan(s) == s .. (s + indexInterval)

\* SSTable.Get: the range check, then the scan from the index entry. The set of
\* its answers: one, or none for a key the table does not have.
SSTableGet(t, key) ==
    {Mem!Answer(t[i].value, t[i].deleted) :
        i \in {i \in DOMAIN t : /\ t[i].key = key
                               /\ t[1].key <= key /\ key <= Last(t).key
                               /\ \E s \in DOMAIN t : IndexEntry(t, key, s) /\ i \in Scan(s)}}

\* Mutant: the oldest table that knows the key answers.
AnswersOldest(i, key) == \A j \in 1 .. (i - 1) : SSTableGet(tables[j], key) = {}

\* Table i answers: no newer one has the key, or a tombstone of it.
Answers(i, key) == \A j \in (i + 1) .. Len(tables) : SSTableGet(tables[j], key) = {}

\* The memtable, then the tables from the newest to the oldest; the first answer,
\* a tombstone included, ends the search.
Lookup(key) ==
    IF Mem!Has(mem, key) THEN {Mem!Get(mem, key)}
    ELSE UNION {SSTableGet(tables[i], key) : i \in {i \in DOMAIN tables : Answers(i, key)}}

\* Get, as the set of values it finds.
Get(key) == {e.value : e \in {e \in Lookup(key) : e.found}}

View == [k \in Keys |-> Get(k)]

-----------------------------------------------------------------------------

\* lsm.go:4-6, :90, :108-109: after any sequence of inserts, overwrites, deletes and
\* flushes that failed, the levels of the skip list are sorted and nested and the
\* sizes maybeFlush decides on are exact.
MemtableIsSound == Mem!LevelsAreSorted(mem) /\ Mem!SizesAreExact(mem)
=============================================================================
