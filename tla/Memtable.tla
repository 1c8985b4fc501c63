------------------------------ MODULE Memtable ------------------------------
(***************************************************************************)
(* The skip list behind code/lsm_memtable/lsm.go's Memtable, as operators  *)
(* on its state. A node is named by its key, the head by 0, nil by Nil.    *)
(* Every method holds the lock, so an operator is one step of its caller;  *)
(* randomLevel may return any level.                                       *)
(***************************************************************************)
EXTENDS Integers, FiniteSets, FiniteSetsExt, Sequences

CONSTANTS
    Keys,        \* a set of positive integers, in the order of the keys
    Values,      \* a value is named by its length; 0 is the empty string
    KeyLen,      \* length of every key
    maxLevel

MemtableAssumption ==
    /\ Keys \subseteq Nat \ {0} /\ IsFiniteSet(Keys)
    /\ Values \subseteq Nat
    /\ KeyLen \in Nat
    /\ maxLevel \in Nat \ {0}

head == 0
Nil == -1
Nodes == Keys \cup {head}

\* next[i][x] is the successor of node x on level i.
NewMemtable ==
    [next    |-> [i \in 0 .. (maxLevel - 1) |-> [x \in Nodes |-> Nil]],
     value   |-> [k \in Keys |-> 0],
     deleted |-> [k \in Keys |-> FALSE],
     level   |-> 1, count |-> 0, bytes |-> 0]

\* The inner loop: along level i from x to the last node before key.
Walk(m, i, key, from) ==
    LET walk[x \in Nodes] ==
          IF m.next[i][x] # Nil /\ m.next[i][x] < key THEN walk[m.next[i][x]] ELSE x
    IN  walk[from]

\* The outer loop: the nodes where it went down, from the top level.
Search(m, key) ==
    LET update[i \in 0 .. (m.level - 1)] ==
          Walk(m, i, key, IF i = m.level - 1 THEN head ELSE update[i + 1])
    IN  update

Has(m, key) == m.next[0][Search(m, key)[0]] = key

Set(m, key, v, d) == [m EXCEPT !.value[key] = v, !.deleted[key] = d]

Overwrite(m, key, v, d) == [Set(m, key, v, d) EXCEPT !.bytes = @ + v - m.value[key]]

\* The new node takes over the successors of update on its levels.
Link(m, key, v, d, lvl, update) ==
    LET at(i) == IF i < m.level THEN update[i] ELSE head
    IN  [Set(m, key, v, d) EXCEPT
           !.next = [i \in DOMAIN @ |->
               IF i < lvl THEN [@[i] EXCEPT ![key] = m.next[i][at(i)], ![at(i)] = key] ELSE @[i]],
           !.level = IF lvl > @ THEN lvl ELSE @,
           !.count = @ + 1,
           !.bytes = @ + KeyLen + v]

insert(m, key, v, d, lvl) ==
    IF Has(m, key) THEN Overwrite(m, key, v, d) ELSE Link(m, key, v, d, lvl, Search(m, key))

\* The memtables Put and Delete may leave: one for every level randomLevel may pick.
Put(m, key, v) == {insert(m, key, v, FALSE, lvl) : lvl \in 1 .. maxLevel}
Delete(m, key) == {insert(m, key, 0, TRUE, lvl) : lvl \in 1 .. maxLevel}

Absent == [found |-> FALSE, tombstone |-> FALSE]
Tombstone == [found |-> FALSE, tombstone |-> TRUE]
Found(v) == [found |-> TRUE, tombstone |-> FALSE, value |-> v]
Answer(v, d) == IF d THEN Tombstone ELSE Found(v)

Get(m, key) == IF Has(m, key) THEN Answer(m.value[key], m.deleted[key]) ELSE Absent

\* The keys met along level i.
Chain(m, i) ==
    LET chain[n \in 0 .. Cardinality(Nodes)] ==
          IF n = 0 THEN <<head>>
          ELSE LET c == chain[n - 1]
                   x == m.next[i][c[Len(c)]]
               IN  IF x = Nil THEN c ELSE Append(c, x)
    IN  Tail(chain[Cardinality(Nodes)])

Entries(m) ==
    LET c == Chain(m, 0)
    IN  [n \in DOMAIN c |->
            [key |-> c[n], value |-> m.value[c[n]], deleted |-> m.deleted[c[n]]]]

-----------------------------------------------------------------------------

KeysOf(c) == {c[n] : n \in DOMAIN c}
Sorted(c) == \A n \in 1 .. (Len(c) - 1) : c[n] < c[n + 1]

\* lsm_test.go:60 "level 0 must already be in key order", and lsm.go:4-6: every level
\* is sorted and ends, and holds some of the keys of the level below.
LevelsAreSorted(m) ==
    /\ \A i \in 0 .. (maxLevel - 1) : Sorted(Chain(m, i))
    /\ \A i \in 1 .. (maxLevel - 1) : KeysOf(Chain(m, i)) \subseteq KeysOf(Chain(m, i - 1))
    /\ \A i \in m.level .. (maxLevel - 1) : Chain(m, i) = <<>>

\* lsm.go:90, :108-109: count and bytes, on which the tree decides to flush, are those
\* of the entries.
SizesAreExact(m) ==
    LET keys == KeysOf(Chain(m, 0))
    IN  /\ m.count = Cardinality(keys)
        /\ m.bytes = MapThenSumSet(LAMBDA k : KeyLen + m.value[k], keys)
=============================================================================
