------------------------------ MODULE LRUCache ------------------------------
(***************************************************************************)
(* The LRU cache of code/lru_cache/lru.go: a map to the entries and a      *)
(* doubly linked list through them between two sentinels. A key has one    *)
(* entry at a time, so the entry is named by its key; unlink leaves the    *)
(* entry's own pointers as they were, as the code does.                    *)
(***************************************************************************)
EXTENDS Integers, Sequences, FiniteSets

CONSTANTS
    Keys, Values,
    capacity,
    Missing,     \* what items holds for a key that has no entry
    head, tail,  \* the sentinels
    MaxGets      \* bound: how often Get is called

LRUAssumption ==
    /\ IsFiniteSet(Keys) /\ Missing \notin Values \cup Keys
    /\ capacity \in Nat \ {0} /\ MaxGets \in Nat
    /\ head \notin Keys /\ tail \notin Keys /\ head # tail

VARIABLES
    items,         \* LRUCache.items: the value in the entry of each key
    list,          \* the prev and next pointers of the entries
    hits, misses,
    used           \* history: the key that Get found or Put stored last

vars == <<items, list, hits, misses, used>>

Nodes == Keys \cup {head, tail}
Held == {k \in Keys : items[k] # Missing}

\* NewLRUCache. What the pointers of an entry that does not exist are is never read.
Init ==
    /\ items = [k \in Keys |-> Missing]
    /\ list = [prev |-> [n \in Nodes |-> head], next |-> [n \in Nodes |-> tail]]
    /\ hits = 0 /\ misses = 0 /\ used = Missing

unlink(l, e) == [l EXCEPT !.next[l.prev[e]] = l.next[e], !.prev[l.next[e]] = l.prev[e]]

pushFront(l, e) ==
    [l EXCEPT !.next = [@ EXCEPT ![e] = l.next[head], ![head] = e],
              !.prev = [@ EXCEPT ![e] = head, ![l.next[head]] = e]]

\* The entry evict removes.
victim == list.prev[tail]

\* Mutant: a hit leaves the entry where it is.
GetKeepsOrder(k) ==
    /\ hits + misses < MaxGets
    /\ items[k] # Missing
    /\ hits' = hits + 1 /\ used' = k
    /\ UNCHANGED <<items, list, misses>>

Get(k) ==
    /\ hits + misses < MaxGets
    /\ items[k] # Missing
    /\ hits' = hits + 1 /\ used' = k
    /\ list' = pushFront(unlink(list, k), k)
    /\ UNCHANGED <<items, misses>>

GetMiss(k) ==
    /\ hits + misses < MaxGets
    /\ items[k] = Missing
    /\ misses' = misses + 1
    /\ UNCHANGED <<items, list, hits, used>>

PutUpdate(k, v) ==
    /\ items[k] # Missing
    /\ items' = [items EXCEPT ![k] = v]
    /\ list' = pushFront(unlink(list, k), k)
    /\ used' = k /\ UNCHANGED <<hits, misses>>

PutInsert(k, v) ==
    /\ items[k] = Missing
    /\ Cardinality(Held) < capacity
    /\ items' = [items EXCEPT ![k] = v]
    /\ list' = pushFront(list, k)
    /\ used' = k /\ UNCHANGED <<hits, misses>>

\* Put with evict inlined; capacity is positive, so the list is not empty here and
\* the early return of evict is not taken.
PutEvict(k, v) ==
    /\ items[k] = Missing
    /\ Cardinality(Held) >= capacity
    /\ items' = [items EXCEPT ![victim] = Missing, ![k] = v]
    /\ list' = pushFront(unlink(list, victim), k)
    /\ used' = k /\ UNCHANGED <<hits, misses>>

Put(k, v) == PutUpdate(k, v) \/ PutInsert(k, v) \/ PutEvict(k, v)

Next == \E k \in Keys : Get(k) \/ GetMiss(k) \/ \E v \in Values : Put(k, v)

Spec == Init /\ [][Next]_vars

-----------------------------------------------------------------------------
(* Reading the list.                                                       *)

\* The nodes on the way from a sentinel, for as many steps as there are nodes.
Walk(pointer, from) ==
    LET at[i \in 0 .. Cardinality(Nodes)] == IF i = 0 THEN from ELSE pointer[at[i - 1]]
    IN  at

\* keysMRUFirst: the keys from head.next until tail.
keysMRUFirst ==
    LET at == Walk(list.next, head)
        upto == CHOOSE n \in 1 .. Cardinality(Nodes) :
                    at[n] = tail /\ \A i \in 1 .. (n - 1) : at[i] # tail
    IN  [i \in 1 .. (upto - 1) |-> at[i]]
=============================================================================
