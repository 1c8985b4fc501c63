------------------------------- MODULE BTree -------------------------------
(***************************************************************************)
(* The B+tree of code/b_tree/btree.go. It has one caller at a time, so a   *)
(* Put is one step, with every split it causes on the way up. Nodes are    *)
(* the entries of a heap, named by their place in it: the chain of leaves  *)
(* is kept apart from the tree above them, as in the code.                 *)
(***************************************************************************)
EXTENDS Integers, Sequences, FiniteSets, SequencesExt

CONSTANTS Keys, Values, order

BTreeAssumption == Keys \subseteq Int /\ order \in Nat \ {0, 1, 2}

VARIABLES
    nodes, root, size,
    call       \* history: the call made last

vars == <<nodes, root, size, call>>

None == 0                                       \* the nil pointer
Leaf(keys, values, next) ==
    [leaf |-> TRUE, keys |-> keys, values |-> values, children |-> <<>>, next |-> next]
Internal(keys, children) ==
    [leaf |-> FALSE, keys |-> keys, values |-> <<>>, children |-> children, next |-> None]

Init == nodes = <<Leaf(<<>>, <<>>, None)>> /\ root = 1 /\ size = 0 /\ call = <<"none">>

\* The place of the first of the sorted keys that is not below key.
SearchStrings(keys, key) == Cardinality({i \in DOMAIN keys : keys[i] < key}) + 1

\* The child to follow; a key equal to a separator goes right.
childIndex(n, key) == Cardinality({i \in DOMAIN n.keys : n.keys[i] <= key}) + 1

-----------------------------------------------------------------------------
(* Put. A call on heap h gives the heap it leaves, the promoted key and    *)
(* the new right sibling, None when there was no split.                    *)

Grown(h) == [heap |-> h, promoted |-> 0, right |-> None]

\* Mutant: the new leaf is left out of the chain.
splitLeafUnchained(h, n) ==
    LET mid == Len(h[n].keys) \div 2
        tail(s) == SubSeq(s, mid + 1, Len(s))
    IN  [heap |-> Append([h EXCEPT ![n] = Leaf(SubSeq(@.keys, 1, mid), SubSeq(@.values, 1, mid), @.next)],
                         Leaf(tail(h[n].keys), tail(h[n].values), h[n].next)),
         promoted |-> h[n].keys[mid + 1], right |-> Len(h) + 1]

\* The upper half moves to a new leaf, the next one in the chain; its first key is
\* copied up.
splitLeaf(h, n) ==
    LET mid == Len(h[n].keys) \div 2
        tail(s) == SubSeq(s, mid + 1, Len(s))
        right == Len(h) + 1
    IN  [heap |-> Append([h EXCEPT ![n] = Leaf(SubSeq(@.keys, 1, mid), SubSeq(@.values, 1, mid), right)],
                         Leaf(tail(h[n].keys), tail(h[n].values), h[n].next)),
         promoted |-> h[n].keys[mid + 1], right |-> right]

\* The median key moves up and stays in neither half.
splitInternal(h, n) ==
    LET mid == Len(h[n].keys) \div 2
        tail(s) == SubSeq(s, mid + 2, Len(s))
    IN  [heap |-> Append([h EXCEPT ![n] = Internal(SubSeq(@.keys, 1, mid), SubSeq(@.children, 1, mid + 1))],
                         Internal(tail(h[n].keys), tail(h[n].children))),
         promoted |-> h[n].keys[mid + 1], right |-> Len(h) + 1]

HasKey(n, key) == \E i \in DOMAIN n.keys : n.keys[i] = key

insertLeaf(h, n, key, value) ==
    LET i == SearchStrings(h[n].keys, key)
        set == [h EXCEPT ![n].values[i] = value]
        added == [h EXCEPT ![n].keys = InsertAt(@, i, key), ![n].values = InsertAt(@, i, value)]
    IN  IF HasKey(h[n], key) THEN Grown(set)
        ELSE IF Len(added[n].keys) < order THEN Grown(added)
        ELSE splitLeaf(added, n)

RECURSIVE insert(_, _, _, _)
insert(h, n, key, value) ==
    IF h[n].leaf THEN insertLeaf(h, n, key, value)
    ELSE LET i == childIndex(h[n], key)
             below == insert(h, h[n].children[i], key, value)
             wider == [below.heap EXCEPT ![n].keys = InsertAt(@, i, below.promoted),
                                         ![n].children = InsertAt(@, i + 1, below.right)]
         IN  IF below.right = None THEN below
             ELSE IF Len(wider[n].keys) < order THEN Grown(wider)
             ELSE splitInternal(wider, n)

\* The leaf at the end of the descent for key.
RECURSIVE Descend(_, _)
Descend(n, key) ==
    IF nodes[n].leaf THEN n ELSE Descend(nodes[n].children[childIndex(nodes[n], key)], key)

\* A root that splits gets a new root above it.
Put(key, value) ==
    LET r == insert(nodes, root, key, value) IN
    /\ \/ r.right = None /\ nodes' = r.heap /\ UNCHANGED root
       \/ /\ r.right # None
          /\ nodes' = Append(r.heap, Internal(<<r.promoted>>, <<root, r.right>>))
          /\ root' = Len(r.heap) + 1
    /\ size' = IF HasKey(nodes[Descend(root, key)], key) THEN size ELSE size + 1
    /\ call' = <<"put", key, value>>

Next == \E k \in Keys, v \in Values : Put(k, v)

Spec == Init /\ [][Next]_vars

-----------------------------------------------------------------------------
(* Reads.                                                                  *)

\* Get, as the set of values it finds.
Get(key) ==
    LET n == nodes[Descend(root, key)] IN
    {n.values[i] : i \in {i \in DOMAIN n.keys : n.keys[i] = key}}

\* The pairs met on the way along the chain from leaf n.
RECURSIVE Chain(_)
Chain(n) ==
    IF n = None THEN <<>>
    ELSE [i \in DOMAIN nodes[n].keys |-> <<nodes[n].keys[i], nodes[n].values[i]>>]
             \o Chain(nodes[n].next)

\* One descent, then along the chain up to the first key beyond the end.
RangeScan(start, end) ==
    LET met == Chain(Descend(root, start))
        stops == {i \in DOMAIN met : met[i][1] > end}
        last == IF stops = {} THEN Len(met)
                ELSE (CHOOSE i \in stops : \A j \in stops : i <= j) - 1
    IN  SelectSeq(SubSeq(met, 1, last), LAMBDA p : p[1] >= start)

\* Height of the subtree of n along its first children.
RECURSIVE Height(_)
Height(n) == IF nodes[n].leaf THEN 1 ELSE 1 + Height(nodes[n].children[1])

-----------------------------------------------------------------------------

Sorted(s) == \A i \in 1 .. Len(s) - 1 : s[i][1] < s[i + 1][1]

\* btree_test.go:104-105 "a broken chain silently breaks every range scan": a scan along
\* the chain finds, in order, what lookups through the tree find.
ScansAgreeWithLookups ==
    \A start, end \in Keys :
        LET r == RangeScan(start, end) IN
        /\ Sorted(r)
        /\ {r[i] : i \in DOMAIN r} = {p \in (start .. end) \X Values :
                                          p[1] \in Keys /\ p[2] \in Get(p[1])}

\* btree.go:78-79 "keeps it balanced by construction": every leaf is as deep as the
\* others, no node is too full, and size counts the keys.
StaysBalanced ==
    /\ \A n \in DOMAIN nodes :
          /\ Len(nodes[n].keys) < order
          /\ ~ nodes[n].leaf =>
                /\ Len(nodes[n].children) = Len(nodes[n].keys) + 1
                /\ \A i \in DOMAIN nodes[n].children :
                       Height(nodes[n].children[i]) = Height(n) - 1
    /\ size = Cardinality({k \in Keys : Get(k) # {}})
=============================================================================
