------------------------------ MODULE HashRing ------------------------------
(***************************************************************************)
(* The consistent-hash ring of code/consistent_hashing/ring.go. hashKey is *)
(* any function to the positions of the ring, drawn when a node first      *)
(* joins, that gives two virtual nodes different positions; a key is its   *)
(* hash. The sorted slice of positions is the number of times it holds     *)
(* each one.                                                               *)
(***************************************************************************)
EXTENDS Integers, FiniteSets, FiniteSetsExt, Functions

CONSTANTS
    Nodes,
    virtualNodes,   \* per physical node
    Size            \* bound: positions on the ring (2^32 in the code)

RingAssumption ==
    /\ IsFiniteSet(Nodes) /\ "none" \notin Nodes
    /\ virtualNodes \in Nat \ {0} /\ Size \in Nat
    /\ Size >= virtualNodes * Cardinality(Nodes)

VARIABLES
    hash,        \* hashKey(node + "#" + i), or Unknown
    nodes,       \* Ring.nodes
    positions,   \* how often Ring.positions holds each position
    owners       \* Ring.owners; None where the map has no entry

vars == <<hash, nodes, positions, owners>>

Points == 0 .. (Size - 1)
None == "none"
Virtual(n) == {<<n, i>> : i \in 1 .. virtualNodes}
Unknown == -1

\* The hashes of n's virtual nodes, if they are known, or any that are free.
hashKey(n) ==
    LET known == Restrict(hash, Virtual(n))
        free == Points \ Range(hash)
    IN  IF Range(known) = {Unknown} THEN Injection(Virtual(n), free) ELSE {known}

Init ==
    /\ hash = [v \in UNION {Virtual(n) : n \in Nodes} |-> Unknown]
    /\ nodes = {}
    /\ positions = [p \in Points |-> 0]
    /\ owners = [p \in Points |-> None]

Add(n) ==
    /\ n \notin nodes
    /\ nodes' = nodes \cup {n}
    /\ \E h \in hashKey(n) :
         LET copies(p) == Cardinality({v \in Virtual(n) : h[v] = p}) IN
         /\ hash' = [v \in DOMAIN hash |-> IF v \in Virtual(n) THEN h[v] ELSE hash[v]]
         /\ positions' = [p \in Points |-> positions[p] + copies(p)]
         /\ owners' = [p \in Points |-> IF copies(p) > 0 THEN n ELSE owners[p]]

\* The loop deletes the owner at the first copy of a position that n owns, so it
\* keeps the other copies.
Remove(n) ==
    /\ n \in nodes
    /\ nodes' = nodes \ {n}
    /\ positions' = [p \in Points |-> IF owners[p] = n THEN positions[p] - 1 ELSE positions[p]]
    /\ owners' = [p \in Points |-> IF owners[p] = n THEN None ELSE owners[p]]
    /\ UNCHANGED hash

Next == \E n \in Nodes : Add(n) \/ Remove(n)

Spec == Init /\ [][Next]_vars

-----------------------------------------------------------------------------
(* Lookups.                                                                *)

Taken == {p \in Points : positions[p] > 0}

\* How far clockwise p is from key: the binary search and the wrap-around.
Distance(key, p) == (p - key) % Size

Get(key) ==
    IF Taken = {} THEN None
    ELSE owners[CHOOSE p \in Taken : \A q \in Taken : Distance(key, p) <= Distance(key, q)]

\* How far the walk of GetN goes before it meets owner o.
Reach(key, o) == Min({Distance(key, p) : p \in {p \in Taken : owners[p] = o}})

\* Mutant: the walk counts positions, not owners.
GetNByPosition(key, n) ==
    {owners[p] : p \in {p \in Taken :
        Cardinality({q \in Taken : Distance(key, q) < Distance(key, p)}) < n}}

\* GetN as a set: the owners met first, at most n of them and at most len(nodes).
GetN(key, n) ==
    LET met == {owners[p] : p \in Taken}
        limit == IF n > Cardinality(nodes) THEN Cardinality(nodes) ELSE n
    IN  {o \in met : Cardinality({x \in met : Reach(key, x) < Reach(key, o)}) < limit}

-----------------------------------------------------------------------------

\* ring.go:86-87 "Distinctness matters": GetN returns as many different live nodes as it
\* can, the owner of the key among them.
ReplicasAreDistinctNodes ==
    nodes # {} => \A key \in Points : \A n \in 1 .. Cardinality(Nodes) :
        /\ GetN(key, n) \subseteq nodes
        /\ Cardinality(GetN(key, n)) = IF n > Cardinality(nodes) THEN Cardinality(nodes) ELSE n
        /\ Get(key) \in GetN(key, n)

\* ring_test.go:64-65 "consistent hashing must never shuffle keys between two nodes
\* that both stayed", and :86, for all the replicas of a key: a step changes them only by
\* a node that joins or one that leaves.
OnlyNecessaryMoves ==
    \A key \in Points, n \in 1 .. Cardinality(Nodes) :
        /\ nodes \subseteq nodes' => GetN(key, n)' \subseteq GetN(key, n) \cup (nodes' \ nodes)
        /\ nodes' \subseteq nodes => GetN(key, n) \subseteq GetN(key, n)' \cup (nodes \ nodes')
=============================================================================
