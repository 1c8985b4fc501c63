----------------------------- MODULE MerkleTree -----------------------------
(***************************************************************************)
(* The Merkle trees of code/merkle_tree/merkle.go, built over two replicas *)
(* that are written independently. A string is a sequence of characters,   *)
(* and SHA-256 is taken to be injective: a hash is the bytes it was given. *)
(***************************************************************************)
EXTENDS Integers, Sequences, FiniteSets, SequencesExt

CONSTANTS
    Keys, Values, \* strings
    Sep,          \* the character 0x1f
    Absent        \* the value of a key that a replica does not hold

MerkleAssumption ==
    /\ Keys \subseteq Seq(Nat) /\ Values \subseteq Seq(Nat) /\ Sep \in Nat
    /\ IsFiniteSet(Keys) /\ Absent \notin Values

VARIABLES left, right     \* the data of the replicas

vars == <<left, right>>

NoData == [k \in Keys |-> Absent]
Held(data) == {k \in Keys : data[k] # Absent}

Init == left = NoData /\ right = NoData

-----------------------------------------------------------------------------
(* Build.                                                                  *)

\* The first byte hashed is 0x00 for a leaf and 0x01 for an internal node.
hashLeaf(key, value) == <<"leaf", key \o <<Sep>> \o value>>
hashInternal(l, r) == <<"node", l, r>>

\* A node holds its hash, a leaf's key, and the two children of an internal node.
Nil == [hash |-> <<>>, key |-> <<>>, children |-> <<>>]
Leaf(key, value) == [hash |-> hashLeaf(key, value), key |-> key, children |-> <<>>]
Internal(l, r) == [hash |-> hashInternal(l.hash, r.hash), key |-> <<>>, children |-> <<l, r>>]
IsLeaf(n) == n.children = <<>>

\* The order of sort.Strings.
Less(a, b) ==
    \/ IsStrictPrefix(a, b)
    \/ \E i \in DOMAIN a \cap DOMAIN b : a[i] < b[i] /\ \A j \in 1 .. i - 1 : a[j] = b[j]

\* One round: pairs are hashed, and the odd node out is promoted.
NextLevel(level) ==
    [i \in 1 .. (Len(level) + 1) \div 2 |->
        IF 2 * i > Len(level) THEN level[2 * i - 1]
        ELSE Internal(level[2 * i - 1], level[2 * i])]

RECURSIVE RootOf(_)
RootOf(level) == IF Len(level) = 1 THEN level[1] ELSE RootOf(NextLevel(level))

Build(data) ==
    LET keys == SetToSortSeq(Held(data), Less)
        leaves == [i \in DOMAIN keys |-> Leaf(keys[i], data[keys[i]])]
    IN  IF leaves = <<>> THEN Nil ELSE RootOf(leaves)

RootHash(data) == Build(data).hash

-----------------------------------------------------------------------------
(* Comparing.                                                              *)

RECURSIVE collect(_)
collect(n) ==
    IF n = Nil THEN {}
    ELSE IF IsLeaf(n) THEN {n.key}
    ELSE collect(n.children[1]) \cup collect(n.children[2])

\* Mutant: what differs from a leaf is not looked into.
RECURSIVE walkShallow(_, _)
walkShallow(x, y) ==
    IF x.hash = y.hash THEN {}
    ELSE IF x = Nil \/ y = Nil THEN collect(x) \cup collect(y)
    ELSE IF IsLeaf(x) THEN {x.key}
    ELSE IF IsLeaf(y) THEN {y.key}
    ELSE UNION {walkShallow(x.children[i], y.children[i]) : i \in 1 .. 2}

\* The keys under nodes whose hashes differ where one of them is a leaf or missing.
RECURSIVE walk(_, _)
walk(x, y) ==
    IF x.hash = y.hash THEN {}
    ELSE IF x = Nil \/ y = Nil \/ IsLeaf(x) \/ IsLeaf(y) THEN collect(x) \cup collect(y)
    ELSE UNION {walk(x.children[i], y.children[i]) : i \in 1 .. 2}

Diff(a, b) == walk(Build(a), Build(b))

\* CompareCost: the pairs of nodes visited.
RECURSIVE Visits(_, _)
Visits(x, y) ==
    IF x = Nil \/ y = Nil \/ x.hash = y.hash \/ IsLeaf(x) \/ IsLeaf(y) THEN 1
    ELSE 1 + Visits(x.children[1], y.children[1]) + Visits(x.children[2], y.children[2])

-----------------------------------------------------------------------------

\* A replica is written, or loses a key.
Write(k, v) ==
    \/ left' = [left EXCEPT ![k] = v] /\ UNCHANGED right
    \/ right' = [right EXCEPT ![k] = v] /\ UNCHANGED left

Next == \E k \in Keys, v \in Values \cup {Absent} : Write(k, v)

Spec == Init /\ [][Next]_vars

-----------------------------------------------------------------------------

Different == {k \in Keys : left[k] # right[k]}

\* The rounds of Build for n leaves: the least depth with room for them.
Depth(n) == CHOOSE d \in 0 .. n : 2 ^ d >= n /\ \A e \in 0 .. d - 1 : 2 ^ e < n

\* Two keys whose leaves hash the same bytes.
Ambiguous ==
    \E k \in Held(left), j \in Held(right) :
        k # j /\ hashLeaf(k, left[k]) = hashLeaf(j, right[j])

\* merkle.go:6-9: equal roots mean equal data, and Diff misses no key that differs, however
\* the shapes of the trees do. Both need that no two keys hash the same bytes, which keys
\* without the separator never do, but hashLeaf does not see to: merkle_test.go:184 asks
\* for boundaries that are unambiguous. When the replicas hold the same keys, Diff needs no
\* proviso and names no other key; it then looks at no more nodes than the paths to the
\* keys that differ and their siblings.
FindsEveryDifference ==
    /\ left = right => RootHash(left) = RootHash(right)
    /\ Ambiguous => \E k \in Held(left) \cup Held(right) : Contains(k, Sep)
    /\ ~ Ambiguous =>
          /\ RootHash(left) = RootHash(right) => left = right
          /\ Different \subseteq Diff(left, right)
    /\ Held(left) = Held(right) /\ Held(left) # {} =>
          /\ RootHash(left) = RootHash(right) <=> left = right
          /\ Diff(left, right) = Different
          /\ Visits(Build(left), Build(right)) <=
                 1 + 2 * Cardinality(Different) * Depth(Cardinality(Held(left)))
=============================================================================
