----------------------------- MODULE MCCluster -----------------------------
(***************************************************************************)
(* Cluster for TLC, with the Merkle trees that find out where two replicas *)
(* differ as one more part.                                                *)
(***************************************************************************)
EXTENDS Cluster

CONSTANTS MerkleKeys, MerkleValues, Sep, Absent

\* With the separator 1, key <<2>> of value <<3, 1, 4>> hashes like <<2, 1, 3>> of <<4>>.
MCKeys == {<<2>>, <<2, 1, 3>>, <<2, 3>>, <<3>>, <<4>>}
MCValues == {<<4>>, <<3, 1, 4>>}

VARIABLES left, right

treeVars == <<left, right>>

Trees == INSTANCE MerkleTree WITH Keys <- MerkleKeys, Values <- MerkleValues

ASSUME TreesAssumption == Trees!MerkleAssumption

MCInit == part \in Parts \cup {"trees"} /\ Start /\ Trees!Init

ClusterStep == Next /\ UNCHANGED treeVars
TreeStep == part = "trees" /\ Trees!Next /\ UNCHANGED vars

MCNext == ClusterStep \/ TreeStep

MCSpec == MCInit /\ [][MCNext]_<<vars, treeVars>>

\* merkle.go:6-9: the comparison of two trees misses nothing and stays in its cost.
FindsEveryDifference == part = "trees" => Trees!FindsEveryDifference
=============================================================================
