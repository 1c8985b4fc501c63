----------------------------- MODULE MCStorage -----------------------------
(***************************************************************************)
(* Storage for TLC, with the B+tree and the external sort, which recurse   *)
(* over their structures, as two more parts.                               *)
(***************************************************************************)
EXTENDS Storage

CONSTANTS
    TreeKeys, TreeValues, order,
    Records, MaxRecords, ChunkSizes, MergeWidths

VARIABLES
    nodes, root, size, treeCall,
    pc, in, cfg, disk, runs, current, next, passes, silent, litter

treeVars == <<nodes, root, size, treeCall>>
sortVars == <<pc, in, cfg, disk, runs, current, next, passes, silent, litter>>

Tree == INSTANCE BTree WITH Keys <- TreeKeys, Values <- TreeValues, call <- treeCall
Sorter == INSTANCE MergeSort

ASSUME MCAssumptions == Tree!BTreeAssumption /\ Sorter!SortAssumption

MCInit == part \in Parts \cup {"tree", "sort"} /\ Start /\ Tree!Init /\ Sorter!Init

StorageStep == Next /\ UNCHANGED <<treeVars, sortVars>>
TreeStep == part = "tree" /\ Tree!Next /\ UNCHANGED <<vars, sortVars>>
SortStep == part = "sort" /\ Sorter!Next /\ UNCHANGED <<vars, treeVars>>

MCNext == StorageStep \/ TreeStep \/ SortStep

MCSpec == MCInit /\ [][MCNext]_<<vars, treeVars, sortVars>>

-----------------------------------------------------------------------------

TreeStore == INSTANCE KVStore
    WITH Keys <- TreeKeys, Values <- TreeValues, call <- treeCall,
         store <- [k \in TreeKeys |-> IF part = "tree" THEN Tree!Get(k) ELSE {}]

\* btree_test.go:51, :104-105: the B+tree implements KVStore, so that a Put stores its value
\* and no split shows; the leaf chain agrees with the tree, which is balanced.
TreeIsSound ==
    /\ TreeStore!Spec
    /\ [](part = "tree" => Tree!ScansAgreeWithLookups /\ Tree!StaysBalanced)

\* sort.go:59: the output is the sorted input, unless a failure went unnoticed.
SortsUnlessSilent == Sorter!SortsUnlessSilent

\* btree_test.go:51, :104-105, sort.go:59: the B+tree and the sorted runs, which recurse
\* over their structures, keep and return everything in order.
TreeAndRunsAreSound == TreeIsSound /\ []SortsUnlessSilent
=============================================================================
