----------------------------- MODULE MergeSort -----------------------------
(***************************************************************************)
(* The external merge sort of code/external_merge_sort/sort.go: chunks of  *)
(* the input are sorted and spilled as runs, and the runs merged in passes *)
(* of at most MaxMergeWidth files. Any write can fail. Two failures go     *)
(* unnoticed, and silent records them: the deferred Flush of mergeRuns,    *)
(* whose error nobody looks at, and a read that ends a run early, which    *)
(* nextInt takes for its end. A file that cannot be removed stays, and is  *)
(* litter.                                                                 *)
(***************************************************************************)
EXTENDS Integers, Sequences, SequencesExt, Folds

CONSTANTS
    Records, MaxRecords,    \* bound: the inputs
    ChunkSizes, MergeWidths

\* With a width of 1, or 0, the passes would never end.
SortAssumption ==
    /\ Records \subseteq Int /\ MaxRecords \in Nat
    /\ ChunkSizes \subseteq Nat \ {0} /\ MergeWidths \subseteq Nat \ {0, 1}

VARIABLES
    pc, in, cfg,
    disk,            \* the files: a function of their paths
    runs, current,   \* the paths of the runs, and of the files of this pass
    next,            \* the paths written in this pass
    passes, silent,
    litter           \* history: the files whose removal failed

vars == <<pc, in, cfg, disk, runs, current, next, passes, silent, litter>>

Out == <<"out">>
Run(n) == <<"run", n>>
Inputs == UNION {[1 .. n -> Records] : n \in 0 .. MaxRecords}
NoConfig == [ChunkSize |-> 1, MaxMergeWidth |-> 2]
With(d, path, content) == [p \in DOMAIN d \cup {path} |-> IF p = path THEN content ELSE d[p]]
Paths(s) == {s[i] : i \in DOMAIN s}

Init ==
    /\ pc = "idle" /\ in = <<>> /\ cfg = NoConfig /\ disk = [p \in {} |-> <<>>]
    /\ runs = <<>> /\ current = <<>> /\ next = <<>> /\ passes = 0 /\ silent = FALSE
    /\ litter = {}

Sort(i, c) ==
    /\ pc = "idle" /\ pc' = "split"
    /\ in' = i /\ cfg' = c
    /\ UNCHANGED <<disk, runs, current, next, passes, silent, litter>>

\* os.Remove of the paths, on the files d. Its errors are ignored; bound: one file's in a
\* sort.
RemoveFiles(d, paths) ==
    \E kept \in {{}} \cup {{p} : p \in {p \in paths \cap DOMAIN d : litter \subseteq {p}}} :
        /\ disk' = [p \in DOMAIN d \ (paths \ kept) |-> d[p]]
        /\ litter' = litter \cup kept

\* Sort returns; its deferred call removes the runs, those it knows of.
Return(result, d) == pc' = result /\ RemoveFiles(d, Paths(runs))

-----------------------------------------------------------------------------
(* Phase 1.                                                                *)

SortInts(s) == SortSeq(s, LAMBDA a, b : a < b)
Begin == Len(runs) * cfg.ChunkSize

\* flush of splitIntoSortedRuns, for the next chunk.
Spill ==
    /\ pc = "split" /\ Begin < Len(in)
    /\ LET last == IF Begin + cfg.ChunkSize < Len(in) THEN Begin + cfg.ChunkSize ELSE Len(in)
           path == Run(Len(runs))
       IN /\ disk' = With(disk, path, SortInts(SubSeq(in, Begin + 1, last)))
          /\ runs' = Append(runs, path)
    /\ UNCHANGED <<pc, in, cfg, current, next, passes, silent, litter>>

\* A run cannot be written, or a record not read. The runs so far are not passed on to
\* Sort, which therefore leaves them.
SplitFails ==
    /\ pc = "split" /\ pc' = "error"
    /\ UNCHANGED <<in, cfg, disk, runs, current, next, passes, silent, litter>>

Renamed == [p \in {Out} |-> disk[runs[1]]]

\* No run, a single one to rename, or the merge.
EndSplit ==
    /\ pc = "split" /\ Begin >= Len(in)
    /\ \/ Len(runs) <= 1 /\ Return("error", disk) /\ UNCHANGED <<current, passes>>
       \/ Len(runs) = 0 /\ Return("ok", With(disk, Out, <<>>)) /\ UNCHANGED <<current, passes>>
       \/ Len(runs) = 1 /\ Return("ok", Renamed) /\ UNCHANGED <<current, passes>>
       \/ /\ Len(runs) > 1
          /\ pc' = "merge" /\ current' = runs /\ passes' = 1 /\ UNCHANGED <<disk, litter>>
    /\ UNCHANGED <<in, cfg, runs, next, silent>>

-----------------------------------------------------------------------------
(* Phase 2.                                                                *)

\* Mutant: the heap yields a run's head without comparing it to the others'.
MergeUnordered(files) == FoldLeft(LAMBDA a, r : a \o r, <<>>, files)

\* The heap holds the head of every run; the smallest is written, and its run read on.
RECURSIVE Merge(_)
Merge(files) ==
    LET live == {i \in DOMAIN files : files[i] # <<>>} IN
    IF live = {} THEN <<>>
    ELSE LET i == CHOOSE i \in live : \A j \in live : Head(files[i]) <= Head(files[j])
         IN  <<Head(files[i])>> \o Merge([files EXCEPT ![i] = Tail(@)])

\* The files of the group to merge next, and what they are merged to.
First == Len(next) * cfg.MaxMergeWidth
End == IF First + cfg.MaxMergeWidth < Len(current) THEN First + cfg.MaxMergeWidth ELSE Len(current)
group == SubSeq(current, First + 1, End)
target ==
    IF Len(current) > cfg.MaxMergeWidth \/ End - First < Len(current)
    THEN <<"merge", passes, First>> ELSE Out

contents == [i \in DOMAIN group |-> disk[group[i]]]
Merged == Merge(contents)
Part(s, n) == SubSeq(s, 1, n)

MergeGroup ==
    /\ pc = "merge" /\ First < Len(current)
    /\ disk' = With(disk, target, Merged)
    /\ next' = Append(next, target)
    /\ UNCHANGED <<pc, in, cfg, runs, current, passes, silent, litter>>

\* The end of the output, or of one of the runs, is lost, and mergeRuns returns nil.
MergeLoses ==
    /\ pc = "merge" /\ First < Len(current) /\ ~ silent
    /\ \/ \E n \in 0 .. Len(Merged) - 1 : disk' = With(disk, target, Part(Merged, n))
       \/ \E i \in DOMAIN group : \E n \in 0 .. Len(contents[i]) - 1 :
              disk' = With(disk, target, Merge([contents EXCEPT ![i] = Part(@, n)]))
    /\ next' = Append(next, target)
    /\ silent' = TRUE
    /\ UNCHANGED <<pc, in, cfg, runs, current, passes, litter>>

\* A file cannot be opened, created or written.
MergeFails ==
    /\ pc = "merge" /\ First < Len(current)
    /\ \E n \in 0 .. Len(Merged) : Return("error", With(disk, target, Part(Merged, n)))
    /\ UNCHANGED <<in, cfg, runs, current, next, passes, silent>>

\* The files merged in this pass are removed, and the runs once more when Sort returns. The
\* last file is already the output: the rename after the loop is never needed.
EndPass ==
    /\ pc = "merge" /\ First >= Len(current)
    /\ \/ Len(next) = 1 /\ pc' = "ok" /\ RemoveFiles(disk, Paths(current \o runs)) /\ UNCHANGED passes
       \/ Len(next) > 1 /\ RemoveFiles(disk, Paths(current)) /\ passes' = passes + 1 /\ UNCHANGED pc
    /\ current' = next /\ next' = <<>>
    /\ UNCHANGED <<in, cfg, runs, silent>>

\* The caller takes the result and sorts again, in a fresh directory.
Again ==
    /\ pc \in {"ok", "error"} /\ pc' = "idle"
    /\ in' = <<>> /\ cfg' = NoConfig /\ disk' = [p \in {} |-> <<>>]
    /\ runs' = <<>> /\ current' = <<>> /\ next' = <<>> /\ passes' = 0 /\ silent' = FALSE
    /\ litter' = {}

Next ==
    \/ \E i \in Inputs, c \in [ChunkSize : ChunkSizes, MaxMergeWidth : MergeWidths] : Sort(i, c)
    \/ Spill \/ SplitFails \/ EndSplit
    \/ MergeGroup \/ MergeLoses \/ MergeFails \/ EndPass
    \/ Again

Spec == Init /\ [][Next]_vars

-----------------------------------------------------------------------------

Count(s, r) == Len(SelectSeq(s, LAMBDA x : x = r))

\* s is what the input becomes when it is sorted, duplicates included.
IsSorting(s) ==
    /\ \A i \in 1 .. Len(s) - 1 : s[i] <= s[i + 1]
    /\ Len(s) = Len(in) /\ \A r \in Records : Count(s, r) = Count(in, r)

\* sort.go:59 "Sort reads integers from in, sorts them, and writes them to out": when
\* Sort returns no error, the output is the sorted input.
SortsOrFails == pc = "ok" => IsSorting(disk[Out])

\* ... unless a failure went unnoticed; and then, too, nothing but the output and what could
\* not be removed is left on the disk (sort_test.go:251), and a pass has never opened more
\* files than the width allows (sort_test.go:97-98), nor wasted one.
SortsUnlessSilent ==
    /\ pc = "ok" =>
          /\ ~ silent => IsSorting(disk[Out])
          /\ Out \in DOMAIN disk /\ DOMAIN disk \subseteq {Out} \cup litter
          /\ Len(runs) > 1 => Len(runs) <= cfg.MaxMergeWidth ^ passes
                              /\ Len(runs) > cfg.MaxMergeWidth ^ (passes - 1)
    /\ pc = "merge" => Len(group) <= cfg.MaxMergeWidth /\ \A i \in DOMAIN group : group[i] \in DOMAIN disk
=============================================================================
