-------------------------- MODULE VersionedReplicas --------------------------
(***************************************************************************)
(* The vector clocks of code/vector_clock/clock.go and the replicas of one *)
(* key that use them. A clock gives every node a count; a node missing     *)
(* from the map counts 0. A version that was written may reach a replica   *)
(* at any later time, in any order, any number of times or never.          *)
(***************************************************************************)
EXTENDS Integers, Sequences

CONSTANTS
    Nodes,        \* replica IDs
    MaxWrites     \* bound: writes in all

ReplicasAssumption == MaxWrites \in Nat

VARIABLES
    versions,     \* Replica.Versions, per node
    written,      \* every version ever written: what can be sent
    past,         \* history: per write, the writes it causally follows
    seen          \* history: per node, the writes it made, received or inherited

vars == <<versions, written, past, seen>>

NewVectorClock == [n \in Nodes |-> 0]

Increment(vc, node) == [vc EXCEPT ![node] = @ + 1]

\* Mutant: the other clock wins where it knows the node at all.
MergeOverwrites(vc, other) == [n \in Nodes |-> IF other[n] > 0 THEN other[n] ELSE vc[n]]

Merge(vc, other) == [n \in Nodes |-> IF other[n] > vc[n] THEN other[n] ELSE vc[n]]

Compare(vc, other) ==
    LET less == \E n \in Nodes : vc[n] < other[n]
        greater == \E n \in Nodes : vc[n] > other[n]
    IN  CASE ~ less /\ ~ greater -> "equal"
          [] less /\ ~ greater   -> "before"
          [] greater /\ ~ less   -> "after"
          [] less /\ greater     -> "concurrent"

HappensBefore(vc, other) == Compare(vc, other) = "before"
ConcurrentWith(vc, other) == Compare(vc, other) = "concurrent"

-----------------------------------------------------------------------------

\* NewReplica, for every node. Values are named by the number of the write.
Init ==
    /\ versions = [n \in Nodes |-> <<>>]
    /\ written = <<>>
    /\ past = <<>>
    /\ seen = [n \in Nodes |-> {}]

\* The clocks of the versions a replica holds, merged in turn.
MergeAll(held) ==
    LET merged[i \in 0 .. Len(held)] ==
          IF i = 0 THEN NewVectorClock ELSE Merge(merged[i - 1], held[i].clock)
    IN  merged[Len(held)]

Write(r) ==
    LET v == [value |-> Len(written) + 1, clock |-> Increment(MergeAll(versions[r]), r)] IN
    /\ Len(written) < MaxWrites
    /\ versions' = [versions EXCEPT ![r] = <<v>>]
    /\ written' = Append(written, v)
    /\ past' = Append(past, seen[r])
    /\ seen' = [seen EXCEPT ![r] = @ \cup {v.value}]

\* Mutant: siblings are kept although the incoming version supersedes them.
SurvivorsAll(held, incoming) == held

\* The held versions the incoming one does not supersede.
Survivors(held, incoming) ==
    LET kept[i \in 0 .. Len(held)] ==
          IF i = 0 THEN <<>>
          ELSE IF Compare(held[i].clock, incoming.clock) = "concurrent"
               THEN Append(kept[i - 1], held[i]) ELSE kept[i - 1]
    IN  kept[Len(held)]

\* Receive: nothing happens when a held version is equal or newer.
Receive(r, incoming) ==
    LET held == versions[r] IN
    /\ versions' =
         IF \E i \in DOMAIN held : Compare(held[i].clock, incoming.clock) \in {"after", "equal"}
         THEN versions
         ELSE [versions EXCEPT ![r] = Append(Survivors(held, incoming), incoming)]
    /\ seen' = [seen EXCEPT ![r] = @ \cup {incoming.value} \cup past[incoming.value]]
    /\ UNCHANGED <<written, past>>

Next == \E r \in Nodes : Write(r) \/ \E w \in 1 .. Len(written) : Receive(r, written[w])

Spec == Init /\ [][Next]_vars

-----------------------------------------------------------------------------

Held(r) == {versions[r][i].value : i \in DOMAIN versions[r]}

\* clock.go:8-11: comparing two clocks tells exactly whether one write knew of the
\* other, along any chain of messages; two writes are concurrent when neither did.
ClockIsCausality ==
    \A v, w \in 1 .. Len(written) :
        LET c == Compare(written[v].clock, written[w].clock) IN
        /\ v = w <=> c = "equal"
        /\ v \in past[w] <=> c = "before"
        /\ v # w /\ v \notin past[w] /\ w \notin past[v] <=> c = "concurrent"

\* clock.go:168-169 and clock_test.go:173 "surface both rather than silently picking
\* one": after any sequence of late, repeated or reordered messages a replica holds
\* exactly the writes it has heard of that no other one it has heard of replaces.
\* Replicas that have heard of the same writes hold the same versions.
HoldsTheFrontier ==
    \A r \in Nodes : Held(r) = {w \in seen[r] : \A x \in seen[r] : w \notin past[x]}

=============================================================================
