---------------------------- MODULE RecencyCache ----------------------------
(***************************************************************************)
(* What an LRU cache promises, without a list or a map: it holds at most   *)
(* capacity keys, remembers in which order they were last used, and to     *)
(* make room gives up the one used longest ago.                            *)
(***************************************************************************)
EXTENDS Integers, Sequences, SequencesExt, Lists

CONSTANTS Keys, Values, capacity, Missing

VARIABLES
    recency,   \* the keys held, most recently used first
    value,     \* the value of every key held, Missing for the others
    used       \* the key used last, Missing at first

vars == <<recency, value, used>>

Init == recency = <<>> /\ value = [k \in Keys |-> Missing] /\ used = Missing

Touch(k) == recency' = <<k>> \o Without(recency, k) /\ used' = k

Read(k) ==
    /\ value[k] # Missing
    /\ Touch(k)
    /\ UNCHANGED value

Update(k, v) ==
    /\ value[k] # Missing
    /\ Touch(k)
    /\ value' = [value EXCEPT ![k] = v]

Insert(k, v) ==
    /\ value[k] = Missing
    /\ Len(recency) < capacity
    /\ Touch(k)
    /\ value' = [value EXCEPT ![k] = v]

Replace(k, v) ==
    /\ value[k] = Missing
    /\ Len(recency) = capacity
    /\ recency' = <<k>> \o Front(recency) /\ used' = k
    /\ value' = [value EXCEPT ![k] = v, ![Last(recency)] = Missing]

Next == \E k \in Keys :
    \/ Read(k)
    \/ \E v \in Values : Update(k, v) \/ Insert(k, v) \/ Replace(k, v)

Spec == Init /\ [][Next]_vars
=============================================================================
