------------------------------ MODULE KVStore ------------------------------
(***************************************************************************)
(* What a key-value store promises: Put gives its key the value, Delete    *)
(* takes it away, neither touches another key, and a Flush does not show.  *)
(* A store that implements this keeps the call made last as a history      *)
(* variable, so that every change of store is the one of its call, and a   *)
(* call that changes nothing is one that had nothing to change.            *)
(***************************************************************************)

CONSTANTS Keys, Values

VARIABLES
    store,     \* per key, the set of its values: one, or none
    call       \* the call made last

vars == <<store, call>>

NoCall == <<"none">>
PutCall(k, v) == <<"put", k, v>>
DeleteCall(k) == <<"delete", k>>
FlushCall == <<"flush">>

Init == store = [k \in Keys |-> {}] /\ call = NoCall

Put(k, v) == call' = PutCall(k, v) /\ store' = [store EXCEPT ![k] = {v}]
Delete(k) == call' = DeleteCall(k) /\ store' = [store EXCEPT ![k] = {}]
Flush == call' = FlushCall /\ UNCHANGED store

Next ==
    \/ \E k \in Keys, v \in Values : Put(k, v)
    \/ \E k \in Keys : Delete(k)
    \/ Flush

Spec == Init /\ [][Next]_vars
=============================================================================
