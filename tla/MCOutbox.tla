------------------------------ MODULE MCOutbox ------------------------------
(* Outbox for TLC: the last two PlaceOrder calls are for the same order.   *)
EXTENDS Outbox

CONSTANTS t1, t2, t3, o1, o2

MCOrderOf == [t \in Txs |-> IF t = t1 THEN o1 ELSE o2]
=============================================================================
