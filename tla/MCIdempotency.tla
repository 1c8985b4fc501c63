--------------------------- MODULE MCIdempotency ---------------------------
(* Idempotency for TLC: three calls with one body and one with another on  *)
(* one key, and a call without a key.                                      *)
EXTENDS Idempotency

CONSTANTS c1, c2, c3, c4, c5, k1, b1, b2

MCKeyOf == [c \in Calls |-> IF c = c5 THEN NoKey ELSE k1]
MCBodyOf == [c \in Calls |-> IF c = c4 THEN b2 ELSE b1]
=============================================================================
