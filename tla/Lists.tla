------------------------------- MODULE Lists -------------------------------
(***************************************************************************)
(* Taking an element out of a list in which no element occurs twice.       *)
(***************************************************************************)
EXTENDS Integers, Sequences, SequencesExt

PlaceOf(s, e) == CHOOSE i \in 1 .. Len(s) : s[i] = e

Without(s, e) == IF Contains(s, e) THEN RemoveAt(s, PlaceOf(s, e)) ELSE s
=============================================================================
