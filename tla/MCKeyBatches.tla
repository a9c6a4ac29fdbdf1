---------------------------- MODULE MCKeyBatches ----------------------------
(* Two batches, ordered by a reseller or the developer, from two masks with  *)
(* a key in common, one of which has no other key.                           *)
EXTENDS KeyBatches

CONSTANTS k1, k2

TwoMasks == <<{k1, k2}, {k2}>>
GrantSet == {3, -1}
DaySet == {1, -1}
=============================================================================
