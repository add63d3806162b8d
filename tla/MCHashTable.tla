---------------------------- MODULE MCHashTable ----------------------------
(***************************************************************************)
(* A table of two buckets: three keys share one, one key has the other.    *)
(***************************************************************************)
EXTENDS HashTable, TLC

CONSTANTS k1, k2, k3, k4

MCKeys == {k1, k2, k3, k4}
MCHash == k1 :> 7 @@ k2 :> 3 @@ k3 :> 9 @@ k4 :> 4
=============================================================================
