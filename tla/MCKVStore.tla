------------------------------ MODULE MCKVStore ------------------------------
(***************************************************************************)
(* Small instances of KVStore: two stores that the two keys meet in        *)
(* opposite orders, either on machines of their own with one port, or on   *)
(* one machine with a port each as docker/create.sh starts them.           *)
(***************************************************************************)
EXTENDS KVStore, TLC

CONSTANTS k1, k2, s1, s2, a, b, p, q

MCOrder == [k \in Keys |-> IF k = k1 THEN <<s1, s2>> ELSE <<s2, s1>>]

Apart == s1 :> <<a, p>> @@ s2 :> <<b, p>>
Same  == s1 :> <<a, p>> @@ s2 :> <<a, q>>

BothPlaces == {Apart, Same}
OnlyApart  == {Apart}
=============================================================================
