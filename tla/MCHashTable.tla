---------------------------- MODULE MCHashTable -----------------------------
(* A finite instance of HashTable: two keys collide until the table has    *)
(* eight entries, and searches go around the end of the array.             *)
EXTENDS HashTable, TLC

CONSTANTS super, sub, k1, k2, k3

MCHash == (k1 :> 3) @@ (k2 :> 7) @@ (k3 :> 2)
MCMaxCount == (super :> 2) @@ (sub :> 4)

=============================================================================
