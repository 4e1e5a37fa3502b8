---------------------------- MODULE MCHashTable ----------------------------
(* HashTable for TLC: 1 and 2 share a bucket until the table has grown, 3 never
   shares theirs. *)
EXTENDS HashTable

KeyOf  == <<1, 2, 3>>
HashOf == <<1, 4, 5>>

=============================================================================
