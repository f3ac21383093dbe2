---------------------------- MODULE MCHashTable ----------------------------
(***************************************************************************)
(* Instances of HashTable for TLC: hashes that collide in a table of every *)
(* size, and numbers that a configuration cannot write down.               *)
(***************************************************************************)
EXTENDS HashTable

MCIntMin == -9

\* Keys 1, 2 and 5 fall on the last slot of a table of 8.
MCHash == [k \in Keys |-> CASE k \in {1, 2} -> 7 [] k = 5 -> 15 [] k = MCIntMin -> 0 [] OTHER -> k]

\* Four keys and INT_MIN, whose slot is the one after theirs.
MCKeys == {1, 2, 3, 5, MCIntMin}

\* A value, the one that resize takes for a free slot, and the tombstone.
MCValues == {1, 2, MCIntMin}
=============================================================================
