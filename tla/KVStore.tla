------------------------------ MODULE KVStore ------------------------------
(***************************************************************************)
(* What an LSM tree promises its client: a dictionary.  insert_key binds a *)
(* key, delete_key unbinds it, lookup answers with the binding of the key  *)
(* at that moment and range with those of all keys from one end up to, and *)
(* not with, the other.  Neither the buffer, the merge thread nor the disk *)
(* levels of the tree can be seen through these operations.                *)
(***************************************************************************)
EXTENDS Integers

CONSTANTS Keys,     \* the keys a client may use
          Values,   \* the values a client may store
          Absent,   \* the binding of a key that is not in the store
          Bounds    \* the ends of the ranges a client may ask for

VARIABLES dict,     \* the binding of every key
          ret       \* what the last lookup or range answered, until the next call

kvVars == <<dict, ret>>

NoRet == [key |-> Absent, value |-> Absent]

KVInit ==
  /\ dict = [k \in Keys |-> Absent]
  /\ ret = NoRet

\* insert_key(k, v); v = Absent is delete_key(k).
Put(k, v) ==
  /\ dict' = [dict EXCEPT ![k] = v]
  /\ ret' = NoRet

Get(k) ==
  /\ ret' = [key |-> k, value |-> dict[k]]
  /\ UNCHANGED dict

\* The answer has every key of the range that is bound once.
Scan(lo, hi) ==
  /\ ret' = [from |-> lo, to |-> hi,
             found |-> [k \in Keys |-> IF lo <= k /\ k < hi /\ dict[k] # Absent
                                       THEN << dict[k] >> ELSE << >>]]
  /\ UNCHANGED dict

\* The client has taken the answer and calls the store again.
Begin ==
  /\ ret' = NoRet
  /\ UNCHANGED dict

KVNext ==
  \/ \E k \in Keys, v \in Values \union {Absent} : Put(k, v)
  \/ \E k \in Keys : Get(k)
  \/ \E lo, hi \in Bounds : Scan(lo, hi)
  \/ Begin

KVSpec == KVInit /\ [][KVNext]_kvVars
=============================================================================
