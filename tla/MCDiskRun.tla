----------------------------- MODULE MCDiskRun -----------------------------
(***************************************************************************)
(* An instance of DiskRun for TLC: the Bloom filter bits of the keys.      *)
(***************************************************************************)
EXTENDS DiskRun

\* Two bits for each key, shared by keys next to each other.
MCFilterBits == [k \in Keys |-> {k \div 2, 2 + k}]
=============================================================================
