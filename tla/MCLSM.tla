------------------------------- MODULE MCLSM -------------------------------
(***************************************************************************)
(* Instances of LSM for TLC.  The configurations choose the parameters of  *)
(* the tree; here are the keys, the range ends and the Bloom filter bits,  *)
(* which a configuration cannot write down.                                *)
(***************************************************************************)
EXTENDS LSM

\* Skip lists keep 0 as the first bound of their keys, so keys of both signs
\* matter.
TwoKeys == {-1, 2}

\* INT_MIN, scaled down, and two keys of which it is one.
MCIntMin == -9

LeastKeys == {MCIntMin, 2}

ThreeKeys == {-1, 1, 2}

FourKeys == {-1, 1, 2, 3}

\* Ranges with ends at a key, between keys and past the last one.
SomeEnds == {-1, 2, 3}

\* The ends of one range, which leaves the largest key out.
TwoEnds == {-1, 3}

LeastEnds == {MCIntMin, 2, 3}

\* The bits of the keys; key 2 is a false positive of a run with -1.
MCFilterBits == [k \in Keys |-> CASE k = -1 -> {0, 1} [] k = 1 -> {2, 3} [] k = 3 -> {3}
                                  [] OTHER -> {1}]
=============================================================================
