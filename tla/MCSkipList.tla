----------------------------- MODULE MCSkipList -----------------------------
(***************************************************************************)
(* Instances of SkipList for TLC: keys of both signs, which a              *)
(* configuration cannot write down.                                        *)
(***************************************************************************)
EXTENDS SkipList

MCMinKey == -4

\* The smallest key there is, one below 0 and two above.
MCKeys == {-4, -1, 1, 3}

\* The same with the largest key there is, which the tail has too.
KeysWithLast == {-1, 4}

\* Range ends at the extremes, at keys and between them.
MCBounds == {-4, -1, 2, 3, 4}
=============================================================================
