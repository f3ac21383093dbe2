----------------------------- MODULE MCAddRuns -----------------------------
(***************************************************************************)
(* Merges for TLC: all small ones, in which the keys of the runs overlap   *)
(* in every way, and those of full runs without a common key, whose result *)
(* takes every slot of its file.                                           *)
(***************************************************************************)
EXTENDS AddRuns

CONSTANTS
  SmallKeys,     \* bound: the keys of the small merges
  SmallEntries   \* bound: the entries of all the runs of one

\* The runs of up to RunSize entries of SmallKeys.
SmallRuns ==
  UNION {{[x \in 0..n - 1 |-> e[x + 1]] : e \in
            {e \in [1..n -> {f \in Entries : f.key \in SmallKeys}] :
               \A x, y \in 1..n : x <= y => e[x].key <= e[y].key}} : n \in 1..RunSize}

SmallMerges ==
  {runs \in [Runs -> SmallRuns] :
     FoldFunction(LAMBDA r, n : Cardinality(DOMAIN r) + n, 0, runs) <= SmallEntries}

\* The run of some keys, of which one may be deleted.
RunWith(keys, deleted) ==
  [x \in 0..Cardinality(keys) - 1 |->
     LET k == CHOOSE k \in keys : Cardinality({c \in keys : c < k}) = x
     IN  [key |-> k, value |-> IF k = deleted THEN Tombstone ELSE CHOOSE v \in Values : TRUE]]

\* Each key is in one run, and each run is full; the last key is deleted or none is.
FullMerges ==
  {[i \in Runs |-> RunWith({k \in Keys : owner[k] = i}, deleted)] :
     owner \in {o \in [Keys -> Runs] : \A i \in Runs : Cardinality({k \in Keys : o[k] = i}) = RunSize},
     deleted \in {Max(Keys), IntMax}}

MCInit == runList \in SmallMerges \union FullMerges /\ Init

MCSpec == MCInit /\ [][Next]_vars /\ WF_vars(Next)
=============================================================================
