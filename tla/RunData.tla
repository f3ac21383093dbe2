------------------------------ MODULE RunData ------------------------------
(***************************************************************************)
(* Runs as the tree sees them: a skip list of the buffer and the array of  *)
(* a disk run, and what insert_key, get_all_in_range and addRuns do to     *)
(* them in one step.  SkipList and AddRuns show that the code under them   *)
(* does just that.                                                         *)
(***************************************************************************)
EXTENDS Integers, SequencesExt

CONSTANTS
  Keys,              \* the keys the client uses
  Tombstone,         \* V_TOMBSTONE, the value delete_key stores
  Absent             \* no entry for a key

----------------------------------------------------------------------------
(* The skip list of a buffer run *)

EmptyRun == [elts |-> [k \in Keys |-> Absent], n |-> 0, min |-> 0, max |-> 0]

\* The keys in it.
RunKeys(run) == {k \in Keys : run.elts[k] # Absent}

\* A bug for SkipInsert: min is not kept up to date.
SkipInsertKeepsMin(run, k, v) ==
  [elts |-> [run.elts EXCEPT ![k] = v],
   n    |-> IF run.elts[k] = Absent THEN run.n + 1 ELSE run.n,
   min  |-> run.min,
   max  |-> IF k > run.max THEN k ELSE run.max]

\* SkipList::insert_key.
SkipInsert(run, k, v) ==
  [elts |-> [run.elts EXCEPT ![k] = v],
   n    |-> IF run.elts[k] = Absent THEN run.n + 1 ELSE run.n,
   min  |-> IF k <= run.max /\ k < run.min THEN k ELSE run.min,
   max  |-> IF k > run.max THEN k ELSE run.max]

\* SkipList::get_all_in_range, what it returns for key k.
EntriesInRange(run, k, lo, hi) ==
  IF lo > run.max \/ hi < run.min \/ k < lo \/ k >= hi \/ run.elts[k] = Absent
  THEN << >> ELSE << run.elts[k] >>

----------------------------------------------------------------------------
(* The array of a disk run *)

EmptyArray == [k \in Keys |-> << >>]

\* The keys in it.
KeysOf(array) == {k \in Keys : array[k] # << >>}

\* A bug for HeapMerge: the oldest run wins.
OldestWins(runs) ==
  [k \in Keys |->
    LET holders == {i \in DOMAIN runs : runs[i][k] # << >>}
    IN  IF holders = {} THEN << >> ELSE << runs[Min(holders)][k][1] >>]

\* The merge of addRuns: of every key, the first entry of the newest run with it.
HeapMerge(runs) ==
  [k \in Keys |->
    LET holders == {i \in DOMAIN runs : runs[i][k] # << >>}
    IN  IF holders = {} THEN << >> ELSE << runs[Max(holders)][k][1] >>]

\* In the last level addRuns means to leave tombstones out; it takes away one
\* that is the last entry of the result.
DropLastTombstone(array) ==
  LET last == Max(KeysOf(array))
  IN  IF array[last] = << Tombstone >> THEN [array EXCEPT ![last] = << >>] ELSE array
=============================================================================
