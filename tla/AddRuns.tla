------------------------------ MODULE AddRuns ------------------------------
(***************************************************************************)
(* DiskLevel::addRuns, which merges several runs into a new run of the     *)
(* next level, one step of its loops at a time.  StaticHeap holds the next *)
(* entry of each run.  Arrays are indexed from 0, as in the code.  LSM     *)
(* takes all of this for one step, with HeapMerge and DropLastTombstone.   *)
(***************************************************************************)
EXTENDS RunData

CONSTANTS
  Values,        \* the values of keys that are not deleted
  NumMerged,     \* _mergeSize of the level above, how many runs are merged
  RunSize,       \* _runSize of the level above, the most entries one can have
  IntMax,        \* INT_MAX
  MaxEntries     \* bound: entries of all the runs

ASSUME MergeAssumption ==
  /\ Keys \subseteq Int /\ IntMax \in Int /\ \A k \in Keys : k < IntMax
  /\ NumMerged \in Nat \ {0} /\ RunSize \in Nat \ {0} /\ MaxEntries \in Nat
  /\ Tombstone \notin Values /\ Absent \notin Values /\ Tombstone # Absent

VARIABLES
  runList,       \* the runs to merge, oldest first
  lastLevel,     \* is the result the first run of the last level?
  arr,           \* StaticHeap: arr
  size,          \* StaticHeap: size
  at,            \* push and heapify: i
  blob,          \* push: blob
  filled,        \* the first loop's i: how many runs have an entry in the heap
  heads,         \* heads: the entry of each run that the heap has or had last
  slots,         \* the array of the new run, runs[_activeRun]->map
  j,             \* the index of the last entry in it
  lastKey,       \* the key of the previous turn
  lastk,         \* the run of the previous turn
  top,           \* val_run_pair
  pc             \* where addRuns is

inVars   == <<runList, lastLevel>>
heapVars == <<arr, size, at, blob>>
outVars  == <<slots, j, lastKey, lastk>>
vars == <<inVars, heapVars, filled, heads, outVars, top, pc>>

Entries == [key : Keys, value : Values \union {Tombstone}]

\* A fresh file is full of zeros, which are no tombstone.
Blank == [key |-> 0, value |-> Absent]

\* KVINTPAIRMAX, with which the heap is filled, and KVIntPair_t(kvp, i).
MaxPair == [entry |-> [key |-> IntMax, value |-> Absent], run |-> -1]

Pair(e, i) == [entry |-> e, run |-> i]

\* A bug for Before: by key only, as KVPair's own operator.
BeforeByKey(p, q) == p.entry.key < q.entry.key

\* operator< of the pairs: by key, then by run.
Before(p, q) ==
  \/ p.entry.key < q.entry.key
  \/ p.entry.key = q.entry.key /\ p.run < q.run

Parent(i) == (i - 1) \div 2

LeftChild(i) == 2 * i + 1

RightChild(i) == 2 * i + 2

Runs == 0..NumMerged - 1

Slots == 0..NumMerged * RunSize - 1

\* getCapacity() of a run.
Capacity(i) == Cardinality(DOMAIN runList[i])

\* A run of n entries: sorted by key, and with several of one key if it is from
\* level 1.
RunsOf(n) ==
  {r \in [0..n - 1 -> Entries] : \A x, y \in 0..n - 1 : x <= y => r[x].key <= r[y].key}

\* The runs there can be.
AnyRun == UNION {RunsOf(n) : n \in 1..RunSize}

Init ==
  /\ runList \in [Runs -> AnyRun]
  /\ FoldFunction(LAMBDA r, n : Cardinality(DOMAIN r) + n, 0, runList) <= MaxEntries
  /\ lastLevel \in BOOLEAN
  /\ arr = [i \in Runs |-> MaxPair] /\ size = 0 /\ at = 0 /\ blob = MaxPair
  /\ filled = 0
  /\ heads = [i \in Runs |-> 0]
  /\ slots = [i \in Slots |-> Blank]
  /\ j = -1 /\ lastKey = IntMax /\ lastk = IntMax + 1
  /\ top = MaxPair
  /\ pc = "fill"

----------------------------------------------------------------------------
(* The heap *)

\* A bug for StartPush: i = ++size.
StartPushLate(p) ==
  /\ blob' = p /\ at' = size + 1 /\ size' = size + 1
  /\ pc' = "push"
  /\ UNCHANGED arr

\* h.push(p) up to its loop.
StartPush(p) ==
  /\ blob' = p /\ at' = size /\ size' = size + 1
  /\ pc' = "push"
  /\ UNCHANGED arr

\* The condition of the loop of push.
Rises == at # 0 /\ Before(blob, arr[Parent(at)])

\* A turn of the loop of push, or what follows it.
Push ==
  /\ pc = "push"
  /\ \/ /\ Rises
        /\ arr' = [arr EXCEPT ![at] = arr[Parent(at)]]
        /\ at' = Parent(at)
        /\ UNCHANGED <<blob, pc>>
     \/ /\ ~Rises
        /\ arr' = [arr EXCEPT ![at] = blob]
        /\ at' = 0 /\ blob' = MaxPair
        /\ pc' = IF filled < NumMerged THEN "fill" ELSE "merge"
  /\ UNCHANGED <<inVars, size, filled, heads, outVars, top>>

\* h.pop() up to its heapify(0).
Pop ==
  /\ pc = "merge" /\ size # 0
  /\ top' = arr[0]
  /\ arr' = [arr EXCEPT ![0] = arr[size - 1]]
  /\ size' = size - 1 /\ at' = 0
  /\ pc' = "heapify"
  /\ UNCHANGED <<inVars, blob, filled, heads, outVars>>

\* The index of the smaller one of two pairs, the second only if it is in the heap.
Smaller(a, b) == IF b < size /\ Before(arr[b], arr[a]) THEN b ELSE a

\* A bug for Smallest: the right child is forgotten.
SmallestLeft(i) == Smaller(i, LeftChild(i))

\* The smallest one of i and its children.
Smallest(i) == Smaller(Smaller(i, LeftChild(i)), RightChild(i))

\* heapify(at): the swap and the recursive call, or the return.
Heapify ==
  /\ pc = "heapify"
  /\ LET s == Smallest(at)
     IN  \/ /\ s # at
            /\ arr' = [arr EXCEPT ![at] = arr[s], ![s] = arr[at]]
            /\ at' = s
            /\ UNCHANGED pc
         \/ /\ s = at
            /\ at' = 0 /\ pc' = "place"
            /\ UNCHANGED arr
  /\ UNCHANGED <<inVars, size, blob, filled, heads, outVars, top>>

----------------------------------------------------------------------------
(* The merge *)

\* A turn of the first loop: the first entry of a run.
Fill ==
  /\ pc = "fill"
  /\ StartPush(Pair(runList[filled][0], filled))
  /\ filled' = filled + 1
  /\ UNCHANGED <<inVars, heads, outVars, top>>

\* A bug for NextIndex: the first entry goes to slot 1, as j starts one too late.
NextIndexLate ==
  IF j = -1 THEN 1
  ELSE IF lastLevel /\ j + 1 \in Slots /\ slots[j + 1].value = Tombstone THEN j ELSE j + 1

\* The index for an entry with a new key.  A last level is to have no tombstones,
\* but the slot that is looked at is the one not yet written.
NextIndex ==
  IF lastLevel /\ j + 1 \in Slots /\ slots[j + 1].value = Tombstone THEN j ELSE j + 1

\* The slots that a turn reads or writes.
Touched ==
  IF lastKey = top.entry.key THEN IF lastk < top.run THEN {j} ELSE {}
  ELSE {j + 1, NextIndex}

\* The turn's entry goes to the new run: over an older entry of the same key, or
\* after the last one.
Place ==
  /\ \/ /\ lastKey = top.entry.key /\ lastk < top.run
        /\ slots' = [slots EXCEPT ![j] = top.entry] /\ UNCHANGED j
     \/ lastKey = top.entry.key /\ lastk >= top.run /\ UNCHANGED <<slots, j>>
     \/ /\ lastKey # top.entry.key
        /\ j' = NextIndex /\ slots' = [slots EXCEPT ![NextIndex] = top.entry]
  /\ lastKey' = top.entry.key /\ lastk' = top.run

\* A bug for Advance: the run's entry is pushed again.
AdvanceNot(k) ==
  /\ StartPush(Pair(runList[k][heads[k]], k))
  /\ UNCHANGED heads

\* The next entry of the run, if there is one.
Advance(k) ==
  /\ heads' = [heads EXCEPT ![k] = @ + 1]
  /\ \/ heads[k] + 1 < Capacity(k) /\ StartPush(Pair(runList[k][heads[k] + 1], k))
     \/ heads[k] + 1 >= Capacity(k) /\ pc' = "merge" /\ UNCHANGED heapVars

\* The rest of the turn after h.pop(), with its assertion.
Turn ==
  /\ pc = "place"
  /\ \/ top # MaxPair /\ Touched \subseteq Slots /\ Place /\ Advance(top.run)
     \/ /\ top = MaxPair \/ ~(Touched \subseteq Slots)
        /\ pc' = IF top = MaxPair THEN "aborted" ELSE "out_of_bounds"
        /\ UNCHANGED <<outVars, heads, heapVars>>
  /\ UNCHANGED <<inVars, filled, top>>

\* What follows the loop, to constructIndex, which reads the last entry.
Finish ==
  /\ pc = "merge" /\ size = 0
  /\ \/ /\ lastLevel => j \in Slots
        /\ j' = IF lastLevel /\ slots[j].value = Tombstone THEN j - 1 ELSE j
        /\ pc' = IF j' + 1 > 0 THEN "done" ELSE "index_underflow"
     \/ lastLevel /\ j \notin Slots /\ pc' = "out_of_bounds" /\ UNCHANGED j
  /\ UNCHANGED <<inVars, heapVars, filled, heads, slots, lastKey, lastk, top>>

Over == pc \in {"done", "index_underflow"} /\ UNCHANGED vars

Next == Fill \/ Push \/ Pop \/ Heapify \/ Turn \/ Finish \/ Over

Spec == Init /\ [][Next]_vars

\* The merge thread runs.
FairSpec == Spec /\ WF_vars(Next)

----------------------------------------------------------------------------
(* Properties *)

Pairs == {Pair(e, i) : e \in Entries, i \in Runs} \union {MaxPair}

TypeOK ==
  /\ runList \in [Runs -> AnyRun] /\ lastLevel \in BOOLEAN
  /\ arr \in [Runs -> Pairs] /\ size \in 0..NumMerged /\ at \in Runs /\ blob \in Pairs
  /\ filled \in 0..NumMerged
  /\ heads \in [Runs -> 0..RunSize]
  /\ slots \in [Slots -> Entries \union {Blank}] /\ j \in Slots \union {-1}
  /\ lastKey \in Keys \union {IntMax} /\ lastk \in Runs \union {IntMax + 1}
  /\ top \in Pairs
  /\ pc \in {"fill", "push", "merge", "heapify", "place", "done", "index_underflow",
             "out_of_bounds", "aborted"}

\* addRuns, which tests no bound, stays inside the file of the new run: however the
\* keys of the runs overlap, there are never more entries than slots, and none is
\* written or read before the first.
StaysInFile == pc # "out_of_bounds"

\* Before each turn the heap has the next entry of every run that is not used up,
\* once, in heap order; what a turn works on comes before all that is left, and is
\* never the pair that the heap was filled with, as addRuns asserts.
HeapInv ==
  /\ pc # "aborted"
  /\ pc = "merge" =>
       /\ \A i \in 1..size - 1 : Before(arr[Parent(i)], arr[i])
       /\ {arr[i] : i \in 0..size - 1} =
            {Pair(runList[k][heads[k]], k) : k \in {k \in Runs : heads[k] < Capacity(k)}}
  /\ pc = "place" => \A i \in 0..size - 1 : Before(top, arr[i])

\* The first n entries of an array that is sorted by key, grouped by key as LSM has them.
ByKey(array, n) ==
  [k \in Keys |-> LET is == {i \in 0..n - 1 : array[i].key = k}
                  IN  IF is = {} THEN << >>
                      ELSE [x \in 1..Cardinality(is) |-> array[Min(is) + x - 1].value]]

\* The result is sorted, has each key once, and is what LSM takes addRuns to make:
\* the first entry of the newest run that has the key, whatever the order in which
\* the heap gave the entries out, and in the last level without a tombstone at
\* the end.
MergesAsLSM ==
  pc \in {"done", "index_underflow"} =>
    /\ \A i \in 0..j : i > 0 => slots[i - 1].key < slots[i].key
    /\ LET merged == HeapMerge([i \in 1..NumMerged |-> ByKey(runList[i - 1], Capacity(i - 1))])
       IN  ByKey(slots, j + 1) = IF lastLevel THEN DropLastTombstone(merged) ELSE merged

\* The merge ends.
MergeEnds == <>(pc \in {"done", "index_underflow"})
=============================================================================
