------------------------------ MODULE DiskRun ------------------------------
(***************************************************************************)
(* One run on disk, diskRun.hpp: the sorted array that is written once,    *)
(* the index constructIndex builds over it, and the searches of lookup and *)
(* range step by step: first among the fence pointers for a page, then in  *)
(* the page.  Arrays are indexed from 0, as in the code.  Of an entry the  *)
(* model keeps the key; its place in the array stands for its value.       *)
(***************************************************************************)
EXTENDS RunReads

CONSTANTS
  Keys,          \* the keys of entries and of searches
  PageSizes,     \* pageSize, entries for each fence pointer
  MaxCapacity,   \* bound: entries of a run
  FilterBits,    \* FilterBits[k]: the Bloom filter bits the hashes of k name
  Word           \* the largest unsigned number an index is stored in

ASSUME RunAssumption ==
  /\ Keys \subseteq Int
  /\ PageSizes \subseteq Nat \ {0}
  /\ MaxCapacity \in Nat \ {0}
  /\ Word \in Nat /\ 2 * MaxCapacity <= Word

VARIABLES
  map,           \* the keys of the entries
  capacity,      \* _capacity
  pageSize,      \* pageSize
  fences,        \* _fencePointers
  iMaxFP,        \* _iMaxFP, the index of the last fence pointer
  bf,            \* the Bloom filter: the bits that are set
  pc,            \* where the call is; "ready" between two calls
  op,            \* what get_index is called for: a lookup, a range's start or its end
  key1, key2,    \* the arguments of range
  i1,            \* range's first result
  key,           \* what get_index searches
  min, max,      \* the bounds of its searches; min is the result in the end
  found,         \* binary_search's found
  ret            \* what the last call returned

runVars    == <<map, capacity, pageSize, fences, iMaxFP, bf>>
rangeVars  == <<key1, key2, i1>>
searchVars == <<op, key, min, max, found>>
vars == <<runVars, pc, rangeVars, searchVars, ret>>

NoRet == [op |-> "none"]

LookupReturns(k, f, at) == [op |-> "lookup", key |-> k, found |-> f, at |-> at]

RangeReturns(k1, k2, from, to) == [op |-> "range", key1 |-> k1, key2 |-> k2, i1 |-> from, i2 |-> to]

----------------------------------------------------------------------------
(* The run *)

\* The index of the first entry of page i.
PageStart(i, p) == i * p

Sorted(f) == \A i, j \in DOMAIN f : i <= j => f[i] <= f[j]

minKey == map[0]

maxKey == map[capacity - 1]

\* A bug for Build: _fencePointers.resize(_iMaxFP), one short.
BuildShort(c, p) ==
  /\ pc = "new"
  /\ capacity' = c /\ pageSize' = p
  /\ map' \in [0..c - 1 -> Keys] /\ Sorted(map')
  /\ \E last \in 0..c - 1 : PageStart(last, p) < c /\ c <= PageStart(last + 1, p) /\ iMaxFP' = last
  /\ fences' = [i \in 0..iMaxFP' - 1 |-> map'[PageStart(i, p)]]
  /\ bf' = UNION {FilterBits[map'[i]] : i \in 0..c - 1}
  /\ pc' = "ready"
  /\ UNCHANGED <<rangeVars, searchVars, ret>>

\* The array is written by addRuns or addRunByArray, and constructIndex makes a
\* fence pointer of the first key of each page.
Build(c, p) ==
  /\ pc = "new"
  /\ capacity' = c /\ pageSize' = p
  /\ map' \in [0..c - 1 -> Keys] /\ Sorted(map')
  /\ \E last \in 0..c - 1 : PageStart(last, p) < c /\ c <= PageStart(last + 1, p) /\ iMaxFP' = last
  /\ fences' = [i \in 0..iMaxFP' |-> map'[PageStart(i, p)]]
  /\ bf' = UNION {FilterBits[map'[i]] : i \in 0..c - 1}
  /\ pc' = "ready"
  /\ UNCHANGED <<rangeVars, searchVars, ret>>

----------------------------------------------------------------------------
(* The calls *)

\* The call of get_index(k).
Seek(purpose, k) ==
  /\ pc' = "flank"
  /\ op' = purpose /\ key' = k /\ min' = 0 /\ max' = 0 /\ found' = FALSE
  /\ ret' = NoRet

\* The call ends and its variables with it.
Answer(r) ==
  /\ pc' = "ready"
  /\ op' = "none" /\ key' = 0 /\ min' = 0 /\ max' = 0 /\ found' = FALSE
  /\ ret' = r

\* A bug for Lookup: minKey and maxKey are not looked at.
LookupAnyKey(k) ==
  /\ pc = "ready"
  /\ IF ~MayContain(bf, FilterBits[k]) THEN Answer(LookupReturns(k, FALSE, 0)) ELSE Seek("lookup", k)
  /\ UNCHANGED <<runVars, rangeVars>>

\* DiskLevel::lookup on this run: the tests before the search, and its start.
\* The test for maxKey = INT_MIN, which leaves out a run with no other key, is in
\* LSM's Answers; INT_MIN is not in Keys here.
Lookup(k) ==
  /\ pc = "ready"
  /\ IF k < minKey \/ k > maxKey \/ ~MayContain(bf, FilterBits[k])
       THEN Answer(LookupReturns(k, FALSE, 0))
       ELSE Seek("lookup", k)
  /\ UNCHANGED <<runVars, rangeVars>>

\* A bug for SeekEnd: >= for >, so that the last key counts as inside.
SeekEndLast(k1, k2, from) ==
  /\ i1' = from
  /\ IF k2 >= maxKey THEN Answer(RangeReturns(k1, k2, from, capacity)) ELSE Seek("to", k2)

\* range, once the index of its start is known.
SeekEnd(k1, k2, from) ==
  /\ i1' = from
  /\ IF k2 > maxKey THEN Answer(RangeReturns(k1, k2, from, capacity)) ELSE Seek("to", k2)

\* range, which LSM::range calls with key1 < key2.
KeyRange(k1, k2) ==
  /\ pc = "ready" /\ k1 < k2
  /\ key1' = k1 /\ key2' = k2
  /\ \/ (k1 > maxKey \/ k2 < minKey) /\ Answer(RangeReturns(k1, k2, 0, 0)) /\ i1' = 0
     \/ k1 < minKey /\ k2 >= minKey /\ SeekEnd(k1, k2, 0)
     \/ k1 >= minKey /\ k1 <= maxKey /\ Seek("from", k1) /\ i1' = 0
  /\ UNCHANGED runVars

\* The return of get_index.  lookup reads the value at the index even when the key
\* was not found.
Return ==
  /\ pc = "return"
  /\ \/ /\ op = "lookup"
        /\ IF min \in DOMAIN map THEN Answer(LookupReturns(key, found, min))
             ELSE pc' = "out_of_bounds" /\ UNCHANGED <<searchVars, ret>>
        /\ UNCHANGED i1
     \/ op = "from" /\ SeekEnd(key1, key2, min)
     \/ op = "to" /\ Answer(RangeReturns(key1, key2, i1, min)) /\ UNCHANGED i1
  /\ UNCHANGED <<runVars, key1, key2>>

----------------------------------------------------------------------------
(* The searches *)

\* (a + b) >> 1 and i - 1 of unsigned numbers.
Half(a, b) == (IF a + b <= Word THEN a + b ELSE a + b - (Word + 1)) \div 2

Dec(i) == IF i = 0 THEN Word ELSE i - 1

\* get_flanking_FP returns start and end, and binary_search(start, end - start)
\* begins: of an empty page it says that the key is found.
Page(start, end) ==
  /\ IF start = end
       THEN pc' = "return" /\ found' = TRUE /\ min' = start /\ UNCHANGED max
       ELSE pc' = "search" /\ min' = start /\ max' = end - 1 /\ UNCHANGED found
  /\ UNCHANGED <<runVars, rangeVars, op, key, ret>>

\* From fence pointer a to fence pointer b.
PageFrom(a, b) == Page(PageStart(a, pageSize), PageStart(b, pageSize))

\* What the searches do outside of their arrays, or with a page that was not set.
Undefined(outcome) == pc' = outcome /\ UNCHANGED <<runVars, rangeVars, searchVars, ret>>

\* A bug for Flank: the last page ends one entry early.
FlankLastShort ==
  /\ pc = "flank"
  /\ \/ iMaxFP = 0 /\ Page(0, capacity)
     \/ iMaxFP # 0 /\ key < fences[1] /\ Page(0, pageSize)
     \/ /\ iMaxFP # 0 /\ key >= fences[1] /\ key >= fences[iMaxFP]
        /\ Page(PageStart(iMaxFP, pageSize), capacity - 1)
     \/ /\ iMaxFP # 0 /\ key >= fences[1] /\ key < fences[iMaxFP]
        /\ pc' = "flank_loop" /\ min' = 0 /\ max' = iMaxFP
        /\ UNCHANGED <<runVars, rangeVars, op, key, found, ret>>

\* get_flanking_FP up to its loop.
Flank ==
  /\ pc = "flank"
  /\ \/ iMaxFP = 0 /\ Page(0, capacity)
     \/ iMaxFP # 0 /\ key < fences[1] /\ Page(0, pageSize)
     \/ /\ iMaxFP # 0 /\ key >= fences[1] /\ key >= fences[iMaxFP]
        /\ Page(PageStart(iMaxFP, pageSize), capacity)
     \/ /\ iMaxFP # 0 /\ key >= fences[1] /\ key < fences[iMaxFP]
        /\ pc' = "flank_loop" /\ min' = 0 /\ max' = iMaxFP
        /\ UNCHANGED <<runVars, rangeVars, op, key, found, ret>>

\* The fence pointers that get_flanking_FP's loop looks at next to the middle one.
Beside(middle) == IF key > fences[middle] THEN middle + 1 ELSE Dec(middle)

\* A turn of the loop that compares the key with fence pointers m and b = Beside(m).
Narrow(m, b) ==
  \/ key > fences[m] /\ key < fences[b] /\ PageFrom(m, b)
  \/ key < fences[m] /\ key >= fences[b] /\ PageFrom(b, m)
  \/ /\ key > fences[m] /\ key >= fences[b]
     /\ min' = b
     /\ UNCHANGED <<runVars, pc, rangeVars, op, key, max, found, ret>>
  \/ /\ key < fences[m] /\ key < fences[b]
     /\ max' = m - 1
     /\ UNCHANGED <<runVars, pc, rangeVars, op, key, min, found, ret>>

\* The loop: one turn, or the exit, which leaves start and end without a value.
FlankStep ==
  /\ pc = "flank_loop"
  /\ LET m == Half(min, max)
     IN  \/ min >= max /\ Undefined("no_page")
         \/ min < max /\ key = fences[m] /\ PageFrom(m, m)
         \/ min < max /\ key # fences[m] /\ Beside(m) \notin DOMAIN fences /\ Undefined("out_of_bounds")
         \/ min < max /\ key # fences[m] /\ Beside(m) \in DOMAIN fences /\ Narrow(m, Beside(m))

\* Bugs for SearchStep: max = middle, which need not make the page smaller; and a
\* comparison that does not stop at the key.
SearchStepStays ==
  /\ pc = "search"
  /\ LET m == Half(min, max)
     IN  \/ min > max /\ pc' = "return" /\ UNCHANGED <<min, max, found>>
         \/ min <= max /\ key > map[m] /\ min' = m + 1 /\ UNCHANGED <<pc, max, found>>
         \/ min <= max /\ key = map[m] /\ pc' = "return" /\ found' = TRUE /\ min' = m /\ UNCHANGED max
         \/ min <= max /\ key < map[m] /\ max' = m /\ UNCHANGED <<pc, min, found>>
  /\ UNCHANGED <<runVars, rangeVars, op, key, ret>>

SearchStepPasses ==
  /\ pc = "search"
  /\ LET m == Half(min, max)
     IN  \/ min > max /\ pc' = "return" /\ UNCHANGED <<min, max, found>>
         \/ min <= max /\ key >= map[m] /\ min' = m + 1 /\ UNCHANGED <<pc, max, found>>
         \/ min <= max /\ key < map[m] /\ max' = Dec(m) /\ UNCHANGED <<pc, min, found>>
  /\ UNCHANGED <<runVars, rangeVars, op, key, ret>>

\* binary_search: one turn of its loop, or the exit.
SearchStep ==
  /\ pc = "search"
  /\ LET m == Half(min, max)
     IN  \/ min > max /\ pc' = "return" /\ UNCHANGED <<min, max, found>>
         \/ /\ min <= max /\ m \notin DOMAIN map
            /\ pc' = "out_of_bounds" /\ UNCHANGED <<min, max, found>>
         \/ /\ min <= max /\ m \in DOMAIN map
            /\ \/ key > map[m] /\ min' = m + 1 /\ UNCHANGED <<pc, max, found>>
               \/ key = map[m] /\ pc' = "return" /\ found' = TRUE /\ min' = m /\ UNCHANGED max
               \/ key < map[m] /\ max' = Dec(m) /\ UNCHANGED <<pc, min, found>>
  /\ UNCHANGED <<runVars, rangeVars, op, key, ret>>

----------------------------------------------------------------------------
Init ==
  /\ map = << >> /\ capacity = 0 /\ pageSize = 0 /\ fences = << >> /\ iMaxFP = 0 /\ bf = {}
  /\ pc = "new" /\ key1 = 0 /\ key2 = 0 /\ i1 = 0
  /\ op = "none" /\ key = 0 /\ min = 0 /\ max = 0 /\ found = FALSE
  /\ ret = NoRet

Call ==
  \/ \E k \in Keys : Lookup(k)
  \/ \E k1, k2 \in Keys : KeyRange(k1, k2)

Continue == Flank \/ FlankStep \/ SearchStep \/ Return

Next == (\E c \in 1..MaxCapacity, p \in PageSizes : Build(c, p)) \/ Call \/ Continue

Spec == Init /\ [][Next]_vars

\* The thread that called runs.
FairSpec == Spec /\ WF_vars(Continue)

----------------------------------------------------------------------------
(* Properties *)

Occurs(k) == \E i \in DOMAIN map : map[i] = k

TypeOK ==
  /\ capacity \in 0..MaxCapacity /\ pageSize \in PageSizes \union {0} /\ iMaxFP \in Nat
  /\ map \in [0..capacity - 1 -> Keys]
  /\ pc # "new" => fences \in [0..iMaxFP -> Keys]
  /\ pc \in {"new", "ready", "flank", "flank_loop", "search", "return", "no_page", "out_of_bounds"}
  /\ op \in {"none", "lookup", "from", "to"}
  /\ key1 \in Int /\ key2 \in Int /\ key \in Int /\ i1 \in Nat
  /\ min \in 0..Word /\ max \in 0..Word /\ found \in BOOLEAN
  /\ ret.op \in {"none", "lookup", "range"}

\* No search reads outside of the array or of the fence pointers, no index wraps
\* around to do so, and get_flanking_FP never returns without having set start and
\* end: its loop "will break if you don't keep track of min and max", and lookup
\* and range do.
SearchesAreDefined == pc \notin {"no_page", "out_of_bounds"}

\* A lookup finds a key exactly if the run has it, and then answers with one of
\* the entries of that key, whatever page they are in.
LookupIsExact ==
  ret.op = "lookup" =>
    /\ ret.found <=> Occurs(ret.key)
    /\ ret.found => ret.at \in DOMAIN map /\ map[ret.at] = ret.key

\* A range has all entries strictly between its ends and none outside of them, its
\* length is not negative, and it starts and stops at an entry with the key of
\* the end if there is one.
RangeIsExact ==
  ret.op = "range" =>
    /\ ret.i1 <= ret.i2 /\ ret.i2 <= capacity
    /\ \A i \in DOMAIN map :
         /\ ret.key1 < map[i] /\ map[i] < ret.key2 => ret.i1 <= i /\ i < ret.i2
         /\ ret.i1 <= i /\ i < ret.i2 => ret.key1 <= map[i] /\ map[i] <= ret.key2
    /\ Occurs(ret.key1) => map[ret.i1] = ret.key1
    /\ Occurs(ret.key2) => ret.i2 < capacity /\ map[ret.i2] = ret.key2

\* The entries with key k, by their indexes, that are in from..to - 1.  They are next
\* to each other.
EntriesOf(k, from, to) ==
  LET is == {i \in DOMAIN map : map[i] = k /\ from <= i /\ i < to}
  IN  IF is = {} THEN << >> ELSE [x \in 1..Cardinality(is) |-> Min(is) + x - 1]

\* What a search returns is what LSM takes a run to answer.
AnswersAsLSM ==
  /\ ret.op = "lookup" /\ ret.found => ret.at \in Found(EntriesOf(ret.key, 0, capacity))
  /\ ret.op = "range" =>
       \A k \in Keys : EntriesOf(k, ret.i1, ret.i2) \in
                         Slices(EntriesOf(k, 0, capacity), k, ret.key1, ret.key2)

\* The loops of the searches end.
CallsReturn == pc = "flank" ~> pc = "ready"
=============================================================================
