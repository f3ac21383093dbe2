--------------------------- MODULE DiskRunProofs ---------------------------
(***************************************************************************)
(* The searches of DiskRun are defined and exact for runs of every length, *)
(* with every page size, every sorted array, duplicates included, and      *)
(* every key.  The invariant says what each loop knows of the entries      *)
(* before, between and after its bounds.                                   *)
(***************************************************************************)
EXTENDS DiskRun, FlattenLemmas, FiniteSetTheorems, TLAPS

\* What the assumptions on the constants say.
LEMMA Parameters ==
  /\ Keys \subseteq Int /\ PageSizes \subseteq Nat \ {0}
  /\ MaxCapacity \in Nat \ {0} /\ Word \in Nat /\ 2 * MaxCapacity <= Word
  BY RunAssumption DEF RunAssumption

----------------------------------------------------------------------------
(* Arithmetic of pages and of the middle *)

\* Pages begin in the order of their fence pointers.
LEMMA PageOrder ==
  ASSUME NEW P \in Nat \ {0}, NEW i \in Nat, NEW j \in Nat
  PROVE  /\ PageStart(i, P) \in Nat
         /\ i <= j => PageStart(i, P) <= PageStart(j, P)
         /\ i < j => PageStart(i, P) < PageStart(j, P)
<1>1. i * P \in Nat
  OBVIOUS
<1>2. ASSUME i <= j PROVE i * P <= j * P
  <2>1. PICK d \in Nat : j = i + d
    BY <1>2, j - i \in Nat, j = i + (j - i)
  <2>2. j * P = i * P + d * P /\ d * P \in Nat
    BY <2>1
  <2> QED
    BY <1>1, <2>2
<1>3. ASSUME i < j PROVE i * P < j * P
  <2>1. PICK d \in Nat : j = i + 1 + d
    BY <1>3, j - i - 1 \in Nat, j = i + 1 + (j - i - 1)
  <2>2. j * P = i * P + P + d * P /\ d * P \in Nat
    BY <2>1
  <2> QED
    BY <1>1, <2>2
<1> QED
  BY <1>1, <1>2, <1>3 DEF PageStart

\* A page does not begin before its number.
LEMMA PageIndex == ASSUME NEW P \in Nat \ {0}, NEW i \in Nat PROVE i <= PageStart(i, P) /\ PageStart(i, P) \in Nat
<1>1. PICK d \in Nat : P = 1 + d
  BY P - 1 \in Nat, P = 1 + (P - 1)
<1>2. i * P = i + i * d /\ i * d \in Nat
  BY <1>1
<1>3. i <= i * P /\ i * P \in Nat
  BY <1>2
<1> QED
  BY <1>3 DEF PageStart

\* Where the first two pages start.
LEMMA FirstPage == ASSUME NEW P \in Nat PROVE PageStart(0, P) = 0 /\ PageStart(1, P) = P
  BY DEF PageStart

\* A page of a run begins in the run.
LEMMA PageInRun ==
  ASSUME NEW P \in Nat \ {0}, NEW c \in Nat, NEW last \in Nat, PageStart(last, P) < c,
         NEW i \in 0..last
  PROVE  PageStart(i, P) \in 0..c - 1
<1>1. i \in Nat /\ i <= last
  OBVIOUS
<1>2. PageStart(i, P) \in Nat /\ PageStart(i, P) <= PageStart(last, P)
  BY <1>1, PageOrder
<1>3. PageStart(last, P) \in Nat
  BY PageOrder
<1> QED
  BY <1>2, <1>3

\* The middle lies between the bounds: the sum does not wrap around.
LEMMA HalfBetween ==
  ASSUME NEW a \in Nat, NEW b \in Nat, a <= b, b <= MaxCapacity
  PROVE  /\ Half(a, b) \in Nat /\ a <= Half(a, b) /\ Half(a, b) <= b
         /\ a < b => Half(a, b) < b
<1>1. a + b <= Word
  BY Parameters
<1>2. Half(a, b) = (a + b) \div 2
  BY <1>1 DEF Half
<1> QED
  BY <1>2

----------------------------------------------------------------------------
(* The invariant *)

\* What Build makes.
RunOK ==
  /\ capacity \in 1..MaxCapacity /\ pageSize \in Nat \ {0}
  /\ map \in [0..capacity - 1 -> Keys] /\ Sorted(map)
  /\ iMaxFP \in Nat /\ PageStart(iMaxFP, pageSize) < capacity
  /\ fences \in [0..iMaxFP -> Keys]
  /\ \A i \in 0..iMaxFP : fences[i] = map[PageStart(i, pageSize)]
  /\ \A i \in DOMAIN map : FilterBits[map[i]] \subseteq bf

\* Index i separates the smaller keys from the larger ones, and is at k if k occurs.
SplitsAt(i, k) ==
  /\ i \in 0..capacity
  /\ \A j \in DOMAIN map : (j < i => map[j] <= k) /\ (j >= i => map[j] >= k)
  /\ Occurs(k) => i \in DOMAIN map /\ map[i] = k

\* Only keys inside the run are searched, and what the search is for.
KeyOK ==
  /\ key \in Int /\ minKey <= key /\ key <= maxKey
  /\ op \in {"lookup", "from", "to"}
  /\ op \in {"from", "to"} => key1 \in Int /\ key2 \in Int /\ key1 < key2
  /\ op = "from" => key = key1
  /\ op = "to" => key = key2 /\ SplitsAt(i1, key1)

\* get_index has not yet found the key.
NotFound == found = FALSE

\* The fence pointers at the bounds of get_flanking_FP's loop lie around the key.
FlankOK ==
  /\ NotFound
  /\ min \in 0..iMaxFP /\ max \in 0..iMaxFP /\ min < max
  /\ fences[min] <= key /\ key < fences[max]

\* binary_search has passed no entry with the key.
SearchOK ==
  /\ NotFound
  /\ min \in 0..capacity /\ max \in 0..capacity - 1
  /\ \A j \in DOMAIN map : (j < min => map[j] <= key) /\ (j > max => map[j] > key)
  /\ Occurs(key) => \E j \in DOMAIN map : min <= j /\ j <= max /\ map[j] = key

ReturnOK ==
  /\ min \in DOMAIN map /\ SplitsAt(min, key)
  /\ found \in BOOLEAN /\ (found <=> Occurs(key))

Inv ==
  /\ pc \in {"new", "ready", "flank", "flank_loop", "search", "return"}
  /\ pc = "new" => ret = NoRet
  /\ pc # "new" => RunOK
  /\ pc \in {"flank", "flank_loop", "search", "return"} => KeyOK
  /\ pc = "flank" => NotFound
  /\ pc = "flank_loop" => FlankOK
  /\ pc = "search" => SearchOK
  /\ pc = "return" => ReturnOK
  /\ LookupIsExact /\ RangeIsExact

\* What the answers are when there is none.
LEMMA NoAnswer == NoRet.op = "none"
  BY DEF NoRet

\* The invariant holds before the run is built.
LEMMA InvInit == Init => Inv
<1> SUFFICES ASSUME Init PROVE Inv
  OBVIOUS
<1>1. pc = "new" /\ ret = NoRet /\ ret.op = "none"
  BY NoAnswer DEF Init
<1> QED
  BY <1>1 DEF Inv, LookupIsExact, RangeIsExact

\* A step that leaves the run alone leaves what is said of the run alone.
LEMMA SameRun ==
  ASSUME RunOK, UNCHANGED runVars
  PROVE  /\ RunOK' /\ minKey' = minKey /\ maxKey' = maxKey
         /\ \A k : Occurs(k)' <=> Occurs(k)
         /\ \A i, k : SplitsAt(i, k)' <=> SplitsAt(i, k)
  BY DEF RunOK, runVars, minKey, maxKey, Occurs, SplitsAt

\* What minKey and maxKey say of the keys of the run.
LEMMA Extremes ==
  ASSUME RunOK
  PROVE  /\ capacity \in Nat /\ capacity >= 1 /\ DOMAIN map = 0..capacity - 1
         /\ 0 \in DOMAIN map /\ capacity - 1 \in DOMAIN map
         /\ minKey \in Int /\ maxKey \in Int
         /\ \A j \in DOMAIN map : map[j] \in Int /\ minKey <= map[j] /\ map[j] <= maxKey
         /\ \A i, j \in DOMAIN map : i <= j => map[i] <= map[j]
<1>1. capacity \in 1..MaxCapacity /\ map \in [0..capacity - 1 -> Keys] /\ Sorted(map)
  BY DEF RunOK
<1>2. capacity \in Nat /\ capacity >= 1 /\ DOMAIN map = 0..capacity - 1
  BY <1>1, Parameters
<1>3. 0 \in DOMAIN map /\ capacity - 1 \in DOMAIN map
  BY <1>2
<1>4. \A j \in DOMAIN map : map[j] \in Int
  BY <1>1, <1>2, Parameters
<1>5. \A i, j \in DOMAIN map : i <= j => map[i] <= map[j]
  BY <1>1 DEF Sorted
<1>6. \A j \in DOMAIN map : map[0] <= map[j] /\ map[j] <= map[capacity - 1]
  BY <1>2, <1>3, <1>5
<1> QED
  BY <1>2, <1>3, <1>4, <1>5, <1>6 DEF minKey, maxKey

\* Build makes a run whose fence pointers are the keys at the starts of its pages.
LEMMA BuildInv ==
  ASSUME Inv, NEW c \in 1..MaxCapacity, NEW p \in PageSizes, Build(c, p)
  PROVE  Inv'
<1>1. /\ capacity' = c /\ pageSize' = p /\ p \in Nat \ {0}
      /\ map' \in [0..c - 1 -> Keys] /\ Sorted(map') /\ DOMAIN map' = 0..c - 1
      /\ pc' = "ready" /\ ret' = NoRet
  BY Parameters DEF Build, Inv
<1>2. iMaxFP' \in Nat /\ PageStart(iMaxFP', p) < c /\ iMaxFP' \in 0..c - 1
  BY <1>1 DEF Build
<1>3. \A i \in 0..iMaxFP' : PageStart(i, p) \in 0..c - 1
  BY <1>1, <1>2, PageInRun
<1>4. fences' = [i \in 0..iMaxFP' |-> map'[PageStart(i, p)]]
  BY DEF Build
<1>5. \A i \in DOMAIN map' : FilterBits[map'[i]] \subseteq bf'
  BY <1>1 DEF Build
<1>6. RunOK'
  BY <1>1, <1>2, <1>3, <1>4, <1>5 DEF RunOK
<1>7. ret'.op = "none"
  BY <1>1, NoAnswer
<1> QED
  BY <1>1, <1>6, <1>7 DEF Inv, LookupIsExact, RangeIsExact

\* The start of a search of a key that is inside the run.
LEMMA SeekInv ==
  ASSUME Inv, RunOK, UNCHANGED runVars, NEW purpose, NEW k, Seek(purpose, k), KeyOK'
  PROVE  Inv'
<1>1. RunOK'
  BY SameRun
<1>2. pc' = "flank" /\ found' = FALSE /\ ret'.op = "none"
  BY NoAnswer DEF Seek
<1> QED
  BY <1>1, <1>2 DEF Inv, NotFound, LookupIsExact, RangeIsExact

\* The end of a call with an exact answer.
LEMMA AnswerInv ==
  ASSUME Inv, RunOK, UNCHANGED runVars, NEW r, Answer(r), LookupIsExact', RangeIsExact'
  PROVE  Inv'
<1>1. RunOK'
  BY SameRun
<1>2. pc' = "ready"
  BY DEF Answer
<1> QED
  BY <1>1, <1>2 DEF Inv

\* A key outside of the run, or one the Bloom filter rejects, is not in the run.
LEMMA LookupInv == ASSUME Inv, NEW k \in Keys, Lookup(k) PROVE Inv'
<1>1. pc = "ready" /\ RunOK /\ UNCHANGED runVars
  BY DEF Inv, Lookup
<1>2. CASE k < minKey \/ k > maxKey \/ ~MayContain(bf, FilterBits[k])
  <2>1. Answer(LookupReturns(k, FALSE, 0))
    BY <1>2 DEF Lookup
  <2>2. ret' = LookupReturns(k, FALSE, 0)
    BY <2>1 DEF Answer
  <2>3. ret'.op = "lookup" /\ ret'.key = k /\ ret'.found = FALSE
    BY <2>2 DEF LookupReturns
  <2>4. ~Occurs(k)
    BY <1>1, <1>2, Extremes, Parameters DEF Occurs, RunOK, MayContain
  <2>5. ~Occurs(k)'
    BY <1>1, <2>4, SameRun
  <2>6. LookupIsExact' /\ RangeIsExact'
    BY <2>3, <2>5 DEF LookupIsExact, RangeIsExact
  <2> QED
    BY <1>1, <2>1, <2>6, AnswerInv
<1>3. CASE ~(k < minKey \/ k > maxKey \/ ~MayContain(bf, FilterBits[k]))
  <2>1. Seek("lookup", k)
    BY <1>3 DEF Lookup
  <2>2. k \in Int /\ minKey <= k /\ k <= maxKey
    BY <1>1, <1>3, Extremes, Parameters
  <2>3. KeyOK'
    BY <1>1, <2>1, <2>2, SameRun DEF KeyOK, Seek
  <2> QED
    BY <1>1, <2>1, <2>3, SeekInv
<1> QED
  BY <1>2, <1>3

\* Two indexes that separate the keys at two ends make an exact range.
LEMMA ExactRange ==
  ASSUME RunOK, NEW k1 \in Int, NEW k2 \in Int, k1 < k2, NEW a, NEW b,
         SplitsAt(a, k1), SplitsAt(b, k2)
  PROVE  /\ a <= b /\ b <= capacity
         /\ \A i \in DOMAIN map :
              /\ k1 < map[i] /\ map[i] < k2 => a <= i /\ i < b
              /\ a <= i /\ i < b => k1 <= map[i] /\ map[i] <= k2
         /\ Occurs(k1) => map[a] = k1
         /\ Occurs(k2) => b < capacity /\ map[b] = k2
<1>1. /\ capacity \in Nat /\ DOMAIN map = 0..capacity - 1
      /\ \A j \in DOMAIN map : map[j] \in Int
  BY Extremes
<1>2. /\ a \in 0..capacity /\ \A j \in DOMAIN map : (j < a => map[j] <= k1) /\ (j >= a => map[j] >= k1)
      /\ Occurs(k1) => a \in DOMAIN map /\ map[a] = k1
  BY DEF SplitsAt
<1>3. /\ b \in 0..capacity /\ \A j \in DOMAIN map : (j < b => map[j] <= k2) /\ (j >= b => map[j] >= k2)
      /\ Occurs(k2) => b \in DOMAIN map /\ map[b] = k2
  BY DEF SplitsAt
<1>4. a <= b
  <2> SUFFICES ASSUME b < a PROVE FALSE
    BY <1>1, <1>2, <1>3
  <2>1. b \in DOMAIN map
    BY <1>1, <1>2, <1>3
  <2>2. map[b] <= k1 /\ map[b] >= k2 /\ map[b] \in Int
    BY <1>1, <1>2, <1>3, <2>1
  <2> QED
    BY <2>2
<1>5. ASSUME NEW i \in DOMAIN map
      PROVE  /\ k1 < map[i] /\ map[i] < k2 => a <= i /\ i < b
             /\ a <= i /\ i < b => k1 <= map[i] /\ map[i] <= k2
  BY <1>1, <1>2, <1>3
<1> QED
  BY <1>1, <1>2, <1>3, <1>4, <1>5

\* The answer of a range is exact if its indexes separate the keys.
LEMMA RangeAnswerInv ==
  ASSUME Inv, RunOK, UNCHANGED runVars, NEW k1 \in Int, NEW k2 \in Int, k1 < k2, NEW a, NEW b,
         SplitsAt(a, k1), SplitsAt(b, k2), Answer(RangeReturns(k1, k2, a, b))
  PROVE  Inv'
<1>1. ret' = RangeReturns(k1, k2, a, b)
  BY DEF Answer
<1>2. /\ ret'.op = "range" /\ ret'.key1 = k1 /\ ret'.key2 = k2 /\ ret'.i1 = a /\ ret'.i2 = b
  BY <1>1 DEF RangeReturns
<1>3. map' = map /\ capacity' = capacity
  BY DEF runVars
<1> DEFINE Exact ==
      /\ a <= b /\ b <= capacity
      /\ \A i \in DOMAIN map :
           /\ k1 < map[i] /\ map[i] < k2 => a <= i /\ i < b
           /\ a <= i /\ i < b => k1 <= map[i] /\ map[i] <= k2
      /\ Occurs(k1) => map[a] = k1
      /\ Occurs(k2) => b < capacity /\ map[b] = k2
<1>4. Exact
  BY ExactRange
<1>5. RangeIsExact'
  BY <1>2, <1>3, <1>4 DEF RangeIsExact, Occurs
<1>6. LookupIsExact'
  BY <1>2 DEF LookupIsExact
<1> QED
  BY <1>5, <1>6, AnswerInv

\* The whole run lies after a key below minKey and before one above maxKey.
LEMMA OutsideSplits ==
  ASSUME RunOK, NEW k \in Int
  PROVE  /\ k < minKey => SplitsAt(0, k)
         /\ k > maxKey => SplitsAt(capacity, k)
<1>1. /\ capacity \in Nat /\ DOMAIN map = 0..capacity - 1 /\ minKey \in Int /\ maxKey \in Int
      /\ \A j \in DOMAIN map : map[j] \in Int /\ minKey <= map[j] /\ map[j] <= maxKey
  BY Extremes
<1>2. ASSUME k < minKey PROVE SplitsAt(0, k)
  BY <1>1, <1>2 DEF SplitsAt, Occurs
<1>3. ASSUME k > maxKey PROVE SplitsAt(capacity, k)
  BY <1>1, <1>3 DEF SplitsAt, Occurs
<1> QED
  BY <1>2, <1>3

\* The second half of range.
LEMMA SeekEndInv ==
  ASSUME Inv, RunOK, UNCHANGED runVars, NEW k1 \in Int, NEW k2 \in Int, k1 < k2, k2 >= minKey,
         NEW a, SplitsAt(a, k1), SeekEnd(k1, k2, a), key1' = k1, key2' = k2
  PROVE  Inv'
<1>1. CASE k2 > maxKey
  <2>1. Answer(RangeReturns(k1, k2, a, capacity))
    BY <1>1 DEF SeekEnd
  <2>2. SplitsAt(capacity, k2)
    BY <1>1, OutsideSplits
  <2> QED
    BY <2>1, <2>2, RangeAnswerInv
<1>2. CASE ~(k2 > maxKey)
  <2>1. Seek("to", k2) /\ i1' = a
    BY <1>2 DEF SeekEnd
  <2>2. k2 <= maxKey
    BY <1>2, Extremes
  <2>3. KeyOK'
    BY <2>1, <2>2, SameRun DEF KeyOK, Seek
  <2> QED
    BY <2>1, <2>3, SeekInv
<1> QED
  BY <1>1, <1>2

\* range up to its first search.
LEMMA KeyRangeInv == ASSUME Inv, NEW k1 \in Keys, NEW k2 \in Keys, KeyRange(k1, k2) PROVE Inv'
<1>1. /\ pc = "ready" /\ RunOK /\ UNCHANGED runVars /\ k1 < k2 /\ key1' = k1 /\ key2' = k2
      /\ k1 \in Int /\ k2 \in Int
  BY Parameters DEF Inv, KeyRange
<1>2. CASE (k1 > maxKey \/ k2 < minKey) /\ Answer(RangeReturns(k1, k2, 0, 0))
  <2>1. ret' = RangeReturns(k1, k2, 0, 0)
    BY <1>2 DEF Answer
  <2>2. ret'.op = "range" /\ ret'.key1 = k1 /\ ret'.key2 = k2 /\ ret'.i1 = 0 /\ ret'.i2 = 0
    BY <2>1 DEF RangeReturns
  <2>3. map' = map /\ capacity' = capacity /\ \A k : Occurs(k)' <=> Occurs(k)
    BY <1>1, SameRun DEF runVars
  <2>4. \A i \in DOMAIN map : ~(k1 < map[i] /\ map[i] < k2) /\ map[i] \in Int /\ map[i] # k1 /\ map[i] # k2
    <3>1. k1 > maxKey => k2 > maxKey
      BY <1>1, Extremes
    <3>2. k2 < minKey => k1 < minKey
      BY <1>1, Extremes
    <3> QED
      BY <1>1, <1>2, <3>1, <3>2, Extremes
  <2>5. RangeIsExact'
    BY <1>1, <2>2, <2>3, <2>4, Extremes DEF RangeIsExact, Occurs
  <2>6. LookupIsExact'
    BY <2>2 DEF LookupIsExact
  <2> QED
    BY <1>1, <1>2, <2>5, <2>6, AnswerInv
<1>3. CASE k1 < minKey /\ k2 >= minKey /\ SeekEnd(k1, k2, 0)
  BY <1>1, <1>3, OutsideSplits, SeekEndInv
<1>4. CASE k1 >= minKey /\ k1 <= maxKey /\ Seek("from", k1)
  <2>1. KeyOK'
    BY <1>1, <1>4, SameRun DEF KeyOK, Seek
  <2> QED
    BY <1>1, <1>4, <2>1, SeekInv
<1> QED
  BY <1>2, <1>3, <1>4 DEF KeyRange

\* The return of get_index, with the key found or its place known.
LEMMA ReturnInv == ASSUME Inv, Return PROVE Inv'
<1>1. RunOK /\ KeyOK /\ ReturnOK /\ UNCHANGED runVars /\ key1' = key1 /\ key2' = key2
  BY DEF Inv, Return
<1>2. min \in DOMAIN map /\ SplitsAt(min, key) /\ found \in BOOLEAN /\ (found <=> Occurs(key))
  BY <1>1 DEF ReturnOK
<1>3. CASE op = "lookup"
  <2>1. Answer(LookupReturns(key, found, min))
    BY <1>2, <1>3 DEF Return
  <2>2. ret' = LookupReturns(key, found, min)
    BY <2>1 DEF Answer
  <2>3. ret'.op = "lookup" /\ ret'.key = key /\ ret'.found = found /\ ret'.at = min
    BY <2>2 DEF LookupReturns
  <2>4. map' = map /\ \A k : Occurs(k)' <=> Occurs(k)
    BY <1>1, SameRun DEF runVars
  <2>5. found => map[min] = key
    BY <1>2 DEF SplitsAt
  <2>6. LookupIsExact' /\ RangeIsExact'
    BY <1>2, <2>3, <2>4, <2>5 DEF LookupIsExact, RangeIsExact
  <2> QED
    BY <1>1, <2>1, <2>6, AnswerInv
<1>4. CASE op = "from"
  <2>1. SeekEnd(key1, key2, min) /\ key1 \in Int /\ key2 \in Int /\ key1 < key2 /\ key = key1
    BY <1>1, <1>4 DEF Return, KeyOK
  <2>2. key2 >= minKey
    BY <1>1, <2>1, Extremes DEF KeyOK
  <2> QED
    BY <1>1, <1>2, <2>1, <2>2, SeekEndInv
<1>5. CASE op = "to"
  <2>1. /\ Answer(RangeReturns(key1, key2, i1, min)) /\ key1 \in Int /\ key2 \in Int /\ key1 < key2
        /\ key = key2 /\ SplitsAt(i1, key1)
    BY <1>1, <1>5 DEF Return, KeyOK
  <2> QED
    BY <1>1, <1>2, <2>1, RangeAnswerInv
<1> QED
  BY <1>1, <1>3, <1>4, <1>5 DEF KeyOK

----------------------------------------------------------------------------
(* The searches *)

\* A step of a search: the call and its answer stay as they are.
LEMMA SearchFrame ==
  ASSUME Inv, RunOK, KeyOK, UNCHANGED <<runVars, rangeVars, op, key, ret>>
  PROVE  /\ RunOK' /\ KeyOK' /\ LookupIsExact' /\ RangeIsExact'
         /\ map' = map /\ capacity' = capacity /\ fences' = fences /\ iMaxFP' = iMaxFP
         /\ Occurs(key)' <=> Occurs(key)
  BY SameRun DEF Inv, KeyOK, LookupIsExact, RangeIsExact, Occurs, SplitsAt, minKey, maxKey,
                 runVars, rangeVars

\* An empty page is what get_flanking_FP returns for the key of a fence pointer.
LEMMA EmptyPageInv ==
  ASSUME Inv, RunOK, KeyOK, NEW s \in DOMAIN map, map[s] = key, Page(s, s)
  PROVE  Inv'
<1>1. /\ RunOK' /\ KeyOK' /\ LookupIsExact' /\ RangeIsExact' /\ map' = map /\ capacity' = capacity
      /\ key' = key /\ pc' = "return" /\ found' = TRUE /\ min' = s
  BY SearchFrame DEF Page
<1>2. Occurs(key)
  BY DEF Occurs
<1>3. SplitsAt(s, key)
  BY Extremes DEF SplitsAt
<1>4. ReturnOK'
  BY <1>1, <1>2, <1>3 DEF ReturnOK, SplitsAt, Occurs
<1> QED
  BY <1>1, <1>4 DEF Inv

\* A page that starts at or before the key and ends before a larger one has an entry
\* with the key if the run has one.
LEMMA FullPageInv ==
  ASSUME Inv, RunOK, KeyOK, NotFound, NEW s \in DOMAIN map, NEW e \in 1..capacity, s < e,
         map[s] <= key, e < capacity => map[e] > key, Page(s, e)
  PROVE  Inv'
<1>1. /\ capacity \in Nat /\ DOMAIN map = 0..capacity - 1 /\ key \in Int
      /\ \A j \in DOMAIN map : map[j] \in Int
      /\ \A i, j \in DOMAIN map : i <= j => map[i] <= map[j]
  BY Extremes DEF KeyOK
<1>2. UNCHANGED <<runVars, rangeVars, op, key, ret>> /\ pc' = "search" /\ min' = s /\ max' = e - 1 /\ found' = FALSE
  BY <1>1 DEF Page, NotFound
<1>3. /\ RunOK' /\ KeyOK' /\ LookupIsExact' /\ RangeIsExact' /\ map' = map /\ capacity' = capacity
      /\ key' = key
  BY <1>2, SearchFrame
<1>4. ASSUME NEW j \in DOMAIN map PROVE (j < s => map[j] <= key) /\ (j > e - 1 => map[j] > key)
  <2>1. ASSUME j < s PROVE map[j] <= key
    BY <1>1, <2>1
  <2>2. ASSUME j > e - 1 PROVE map[j] > key
    <3>1. e \in DOMAIN map /\ e <= j
      BY <1>1, <2>2
    <3>2. map[e] > key /\ map[e] <= map[j] /\ map[e] \in Int
      BY <1>1, <3>1
    <3> QED
      BY <1>1, <3>2
  <2> QED
    BY <2>1, <2>2
<1>5. ASSUME Occurs(key) PROVE \E j \in DOMAIN map : s <= j /\ j <= e - 1 /\ map[j] = key
  <2>1. PICK j \in DOMAIN map : map[j] = key
    BY <1>5 DEF Occurs
  <2>2. j <= e - 1
    BY <1>1, <1>4, <2>1
  <2>3. CASE s <= j
    BY <2>1, <2>2, <2>3
  <2>4. CASE ~(s <= j)
    <3>1. map[j] <= map[s]
      BY <1>1, <2>4
    <3>2. map[s] = key /\ s <= e - 1
      BY <1>1, <2>1, <3>1
    <3> QED
      BY <1>1, <3>2
  <2> QED
    BY <2>3, <2>4
<1>6. s \in 0..capacity /\ e - 1 \in 0..capacity - 1
  BY <1>1
<1>7. SearchOK'
  BY <1>2, <1>3, <1>4, <1>5, <1>6 DEF SearchOK, NotFound, Occurs
<1> QED
  BY <1>2, <1>3, <1>7 DEF Inv

\* The keys of the fence pointers are those of the entries at the starts of the pages.
LEMMA FenceKeys ==
  ASSUME RunOK
  PROVE  /\ iMaxFP \in Nat /\ iMaxFP < capacity /\ pageSize \in Nat \ {0} /\ DOMAIN fences = 0..iMaxFP
         /\ \A i \in 0..iMaxFP :
              /\ PageStart(i, pageSize) \in DOMAIN map
              /\ fences[i] = map[PageStart(i, pageSize)] /\ fences[i] \in Int
         /\ fences[0] = minKey
         /\ \A i, j \in 0..iMaxFP : i < j => PageStart(i, pageSize) < PageStart(j, pageSize)
<1>1. iMaxFP \in Nat /\ pageSize \in Nat \ {0} /\ PageStart(iMaxFP, pageSize) < capacity
      /\ fences \in [0..iMaxFP -> Keys] /\ \A i \in 0..iMaxFP : fences[i] = map[PageStart(i, pageSize)]
  BY DEF RunOK
<1>2. capacity \in Nat /\ DOMAIN map = 0..capacity - 1 /\ \A j \in DOMAIN map : map[j] \in Int
  BY Extremes
<1>3. \A i \in 0..iMaxFP : PageStart(i, pageSize) \in DOMAIN map
  BY <1>1, <1>2, PageInRun
<1>4. \A i, j \in 0..iMaxFP : i < j => PageStart(i, pageSize) < PageStart(j, pageSize)
  BY <1>1, PageOrder
<1>5. fences[0] = minKey
  BY <1>1, FirstPage DEF minKey
<1>6. iMaxFP < capacity
  <2>1. iMaxFP <= PageStart(iMaxFP, pageSize) /\ PageStart(iMaxFP, pageSize) \in Nat
    BY <1>1, PageOrder DEF PageStart
  <2> QED
    BY <1>1, <1>2, <2>1
<1> QED
  BY <1>1, <1>2, <1>3, <1>4, <1>5, <1>6

\* get_flanking_FP up to its loop: the page of the key, or a loop that encloses it.
LEMMA FlankInv == ASSUME Inv, Flank PROVE Inv'
<1>1. pc = "flank" /\ RunOK /\ KeyOK /\ NotFound
  BY DEF Inv, Flank
<1>2. /\ key \in Int /\ minKey <= key /\ key <= maxKey /\ minKey \in Int
      /\ capacity \in Nat /\ capacity >= 1 /\ DOMAIN map = 0..capacity - 1 /\ minKey = map[0]
  BY <1>1, Extremes DEF KeyOK, minKey
<1>3. CASE iMaxFP = 0 /\ Page(0, capacity)
  BY <1>1, <1>2, <1>3, FullPageInv
<1>4. CASE iMaxFP # 0 /\ key < fences[1] /\ Page(0, pageSize)
  <2>1. 1 \in 0..iMaxFP
    BY <1>1, <1>4, FenceKeys
  <2>2. pageSize \in DOMAIN map /\ fences[1] = map[pageSize] /\ pageSize \in Nat \ {0}
    BY <1>1, <2>1, FenceKeys, FirstPage
  <2>3. pageSize \in 1..capacity /\ 0 < pageSize /\ 0 \in DOMAIN map /\ map[pageSize] > key /\ map[0] <= key
    BY <1>2, <1>4, <2>2, FenceKeys, <1>1, <2>1
  <2> QED
    BY <1>1, <1>4, <2>3, FullPageInv
<1>5. CASE iMaxFP # 0 /\ key >= fences[1] /\ key >= fences[iMaxFP] /\ Page(PageStart(iMaxFP, pageSize), capacity)
  <2>1. iMaxFP \in 0..iMaxFP
    BY <1>1, FenceKeys
  <2>2. /\ PageStart(iMaxFP, pageSize) \in DOMAIN map
        /\ map[PageStart(iMaxFP, pageSize)] = fences[iMaxFP] /\ fences[iMaxFP] \in Int
    BY <1>1, <2>1, FenceKeys
  <2>3. /\ map[PageStart(iMaxFP, pageSize)] <= key
        /\ PageStart(iMaxFP, pageSize) < capacity /\ capacity \in 1..capacity
    BY <1>2, <1>5, <2>2
  <2> QED
    BY <1>1, <1>2, <1>5, <2>2, <2>3, FullPageInv
<1>6. CASE /\ iMaxFP # 0 /\ key >= fences[1] /\ key < fences[iMaxFP]
           /\ pc' = "flank_loop" /\ min' = 0 /\ max' = iMaxFP
           /\ UNCHANGED <<runVars, rangeVars, op, key, found, ret>>
  <2>1. /\ RunOK' /\ KeyOK' /\ LookupIsExact' /\ RangeIsExact'
        /\ fences' = fences /\ iMaxFP' = iMaxFP /\ key' = key /\ found' = found
    BY <1>1, <1>6, SearchFrame
  <2>2. iMaxFP \in Nat /\ fences[0] <= key
    BY <1>1, <1>2, FenceKeys
  <2>3. FlankOK'
    BY <1>1, <1>6, <2>1, <2>2 DEF FlankOK, NotFound
  <2> QED
    BY <1>6, <2>1, <2>3 DEF Inv
<1> QED
  BY <1>3, <1>4, <1>5, <1>6 DEF Flank

\* The page between neighbouring fence pointers that lie around the key.
LEMMA PageBetween ==
  ASSUME Inv, RunOK, KeyOK, NotFound, NEW a \in 0..iMaxFP, NEW b \in 0..iMaxFP, a < b,
         fences[a] <= key, key < fences[b], PageFrom(a, b)
  PROVE  Inv'
<1> DEFINE s == PageStart(a, pageSize)
           e == PageStart(b, pageSize)
<1>1. s \in DOMAIN map /\ e \in DOMAIN map /\ map[s] = fences[a] /\ map[e] = fences[b] /\ s < e
  BY FenceKeys
<1>2. DOMAIN map = 0..capacity - 1 /\ capacity \in Nat
  BY Extremes
<1>3. Page(s, e)
  BY DEF PageFrom
<1> HIDE DEF s, e
<1>4. e \in 1..capacity /\ map[s] <= key /\ map[e] > key
  <2>1. key \in Int /\ fences[a] \in Int /\ fences[b] \in Int
    BY FenceKeys DEF KeyOK
  <2> QED
    BY <1>1, <1>2, <2>1
<1> QED
  BY <1>1, <1>3, <1>4, FullPageInv

\* A turn of that loop keeps the key strictly inside, so it does not run out.
LEMMA FlankStepInv == ASSUME Inv, FlankStep PROVE Inv'
<1> DEFINE m == Half(min, max)
<1>1. pc = "flank_loop" /\ RunOK /\ KeyOK /\ FlankOK
  BY DEF Inv, FlankStep
<1>2. /\ NotFound /\ min \in Nat /\ max \in Nat /\ max <= iMaxFP /\ min < max
      /\ fences[min] <= key /\ key < fences[max]
  BY <1>1, FenceKeys DEF FlankOK, NotFound
<1>3. /\ iMaxFP \in Nat /\ iMaxFP < capacity /\ DOMAIN fences = 0..iMaxFP
      /\ \A i \in 0..iMaxFP : fences[i] \in Int
      /\ capacity \in Nat /\ capacity <= MaxCapacity
  BY <1>1, FenceKeys, Parameters DEF RunOK
<1>4. m \in Nat /\ min <= m /\ m < max
  BY <1>2, <1>3, HalfBetween, Parameters
<1>5. key \in Int /\ m \in 0..iMaxFP /\ fences[m] \in Int
  BY <1>1, <1>2, <1>3, <1>4 DEF KeyOK
<1> HIDE DEF m
<1>6. CASE key = fences[m] /\ PageFrom(m, m)
  <2>1. /\ PageStart(m, pageSize) \in DOMAIN map /\ map[PageStart(m, pageSize)] = key
        /\ Page(PageStart(m, pageSize), PageStart(m, pageSize))
    BY <1>1, <1>5, <1>6, FenceKeys DEF PageFrom
  <2> QED
    BY <1>1, <2>1, EmptyPageInv
<1>7. ASSUME key < fences[m] PROVE min <= m - 1 /\ Beside(m) = m - 1
  <2>1. m # min
    BY <1>2, <1>5, <1>7
  <2>2. m # 0 /\ min <= m - 1
    BY <1>2, <1>4, <2>1
  <2> QED
    BY <1>5, <1>7, <2>2 DEF Beside, Dec
<1>8. ASSUME key > fences[m] PROVE Beside(m) = m + 1
  BY <1>8 DEF Beside
<1>9. ASSUME key # fences[m] PROVE Beside(m) \in DOMAIN fences
  <2>1. CASE key > fences[m]
    BY <1>2, <1>3, <1>4, <1>8, <2>1
  <2>2. CASE key < fences[m]
    BY <1>2, <1>3, <1>4, <1>7, <2>2
  <2> QED
    BY <1>5, <1>9, <2>1, <2>2
<1>10. CASE key # fences[m] /\ Narrow(m, Beside(m))
  <2> DEFINE b == Beside(m)
  <2>1. b \in 0..iMaxFP /\ fences[b] \in Int
    BY <1>3, <1>9, <1>10
  <2>2. key > fences[m] => b = m + 1
    BY <1>8
  <2>3. key < fences[m] => b = m - 1 /\ min <= m - 1
    BY <1>7
  <2> HIDE DEF b
  <2>4. CASE key > fences[m] /\ key < fences[b] /\ PageFrom(m, b)
    BY <1>1, <1>2, <1>5, <2>1, <2>2, <2>4, PageBetween
  <2>5. CASE key < fences[m] /\ key >= fences[b] /\ PageFrom(b, m)
    BY <1>1, <1>2, <1>5, <2>1, <2>3, <2>5, PageBetween
  <2>6. CASE /\ key > fences[m] /\ key >= fences[b] /\ min' = b
             /\ UNCHANGED <<runVars, pc, rangeVars, op, key, max, found, ret>>
    <3>1. /\ RunOK' /\ KeyOK' /\ LookupIsExact' /\ RangeIsExact'
          /\ fences' = fences /\ iMaxFP' = iMaxFP /\ key' = key /\ found' = found /\ max' = max
      BY <1>1, <2>6, SearchFrame
    <3>2. b # max
      BY <1>2, <1>5, <2>1, <2>6
    <3>3. b < max
      BY <1>2, <1>4, <2>1, <2>2, <2>6, <3>2
    <3>4. FlankOK'
      BY <1>2, <1>3, <2>1, <2>6, <3>1, <3>3 DEF FlankOK, NotFound
    <3> QED
      BY <1>1, <2>6, <3>1, <3>4 DEF Inv
  <2>7. CASE /\ key < fences[m] /\ key < fences[b] /\ max' = m - 1
             /\ UNCHANGED <<runVars, pc, rangeVars, op, key, min, found, ret>>
    <3>1. /\ RunOK' /\ KeyOK' /\ LookupIsExact' /\ RangeIsExact'
          /\ fences' = fences /\ iMaxFP' = iMaxFP /\ key' = key /\ found' = found /\ min' = min
      BY <1>1, <2>7, SearchFrame
    <3>2. b # min
      BY <1>2, <1>3, <1>5, <2>1, <2>7
    <3>3. min < b /\ max' = b
      BY <1>2, <1>4, <2>1, <2>3, <2>7, <3>2
    <3>4. FlankOK'
      BY <1>2, <1>3, <2>1, <2>7, <3>1, <3>3 DEF FlankOK, NotFound
    <3> QED
      BY <1>1, <2>7, <3>1, <3>4 DEF Inv
  <2> QED
    BY <1>10, <2>4, <2>5, <2>6, <2>7 DEF Narrow, b
<1> QED
  BY <1>2, <1>6, <1>9, <1>10 DEF FlankStep, m

\* A turn of binary_search leaves only entries on the known sides outside.
LEMMA SearchStepInv == ASSUME Inv, SearchStep PROVE Inv'
<1> DEFINE m == Half(min, max)
<1>1. /\ pc = "search" /\ RunOK /\ KeyOK /\ SearchOK
      /\ UNCHANGED <<runVars, rangeVars, op, key, ret>>
  BY DEF Inv, SearchStep
<1>2. /\ RunOK' /\ KeyOK' /\ LookupIsExact' /\ RangeIsExact' /\ map' = map /\ capacity' = capacity
      /\ key' = key
  BY <1>1, SearchFrame
<1>3. /\ NotFound /\ min \in 0..capacity /\ max \in 0..capacity - 1
      /\ \A j \in DOMAIN map : (j < min => map[j] <= key) /\ (j > max => map[j] > key)
      /\ Occurs(key) => \E j \in DOMAIN map : min <= j /\ j <= max /\ map[j] = key
  BY <1>1 DEF SearchOK, NotFound
<1>4. /\ capacity \in Nat /\ capacity >= 1 /\ capacity <= MaxCapacity /\ DOMAIN map = 0..capacity - 1
      /\ \A j \in DOMAIN map : map[j] \in Int
      /\ \A i, j \in DOMAIN map : i <= j => map[i] <= map[j]
      /\ key \in Int /\ map[0] <= key /\ key <= map[capacity - 1]
  BY <1>1, Extremes, Parameters DEF RunOK, KeyOK, minKey, maxKey
<1>5. ASSUME min <= max PROVE m \in DOMAIN map /\ min <= m /\ m <= max /\ m \in Nat
  BY <1>3, <1>4, <1>5, HalfBetween, Parameters
<1> HIDE DEF m
<1>6. CASE min > max /\ pc' = "return" /\ UNCHANGED <<min, max, found>>
  <2>1. ~Occurs(key)
    BY <1>3, <1>4, <1>6
  <2>2. min # capacity
    <3>1. ASSUME min = capacity PROVE map[capacity - 1] = key
      BY <1>3, <1>4, <3>1
    <3> QED
      BY <1>4, <2>1, <3>1 DEF Occurs
  <2>3. min \in DOMAIN map /\ min \in 0..capacity
    BY <1>3, <1>4, <2>2
  <2>4. \A j \in DOMAIN map : (j < min => map[j] <= key) /\ (j >= min => map[j] >= key)
    BY <1>3, <1>4, <1>6
  <2>5. min' = min /\ found' = FALSE /\ ~Occurs(key)'
    BY <1>2, <1>3, <1>6, <2>1 DEF Occurs, NotFound
  <2>6. SplitsAt(min, key)'
    BY <1>2, <2>3, <2>4, <2>5 DEF SplitsAt
  <2>7. ReturnOK'
    BY <1>2, <2>3, <2>5, <2>6 DEF ReturnOK
  <2> QED
    BY <1>2, <1>6, <2>7 DEF Inv
<1>7. CASE min <= max /\ key > map[m] /\ min' = m + 1 /\ UNCHANGED <<pc, max, found>>
  <2>1. m + 1 \in 0..capacity
    BY <1>4, <1>5, <1>7
  <2>2. \A j \in DOMAIN map : j < m + 1 => map[j] < key
    BY <1>4, <1>5, <1>7
  <2>3. Occurs(key) => \E j \in DOMAIN map : m + 1 <= j /\ j <= max /\ map[j] = key
    BY <1>3, <1>4, <1>5, <1>7, <2>2
  <2>4. SearchOK'
    BY <1>2, <1>3, <1>4, <1>7, <2>1, <2>2, <2>3 DEF SearchOK, NotFound, Occurs
  <2> QED
    BY <1>1, <1>2, <1>7, <2>4 DEF Inv
<1>8. CASE min <= max /\ key = map[m] /\ pc' = "return" /\ found' = TRUE /\ min' = m
  <2>1. Occurs(key) /\ m \in DOMAIN map /\ m \in 0..capacity
    BY <1>4, <1>5, <1>8 DEF Occurs
  <2>2. \A j \in DOMAIN map : (j < m => map[j] <= key) /\ (j >= m => map[j] >= key)
    BY <1>4, <1>5, <1>8
  <2>3. ReturnOK'
    BY <1>2, <1>8, <2>1, <2>2 DEF ReturnOK, SplitsAt, Occurs
  <2> QED
    BY <1>2, <1>8, <2>3 DEF Inv
<1>9. CASE min <= max /\ key < map[m] /\ max' = Dec(m) /\ UNCHANGED <<pc, min, found>>
  <2>1. m # 0
    BY <1>4, <1>9
  <2>2. max' = m - 1 /\ m - 1 \in 0..capacity - 1
    BY <1>4, <1>5, <1>9, <2>1 DEF Dec
  <2>3. \A j \in DOMAIN map : j > m - 1 => map[j] > key
    BY <1>4, <1>5, <1>9
  <2>4. Occurs(key) => \E j \in DOMAIN map : min <= j /\ j <= m - 1 /\ map[j] = key
    BY <1>3, <1>4, <1>5, <1>9, <2>3
  <2>5. SearchOK'
    BY <1>2, <1>3, <1>4, <1>9, <2>2, <2>3, <2>4 DEF SearchOK, NotFound, Occurs
  <2> QED
    BY <1>1, <1>2, <1>9, <2>5 DEF Inv
<1> QED
  BY <1>5, <1>6, <1>7, <1>8, <1>9 DEF SearchStep, m

\* Steps that change nothing.
LEMMA StutterInv == ASSUME Inv, UNCHANGED vars PROVE Inv'
<1>1. CASE pc = "new"
  BY <1>1, NoAnswer DEF Inv, vars, LookupIsExact, RangeIsExact
<1>2. CASE pc # "new"
  <2>1. RunOK /\ UNCHANGED runVars
    BY <1>2 DEF Inv, vars
  <2>2. RunOK' /\ minKey' = minKey /\ maxKey' = maxKey
    BY <2>1, SameRun
  <2> QED
    BY <1>2, <2>1, <2>2 DEF Inv, vars, runVars, rangeVars, searchVars, KeyOK, NotFound, FlankOK, SearchOK, ReturnOK,
         SplitsAt, Occurs, LookupIsExact, RangeIsExact
<1> QED
  BY <1>1, <1>2

\* Every step keeps the invariant.
LEMMA InvNext == Inv /\ [Next]_vars => Inv'
<1> SUFFICES ASSUME Inv, [Next]_vars PROVE Inv'
  OBVIOUS
<1>1. CASE \E c \in 1..MaxCapacity, p \in PageSizes : Build(c, p)
  BY <1>1, BuildInv
<1>2. CASE Call
  BY <1>2, LookupInv, KeyRangeInv DEF Call
<1>3. CASE Continue
  BY <1>3, FlankInv, FlankStepInv, SearchStepInv, ReturnInv DEF Continue
<1>4. CASE UNCHANGED vars
  BY <1>4, StutterInv
<1> QED
  BY <1>1, <1>2, <1>3, <1>4 DEF Next

----------------------------------------------------------------------------
(* Theorems *)

\* The inductive invariant, from the lemmas about the actions.
LEMMA Invariance == Spec => []Inv
  BY InvInit, InvNext, PTL DEF Spec

\* No search of a run reads outside of it or works with a page that was never set,
\* for runs of every length, page size and content.
THEOREM SearchesDefined == Spec => []SearchesAreDefined
<1>1. Inv => SearchesAreDefined
  BY DEF Inv, SearchesAreDefined
<1> QED
  BY <1>1, Invariance, PTL

\* lookup in a run finds exactly the keys of the run.
THEOREM LookupCorrect == Spec => []LookupIsExact
  BY Invariance, PTL DEF Inv

\* range in a run delimits exactly the entries between its ends.
THEOREM RangeCorrect == Spec => []RangeIsExact
  BY Invariance, PTL DEF Inv

----------------------------------------------------------------------------
(* Types *)

\* A call of get_index, and the end of a call, set their variables to the right types.
LEMMA CallTypes ==
  ASSUME TypeOK, pc # "new", UNCHANGED runVars, key1' \in Int, key2' \in Int, i1' \in Nat,
         \/ \E p \in {"lookup", "from", "to"} : \E k \in Int : Seek(p, k)
         \/ \E r : r.op \in {"none", "lookup", "range"} /\ Answer(r)
  PROVE  TypeOK'
<1>1. UNCHANGED <<map, capacity, pageSize, fences, iMaxFP>>
  BY DEF runVars
<1>2. /\ pc' \in {"flank", "ready"} /\ op' \in {"none", "lookup", "from", "to"} /\ key' \in Int
      /\ min' = 0 /\ max' = 0 /\ found' = FALSE /\ ret'.op \in {"none", "lookup", "range"}
  BY NoAnswer DEF Seek, Answer
<1>3. 0 \in 0..Word
  BY Parameters
<1>4. pc' # "new" => fences' \in [0..iMaxFP' -> Keys]
  BY <1>1, <1>2 DEF TypeOK
<1> QED
  BY <1>1, <1>2, <1>3 DEF TypeOK

\* Every step keeps the types.
LEMMA TypeNext == ASSUME TypeOK, Inv, Inv', [Next]_vars PROVE TypeOK'
<1> DEFINE Indexes == 0..Word
<1>1. CASE \E c \in 1..MaxCapacity, p \in PageSizes : Build(c, p)
  <2>1. PICK c \in 1..MaxCapacity, p \in PageSizes : Build(c, p)
    BY <1>1
  <2>2. /\ capacity' = c /\ pageSize' = p /\ pc' = "ready" /\ map' \in [0..c - 1 -> Keys]
        /\ UNCHANGED <<key1, key2, i1, op, key, min, max, found, ret>>
    BY <2>1 DEF Build, rangeVars, searchVars
  <2>3. RunOK'
    BY <2>2 DEF Inv
  <2>4. iMaxFP' \in Nat /\ fences' \in [0..iMaxFP' -> Keys]
    BY <2>3 DEF RunOK
  <2> QED
    BY <2>2, <2>4, Parameters DEF TypeOK
<1>2. ASSUME NEW k \in Keys, Lookup(k) PROVE TypeOK'
  <2>1. pc # "new" /\ UNCHANGED runVars /\ UNCHANGED <<key1, key2, i1>> /\ k \in Int
    BY <1>2, Parameters DEF Lookup, rangeVars
  <2>2. key1' \in Int /\ key2' \in Int /\ i1' \in Nat
    BY <2>1 DEF TypeOK
  <2>3. LookupReturns(k, FALSE, 0).op = "lookup"
    BY DEF LookupReturns
  <2>4. Answer(LookupReturns(k, FALSE, 0)) \/ Seek("lookup", k)
    BY <1>2 DEF Lookup
  <2>5. \/ \E p \in {"lookup", "from", "to"} : \E i \in Int : Seek(p, i)
        \/ \E r : r.op \in {"none", "lookup", "range"} /\ Answer(r)
    <3>1. CASE Answer(LookupReturns(k, FALSE, 0))
      <4>1. PICK r : r = LookupReturns(k, FALSE, 0)
        OBVIOUS
      <4>2. r.op = "lookup" /\ Answer(r)
        BY <2>3, <3>1, <4>1
      <4> QED
        BY <4>2
    <3>2. CASE Seek("lookup", k)
      BY <2>1, <3>2
    <3> QED
      BY <2>4, <3>1, <3>2
  <2> QED
    BY <2>1, <2>2, <2>5, CallTypes
<1>3. ASSUME NEW k1 \in Keys, NEW k2 \in Keys, KeyRange(k1, k2) PROVE TypeOK'
  <2>1. pc # "new" /\ UNCHANGED runVars /\ key1' = k1 /\ key2' = k2 /\ k1 \in Int /\ k2 \in Int
    BY <1>3, Parameters DEF KeyRange
  <2>2. \A a, b : RangeReturns(k1, k2, a, b).op = "range"
    BY DEF RangeReturns
  <2>3. i1' = 0 /\ (Answer(RangeReturns(k1, k2, 0, 0)) \/ Answer(RangeReturns(k1, k2, 0, capacity))
                      \/ Seek("to", k2) \/ Seek("from", k1))
    BY <1>3 DEF KeyRange, SeekEnd
  <2>4. i1' \in Nat
    BY <2>3
  <2>5. \/ \E p \in {"lookup", "from", "to"} : \E k \in Int : Seek(p, k)
        \/ \E r : r.op \in {"none", "lookup", "range"} /\ Answer(r)
    <3>1. CASE Seek("to", k2) \/ Seek("from", k1)
      BY <2>1, <3>1
    <3>2. ASSUME NEW a, NEW b, Answer(RangeReturns(k1, k2, a, b)) PROVE \E r : r.op \in {"none", "lookup", "range"} /\ Answer(r)
      BY <2>2, <3>2
    <3> QED
      BY <2>3, <3>1, <3>2
  <2> QED
    BY <2>1, <2>4, <2>5, CallTypes
<1>4. CASE Return
  <2>1. /\ pc = "return" /\ pc # "new" /\ UNCHANGED runVars /\ key1' = key1 /\ key2' = key2 /\ ReturnOK
        /\ key1 \in Int /\ key2 \in Int
    BY <1>4 DEF Return, Inv, TypeOK
  <2>2. min \in DOMAIN map /\ min \in Nat
    <3>1. min \in Indexes
      BY DEF TypeOK
    <3> QED
      BY <2>1, <3>1, Parameters DEF ReturnOK
  <2>3. LookupReturns(key, found, min).op = "lookup" /\ \A a, b : RangeReturns(key1, key2, a, b).op = "range"
    BY DEF LookupReturns, RangeReturns
  <2>4. i1' \in Nat /\ \/ Answer(LookupReturns(key, found, min)) \/ Answer(RangeReturns(key1, key2, min, capacity))
                       \/ Seek("to", key2) \/ Answer(RangeReturns(key1, key2, i1, min))
    BY <1>4, <2>2 DEF Return, SeekEnd, TypeOK
  <2> QED
    BY <2>1, <2>3, <2>4, CallTypes
<1>5. CASE Flank \/ FlankStep \/ SearchStep
  <2>1. /\ pc \in {"flank", "flank_loop", "search"} /\ UNCHANGED <<runVars, rangeVars, op, key, ret>>
        /\ pc' \in {"flank", "flank_loop", "search", "return", "no_page", "out_of_bounds"}
    BY <1>5 DEF Flank, FlankStep, SearchStep, Page, PageFrom, Undefined, Narrow, searchVars
  <2>2. UNCHANGED <<map, capacity, pageSize, fences, iMaxFP, key1, key2, i1>> /\ RunOK /\ RunOK'
    BY <2>1 DEF runVars, rangeVars, Inv
  <2>3. /\ capacity \in Nat /\ capacity <= MaxCapacity /\ Word \in Nat /\ MaxCapacity \in Nat /\ 2 * MaxCapacity <= Word
        /\ iMaxFP \in Nat /\ iMaxFP <= capacity
    <3>1. iMaxFP \in Nat /\ pageSize \in Nat \ {0} /\ PageStart(iMaxFP, pageSize) < capacity /\ capacity \in 1..MaxCapacity
      BY <2>2 DEF RunOK
    <3>2. iMaxFP <= PageStart(iMaxFP, pageSize) /\ PageStart(iMaxFP, pageSize) \in Nat
      BY <3>1, PageIndex
    <3> QED
      BY <3>1, <3>2, Parameters
  <2>4. min' \in Indexes /\ found' \in BOOLEAN
    <3>1. CASE pc' = "flank_loop"
      <4>1. FlankOK'
        BY <3>1 DEF Inv
      <4>2. min' \in 0..iMaxFP /\ found' = FALSE
        BY <2>2, <4>1 DEF FlankOK, NotFound
      <4>3. min' \in Indexes
        BY <2>3, <4>2
      <4> QED
        BY <4>2, <4>3, Zenon
    <3>2. CASE pc' = "search"
      <4>1. SearchOK'
        BY <3>2 DEF Inv
      <4>2. min' \in 0..capacity /\ found' = FALSE
        BY <2>2, <4>1 DEF SearchOK, NotFound
      <4>3. min' \in Indexes
        BY <2>3, <4>2
      <4> QED
        BY <4>2, <4>3, Zenon
    <3>3. CASE pc' = "return"
      BY <2>2, <2>3, <3>3 DEF Inv, ReturnOK, RunOK
    <3>4. pc' # "flank" /\ pc' \notin {"no_page", "out_of_bounds"}
      BY <1>5 DEF Inv, Flank, FlankStep, SearchStep, Page, PageFrom, Undefined, Narrow
    <3> QED
      BY <2>1, <3>1, <3>2, <3>3, <3>4
  <2>5. max' \in Indexes
    <3>1. CASE pc' = "flank_loop"
      BY <2>2, <2>3, <3>1 DEF Inv, FlankOK
    <3>2. CASE pc' = "search"
      BY <2>2, <2>3, <3>2 DEF Inv, SearchOK
    <3>3. CASE pc' = "return"
      <4>1. max' = max
        BY <1>5, <2>1, <3>3 DEF Flank, FlankStep, SearchStep, Page, PageFrom, Undefined, Narrow
      <4> QED
        BY <4>1 DEF TypeOK
    <3>4. pc' # "flank" /\ pc' \notin {"no_page", "out_of_bounds"}
      BY <1>5 DEF Inv, Flank, FlankStep, SearchStep, Page, PageFrom, Undefined, Narrow
    <3> QED
      BY <2>1, <3>1, <3>2, <3>3, <3>4
  <2> QED
    BY <2>1, <2>2, <2>4, <2>5 DEF TypeOK
<1>6. CASE UNCHANGED vars
  BY <1>6 DEF vars, runVars, rangeVars, searchVars, TypeOK
<1> QED
  BY <1>1, <1>2, <1>3, <1>4, <1>5, <1>6 DEF Next, Call, Continue

\* At the start too.
LEMMA TypeInit == ASSUME Init PROVE TypeOK
<1>1. /\ map = << >> /\ capacity = 0 /\ pageSize = 0 /\ iMaxFP = 0 /\ pc = "new" /\ key1 = 0 /\ key2 = 0 /\ i1 = 0
      /\ op = "none" /\ key = 0 /\ min = 0 /\ max = 0 /\ found = FALSE /\ ret.op = "none"
  BY NoAnswer DEF Init
<1>2. map \in [0..capacity - 1 -> Keys]
  <2>1. 0..capacity - 1 = {}
    BY <1>1
  <2> QED
    BY <1>1, <2>1
<1>3. 0 \in 0..MaxCapacity /\ 0 \in 0..Word /\ 0 \in Nat /\ 0 \in Int
  BY Parameters
<1>4. /\ capacity \in 0..MaxCapacity /\ pageSize \in PageSizes \union {0} /\ iMaxFP \in Nat
      /\ key1 \in Int /\ key2 \in Int /\ key \in Int /\ i1 \in Nat /\ min \in 0..Word /\ max \in 0..Word
  BY <1>1, <1>3, Zenon
<1>5. found \in BOOLEAN
  BY <1>1
<1>6. pc \in {"new", "ready", "flank", "flank_loop", "search", "return", "no_page", "out_of_bounds"}
  BY <1>1
<1>7. /\ ~ (pc # "new") /\ op \in {"none", "lookup", "from", "to"} /\ ret.op \in {"none", "lookup", "range"}
  BY <1>1
<1> QED
  BY <1>2, <1>4, <1>5, <1>6, <1>7, Zenon DEF TypeOK

----------------------------------------------------------------------------
(* What LSM takes a run to answer *)

\* The ends of the last range: where they separate the keys, or that they do not meet
\* the run.
EndsOK ==
  ret.op = "range" =>
    /\ ret.key1 \in Int /\ ret.key2 \in Int /\ ret.key1 < ret.key2
    /\ \/ SplitsAt(ret.i1, ret.key1) /\ SplitsAt(ret.i2, ret.key2)
       \/ ret.i1 = 0 /\ ret.i2 = 0 /\ \A i \in DOMAIN map : map[i] < ret.key1 \/ map[i] > ret.key2

\* An answer of range with ends that separate the keys.
LEMMA EndsAnswer ==
  ASSUME RunOK, UNCHANGED runVars, NEW k1 \in Int, NEW k2 \in Int, k1 < k2, NEW a, NEW b,
         SplitsAt(a, k1), SplitsAt(b, k2), Answer(RangeReturns(k1, k2, a, b))
  PROVE  EndsOK'
<1>1. ret' = RangeReturns(k1, k2, a, b)
  BY DEF Answer
<1>2. ret'.key1 = k1 /\ ret'.key2 = k2 /\ ret'.i1 = a /\ ret'.i2 = b
  BY <1>1 DEF RangeReturns
<1>3. SplitsAt(a, k1)' /\ SplitsAt(b, k2)'
  BY SameRun
<1>4. SplitsAt(ret.i1, ret.key1)' /\ SplitsAt(ret.i2, ret.key2)'
  BY <1>2, <1>3 DEF SplitsAt, Occurs
<1> QED
  BY <1>2, <1>4 DEF EndsOK

\* The second half of range.
LEMMA EndsSeekEnd ==
  ASSUME RunOK, UNCHANGED runVars, NEW k1 \in Int, NEW k2 \in Int, k1 < k2,
         NEW a, SplitsAt(a, k1), SeekEnd(k1, k2, a)
  PROVE  EndsOK'
<1>1. CASE k2 > maxKey /\ Answer(RangeReturns(k1, k2, a, capacity))
  BY <1>1, OutsideSplits, EndsAnswer
<1>2. CASE Seek("to", k2)
  BY <1>2, NoAnswer DEF Seek, EndsOK
<1> QED
  BY <1>1, <1>2 DEF SeekEnd

\* Every step keeps it.
LEMMA EndsNext == ASSUME Inv, EndsOK, [Next]_vars PROVE EndsOK'
<1>1. CASE \E c \in 1..MaxCapacity, p \in PageSizes : Build(c, p)
  <2>1. ret' = ret /\ ret = NoRet
    BY <1>1 DEF Build, Inv
  <2> QED
    BY <2>1, NoAnswer DEF EndsOK
<1>2. ASSUME NEW k \in Keys, Lookup(k) PROVE EndsOK'
  <2>1. ret' = NoRet \/ ret' = LookupReturns(k, FALSE, 0)
    BY <1>2 DEF Lookup, Answer, Seek
  <2>2. ret'.op # "range"
    BY <2>1, NoAnswer DEF LookupReturns
  <2> QED
    BY <2>2 DEF EndsOK
<1>3. ASSUME NEW k1 \in Keys, NEW k2 \in Keys, KeyRange(k1, k2) PROVE EndsOK'
  <2>1. pc = "ready" /\ RunOK /\ UNCHANGED runVars /\ k1 < k2 /\ k1 \in Int /\ k2 \in Int
    BY <1>3, Parameters DEF Inv, KeyRange
  <2>2. CASE (k1 > maxKey \/ k2 < minKey) /\ Answer(RangeReturns(k1, k2, 0, 0))
    <3>1. ret' = RangeReturns(k1, k2, 0, 0)
      BY <2>2 DEF Answer
    <3>2. ret'.key1 = k1 /\ ret'.key2 = k2 /\ ret'.i1 = 0 /\ ret'.i2 = 0
      BY <3>1 DEF RangeReturns
    <3>3. \A i \in DOMAIN map : map[i] < k1 \/ map[i] > k2
      BY <2>1, <2>2, Extremes
    <3>4. map' = map
      BY <2>1 DEF runVars
    <3> QED
      BY <2>1, <3>2, <3>3, <3>4 DEF EndsOK
  <2>3. CASE k1 < minKey /\ SeekEnd(k1, k2, 0)
    BY <2>1, <2>3, OutsideSplits, EndsSeekEnd
  <2>4. CASE Seek("from", k1)
    BY <2>4, NoAnswer DEF Seek, EndsOK
  <2> QED
    BY <1>3, <2>2, <2>3, <2>4 DEF KeyRange
<1>4. CASE Return
  <2>1. RunOK /\ KeyOK /\ ReturnOK /\ UNCHANGED runVars /\ SplitsAt(min, key) /\ min \in DOMAIN map
    BY <1>4 DEF Inv, Return, ReturnOK
  <2>2. CASE op = "lookup"
    <3>1. ret' = LookupReturns(key, found, min)
      BY <1>4, <2>1, <2>2 DEF Return, Answer
    <3>2. ret'.op # "range"
      BY <3>1 DEF LookupReturns
    <3> QED
      BY <3>2 DEF EndsOK
  <2>3. CASE op = "from"
    <3>1. SeekEnd(key1, key2, min) /\ key1 \in Int /\ key2 \in Int /\ key1 < key2 /\ key = key1
      BY <1>4, <2>1, <2>3 DEF Return, KeyOK
    <3> QED
      BY <2>1, <3>1, EndsSeekEnd
  <2>4. CASE op = "to"
    <3>1. /\ Answer(RangeReturns(key1, key2, i1, min)) /\ key1 \in Int /\ key2 \in Int /\ key1 < key2
          /\ key = key2 /\ SplitsAt(i1, key1)
      BY <1>4, <2>1, <2>4 DEF Return, KeyOK
    <3> QED
      BY <2>1, <3>1, EndsAnswer
  <2> QED
    BY <2>1, <2>2, <2>3, <2>4 DEF KeyOK
<1>5. CASE Flank \/ FlankStep \/ SearchStep \/ UNCHANGED vars
  <2>1. UNCHANGED <<map, capacity, ret>>
    BY <1>5 DEF Flank, FlankStep, SearchStep, Page, PageFrom, Undefined, Narrow, searchVars, vars, runVars
  <2> QED
    BY <2>1 DEF EndsOK, SplitsAt, Occurs
<1> QED
  BY <1>1, <1>2, <1>3, <1>4, <1>5 DEF Next, Call, Continue

\* Nothing has been returned at the start.
LEMMA EndsInit == ASSUME Init PROVE EndsOK
  BY NoAnswer DEF Init, EndsOK

----------------------------------------------------------------------------
(* The entries of a key *)

\* The entries that lie at the indexes lo to hi.
Ramp(lo, hi) == [x \in 1..hi - lo + 1 |-> lo + x - 1]

\* The largest element of a non-empty set of indexes.
LEMMA Largest ==
  ASSUME NEW c \in Nat, NEW S \in SUBSET (0..c - 1), S # {}
  PROVE  \E m \in S : \A i \in S : i <= m
<1> DEFINE T == {c - i : i \in S}
<1>1. T \in SUBSET Nat /\ T # {}
  OBVIOUS
<1>2. Min(T) \in T /\ \A t \in T : Min(T) <= t
  BY <1>1, MinOfNats
<1>3. PICK m \in S : Min(T) = c - m
  BY <1>2
<1>4. ASSUME NEW i \in S PROVE i <= m
  <2>1. c - i \in T /\ c - m <= c - i
    BY <1>2, <1>3
  <2> QED
    BY <2>1
<1> QED
  BY <1>4

\* The entries of a key, if the run has any, are next to each other.
LEMMA EntriesNext ==
  ASSUME RunOK, NEW k \in Int, NEW from \in Nat, NEW to \in Nat,
         \E i \in DOMAIN map : map[i] = k /\ from <= i /\ i < to
  PROVE  \E lo, hi \in DOMAIN map :
           /\ lo <= hi /\ from <= lo /\ hi < to
           /\ \A i \in DOMAIN map : (map[i] = k /\ from <= i /\ i < to) <=> (lo <= i /\ i <= hi)
           /\ EntriesOf(k, from, to) = Ramp(lo, hi)
<1> DEFINE is == {i \in DOMAIN map : map[i] = k /\ from <= i /\ i < to}
<1>1. /\ capacity \in Nat /\ DOMAIN map = 0..capacity - 1
      /\ \A j \in DOMAIN map : map[j] \in Int
      /\ \A i, j \in DOMAIN map : i <= j => map[i] <= map[j]
  BY Extremes
<1>2. is \in SUBSET (0..capacity - 1) /\ is # {} /\ is \in SUBSET Nat
  BY <1>1
<1>3. Min(is) \in is /\ \A i \in is : Min(is) <= i
  BY <1>2, MinOfNats
<1>4. PICK hi \in is : \A i \in is : i <= hi
  BY <1>1, <1>2, Largest
<1>5. PICK lo \in is : lo = Min(is)
  BY <1>3
<1>6. lo \in DOMAIN map /\ hi \in DOMAIN map /\ lo \in Nat /\ hi \in Nat /\ lo <= hi /\ from <= lo /\ hi < to
      /\ map[lo] = k /\ map[hi] = k
  BY <1>1, <1>3, <1>4, <1>5
<1>7. ASSUME NEW i \in DOMAIN map PROVE i \in is <=> (lo <= i /\ i <= hi)
  <2>1. ASSUME i \in is PROVE lo <= i /\ i <= hi
    BY <1>3, <1>4, <1>5, <2>1
  <2>2. ASSUME lo <= i, i <= hi PROVE i \in is
    <3>1. map[lo] <= map[i] /\ map[i] <= map[hi] /\ map[i] \in Int
      BY <1>1, <1>6, <2>2
    <3>2. map[i] = k
      BY <1>6, <3>1
    <3>3. from <= i /\ i < to
      BY <1>1, <1>6, <2>2
    <3> QED
      BY <3>2, <3>3
  <2> QED
    BY <2>1, <2>2
<1>8. is = lo..hi
  BY <1>1, <1>2, <1>6, <1>7
<1>9. Cardinality(is) = hi - lo + 1
  <2>1. Cardinality(lo..hi) = hi - lo + 1
    BY <1>6, FS_Interval
  <2> QED
    BY <1>8, <2>1
<1>10. EntriesOf(k, from, to) = [x \in 1..Cardinality(is) |-> Min(is) + x - 1]
  BY <1>2, Zenon DEF EntriesOf
<1>11. EntriesOf(k, from, to) = Ramp(lo, hi)
  BY <1>5, <1>9, <1>10, Zenon DEF Ramp
<1>12. \A i \in DOMAIN map : (map[i] = k /\ from <= i /\ i < to) <=> (lo <= i /\ i <= hi)
  BY <1>7
<1> HIDE DEF is
<1> QED
  BY <1>6, <1>11, <1>12

\* If it has none there are none.
LEMMA NoEntries ==
  ASSUME NEW k, NEW from, NEW to, ~ \E i \in DOMAIN map : map[i] = k /\ from <= i /\ i < to
  PROVE  EntriesOf(k, from, to) = << >>
  BY DEF EntriesOf

\* Such a sequence has an element for each index.
LEMMA RampSeq ==
  ASSUME NEW lo \in Nat, NEW hi \in Nat, lo <= hi
  PROVE  /\ Len(Ramp(lo, hi)) = hi - lo + 1 /\ Len(Ramp(lo, hi)) \in Nat
         /\ Ramp(lo, hi) \in Seq(Nat)
<1>1. hi - lo + 1 \in Nat
  OBVIOUS
<1>2. \A x \in 1..hi - lo + 1 : lo + x - 1 \in Nat
  OBVIOUS
<1> QED
  BY <1>1, <1>2 DEF Ramp

\* The parts of such a sequence.
LEMMA RampPart ==
  ASSUME NEW lo \in Nat, NEW hi \in Nat, lo <= hi, NEW a \in Nat, NEW b \in Nat, lo <= a, b <= hi, a <= b
  PROVE  SubSeq(Ramp(lo, hi), a - lo + 1, b - lo + 1) = Ramp(a, b)
<1>1. Len(Ramp(lo, hi)) = hi - lo + 1 /\ Ramp(lo, hi) \in Seq(Nat)
  BY RampSeq
<1>2. SubSeq(Ramp(lo, hi), a - lo + 1, b - lo + 1) = Ramp(a, b)
  <2> DEFINE E == Ramp(lo, hi)
             p == a - lo + 1
             q == b - lo + 1
  <2>1. p \in Nat /\ q \in Nat /\ q - p + 1 = b - a + 1 /\ p <= q /\ 1 <= p /\ q <= hi - lo + 1
    OBVIOUS
  <2>2. SubSeq(E, p, q) = [i \in 1..(1 + q - p) |-> E[i + p - 1]]
    BY <1>1, <2>1
  <2>3. ASSUME NEW i \in 1..b - a + 1 PROVE E[i + p - 1] = a + i - 1
    <3>1. i + p - 1 \in 1..hi - lo + 1
      BY <2>1
    <3>2. E[i + p - 1] = lo + (i + p - 1) - 1
      BY <3>1 DEF Ramp
    <3> QED
      BY <3>2
  <2>4. 1 + q - p = b - a + 1
    BY <2>1
  <2> HIDE DEF E, p, q
  <2>5. SubSeq(E, p, q) = [i \in 1..b - a + 1 |-> a + i - 1]
    BY <2>2, <2>3, <2>4
  <2> QED
    BY <2>5 DEF Ramp, E, p, q
<1> QED
  BY <1>1, <1>2

\* The length of a sequence, or 1 if it is empty.
LEMMA MaxWithOne == ASSUME NEW n \in Nat PROVE Max({1, n}) \in Nat /\ Max({1, n}) >= 1 /\ Max({1, n}) >= n
<1>1. \E x \in {1, n} : \A y \in {1, n} : x >= y
  OBVIOUS
<1>2. Max({1, n}) \in {1, n} /\ \A y \in {1, n} : Max({1, n}) >= y
  BY <1>1 DEF Max
<1> QED
  BY <1>2

\* The parts of a run's entries of a key that LSM takes a range to return.
LEMMA SliceCases ==
  ASSUME NEW E, NEW k \in Int, NEW lo \in Int, NEW hi \in Int, lo < hi
  PROVE  /\ k < lo \/ k > hi => Slices(E, k, lo, hi) = {<< >>}
         /\ k = lo => Slices(E, k, lo, hi) = {SubSeq(E, i, Len(E)) : i \in 1..Max({1, Len(E)})}
         /\ k = hi => Slices(E, k, lo, hi) = {SubSeq(E, 1, i - 1) : i \in 1..Max({1, Len(E)})}
         /\ lo < k /\ k < hi => Slices(E, k, lo, hi) = {E}
<1>1. CASE k < lo \/ k > hi
  <2>1. ~ (k = lo) /\ ~ (k = hi) /\ ~ (lo < k /\ k < hi)
    BY <1>1
  <2> QED
    BY <1>1, <2>1, Zenon DEF Slices
<1>2. CASE k = lo
  <2>1. ~ (k < lo) /\ ~ (k > hi) /\ ~ (k = hi) /\ ~ (lo < k)
    BY <1>2
  <2> QED
    BY <1>2, <2>1, Zenon DEF Slices
<1>3. CASE k = hi
  <2>1. ~ (k < lo) /\ ~ (k > hi) /\ ~ (k = lo) /\ ~ (k < hi)
    BY <1>3
  <2> QED
    BY <1>3, <2>1, Zenon DEF Slices
<1>4. CASE lo < k /\ k < hi
  <2>1. ~ (k < lo) /\ ~ (k > hi) /\ ~ (k = lo) /\ ~ (k = hi)
    BY <1>4
  <2> QED
    BY <1>4, <2>1, Zenon DEF Slices
<1> QED
  BY <1>1, <1>2, <1>3, <1>4

\* A key without entries in a part of the run, being outside of the range or without
\* entries in all of the run.
LEMMA NonePart ==
  ASSUME NEW k1 \in Int, NEW k2 \in Int, k1 < k2, NEW k \in Int, NEW a, NEW b,
         ~ \E i \in DOMAIN map : map[i] = k /\ a <= i /\ i < b,
         k < k1 \/ k > k2 \/ ~ \E i \in DOMAIN map : map[i] = k
  PROVE  EntriesOf(k, a, b) \in Slices(EntriesOf(k, 0, capacity), k, k1, k2)
<1> DEFINE E == EntriesOf(k, 0, capacity)
           Parts == Slices(E, k, k1, k2)
<1>1. EntriesOf(k, a, b) = << >>
  BY NoEntries
<1>2. (~ \E i \in DOMAIN map : map[i] = k) => E = << >>
  BY NoEntries
<1> HIDE DEF E
<1>3. /\ k < k1 \/ k > k2 => Parts = {<< >>}
      /\ k = k1 => Parts = {SubSeq(E, i, Len(E)) : i \in 1..Max({1, Len(E)})}
      /\ k = k2 => Parts = {SubSeq(E, 1, i - 1) : i \in 1..Max({1, Len(E)})}
      /\ k1 < k /\ k < k2 => Parts = {E}
  BY SliceCases
<1> HIDE DEF Parts
<1> SUFFICES << >> \in Parts
  BY <1>1 DEF E, Parts
<1>4. CASE k < k1 \/ k > k2
  BY <1>3, <1>4
<1>5. CASE ~ \E i \in DOMAIN map : map[i] = k
  <2>1. E = << >>
    BY <1>2, <1>5
  <2>2. Len(E) = 0 /\ 1 \in 1..Max({1, Len(E)})
    <3>1. Len(E) = 0
      BY <2>1
    <3>2. Max({1, Len(E)}) \in Nat /\ Max({1, Len(E)}) >= 1
      BY <3>1, MaxWithOne
    <3> QED
      BY <3>1, <3>2
  <2>3. SubSeq(E, 1, Len(E)) = << >> /\ SubSeq(E, 1, 1 - 1) = << >>
    BY <2>1, <2>2
  <2>4. /\ << >> \in {SubSeq(E, i, Len(E)) : i \in 1..Max({1, Len(E)})}
        /\ << >> \in {SubSeq(E, 1, i - 1) : i \in 1..Max({1, Len(E)})}
    BY <2>2, <2>3
  <2>5. k < k1 \/ k > k2 \/ k = k1 \/ k = k2 \/ (k1 < k /\ k < k2)
    OBVIOUS
  <2> QED
    BY <1>3, <2>1, <2>4, <2>5, Zenon
<1> QED
  BY <1>4, <1>5

\* The entries of a key between two indexes that separate the keys at two ends are a
\* part that LSM takes a range to return.
LEMMA RangePart ==
  ASSUME RunOK, NEW k1 \in Int, NEW k2 \in Int, k1 < k2, NEW a, NEW b,
         SplitsAt(a, k1), SplitsAt(b, k2), NEW k \in Int
  PROVE  EntriesOf(k, a, b) \in Slices(EntriesOf(k, 0, capacity), k, k1, k2)
<1> DEFINE E == EntriesOf(k, 0, capacity)
<1>1. /\ capacity \in Nat /\ DOMAIN map = 0..capacity - 1
      /\ \A j \in DOMAIN map : map[j] \in Int
  BY Extremes
<1>2. /\ a \in Nat /\ \A j \in DOMAIN map : (j < a => map[j] <= k1) /\ (j >= a => map[j] >= k1)
      /\ Occurs(k1) => a \in DOMAIN map /\ map[a] = k1
  BY <1>1 DEF SplitsAt
<1>3. /\ b \in Nat /\ \A j \in DOMAIN map : (j < b => map[j] <= k2) /\ (j >= b => map[j] >= k2)
      /\ Occurs(k2) => b \in DOMAIN map /\ map[b] = k2
  BY <1>1 DEF SplitsAt
<1> DEFINE Parts == Slices(E, k, k1, k2)
<1> HIDE DEF E
<1>4. /\ k < k1 \/ k > k2 => Parts = {<< >>}
      /\ k = k1 => Parts = {SubSeq(E, i, Len(E)) : i \in 1..Max({1, Len(E)})}
      /\ k = k2 => Parts = {SubSeq(E, 1, i - 1) : i \in 1..Max({1, Len(E)})}
      /\ k1 < k /\ k < k2 => Parts = {E}
  BY SliceCases
<1> HIDE DEF Parts
<1> SUFFICES EntriesOf(k, a, b) \in Parts
  BY DEF E, Parts
<1>5. k < k1 \/ k > k2 \/ k = k1 \/ k = k2 \/ (k1 < k /\ k < k2)
  OBVIOUS
<1>6. CASE ~ \E i \in DOMAIN map : map[i] = k
  BY <1>6, NonePart DEF E, Parts
<1>7. CASE \E i \in DOMAIN map : map[i] = k
  <2>1. \E i \in DOMAIN map : map[i] = k /\ 0 <= i /\ i < capacity
    BY <1>1, <1>7
  <2>2. PICK lo, hi \in DOMAIN map :
          /\ lo <= hi
          /\ \A i \in DOMAIN map : (map[i] = k /\ 0 <= i /\ i < capacity) <=> (lo <= i /\ i <= hi)
          /\ E = Ramp(lo, hi)
    <3>1. 0 \in Nat
      OBVIOUS
    <3>2. PICK z \in Nat, c \in Nat : z = 0 /\ c = capacity
      BY <1>1, <3>1
    <3>3. \E i \in DOMAIN map : map[i] = k /\ z <= i /\ i < c
      BY <2>1, <3>2
    <3>4. PICK lo, hi \in DOMAIN map :
            /\ lo <= hi
            /\ \A i \in DOMAIN map : (map[i] = k /\ z <= i /\ i < c) <=> (lo <= i /\ i <= hi)
            /\ EntriesOf(k, z, c) = Ramp(lo, hi)
      BY <3>3, EntriesNext
    <3>5. E = Ramp(lo, hi)
      BY <3>2, <3>4 DEF E
    <3> QED
      BY <3>2, <3>4, <3>5
  <2>3. lo \in Nat /\ hi \in Nat /\ lo <= hi /\ \A i \in DOMAIN map : map[i] = k <=> (lo <= i /\ i <= hi)
    BY <1>1, <2>2
  <2>4. Len(E) = hi - lo + 1 /\ Len(E) \in Nat
    BY <2>2, <2>3, RampSeq
  <2>5. Max({1, Len(E)}) \in Nat /\ Max({1, Len(E)}) >= hi - lo + 1
    BY <2>4, MaxWithOne
  <2>6. ASSUME k < k1 \/ k > k2 PROVE EntriesOf(k, a, b) \in Parts
    <3>1. \A i \in DOMAIN map : map[i] = k /\ a <= i /\ i < b => FALSE
      BY <1>1, <1>2, <1>3, <2>6
    <3>2. EntriesOf(k, a, b) = << >>
      BY <3>1, NoEntries
    <3> QED
      BY <1>4, <2>6, <3>2
  <2>7. ASSUME k = k1 PROVE EntriesOf(k, a, b) \in Parts
    <3>1. a \in DOMAIN map /\ map[a] = k /\ lo <= a /\ a <= hi
      BY <1>2, <1>7, <2>3, <2>7 DEF Occurs
    <3>2. \A i \in DOMAIN map : lo <= i /\ i <= hi => i < b
      BY <1>1, <1>3, <2>3, <2>7
    <3>3. \A i \in DOMAIN map : (map[i] = k /\ a <= i /\ i < b) <=> (a <= i /\ i <= hi)
      BY <1>1, <1>2, <2>3, <3>1, <3>2
    <3>4. \E i \in DOMAIN map : map[i] = k /\ a <= i /\ i < b
      BY <3>1, <3>3, <1>2
    <3>5. PICK l, h \in DOMAIN map :
            /\ l <= h
            /\ \A i \in DOMAIN map : (map[i] = k /\ a <= i /\ i < b) <=> (l <= i /\ i <= h)
            /\ EntriesOf(k, a, b) = Ramp(l, h)
      BY <1>2, <1>3, <3>4, EntriesNext
    <3>6. l = a /\ h = hi
      BY <1>1, <2>3, <3>1, <3>3, <3>5
    <3>7. SubSeq(E, a - lo + 1, hi - lo + 1) = Ramp(a, hi)
      <4>1. hi <= hi
        BY <2>3
      <4> QED
        BY <1>2, <2>2, <2>3, <3>1, <4>1, RampPart
    <3>8. a - lo + 1 \in 1..Max({1, Len(E)})
      BY <1>2, <2>3, <2>5, <3>1
    <3>9. EntriesOf(k, a, b) \in {SubSeq(E, i, Len(E)) : i \in 1..Max({1, Len(E)})}
      BY <2>4, <3>5, <3>6, <3>7, <3>8
    <3> QED
      BY <1>4, <2>7, <3>9
  <2>8. ASSUME k = k2 PROVE EntriesOf(k, a, b) \in Parts
    <3>1. b \in DOMAIN map /\ map[b] = k /\ lo <= b /\ b <= hi
      BY <1>3, <1>7, <2>3, <2>8 DEF Occurs
    <3>2. \A i \in DOMAIN map : lo <= i /\ i <= hi => a <= i
      BY <1>1, <1>2, <2>3, <2>8
    <3>3. \A i \in DOMAIN map : (map[i] = k /\ a <= i /\ i < b) <=> (lo <= i /\ i <= b - 1)
      BY <1>1, <1>3, <2>3, <3>1, <3>2
    <3>4. b - lo + 1 \in 1..Max({1, Len(E)})
      BY <1>3, <2>3, <2>5, <3>1
    <3>5. EntriesOf(k, a, b) = SubSeq(E, 1, b - lo)
      <4>1. CASE b = lo
        <5>1. \A i \in DOMAIN map : ~ (map[i] = k /\ a <= i /\ i < b)
          BY <1>1, <3>3, <4>1
        <5>2. EntriesOf(k, a, b) = << >>
          BY <5>1, NoEntries
        <5>3. SubSeq(E, 1, 0) = << >>
          BY <2>2, <2>3, RampSeq
        <5> QED
          BY <4>1, <5>2, <5>3, <2>3
      <4>2. CASE b # lo
        <5>1. b - 1 \in Nat /\ lo <= b - 1 /\ b - 1 <= hi
          BY <1>3, <2>3, <3>1, <4>2
        <5>2. \E i \in DOMAIN map : map[i] = k /\ a <= i /\ i < b
          BY <2>2, <2>3, <3>3, <5>1
        <5>3. PICK l, h \in DOMAIN map :
                /\ l <= h
                /\ \A i \in DOMAIN map : (map[i] = k /\ a <= i /\ i < b) <=> (l <= i /\ i <= h)
                /\ EntriesOf(k, a, b) = Ramp(l, h)
          BY <1>2, <1>3, <5>2, EntriesNext
        <5>4. b - 1 \in DOMAIN map
          BY <1>1, <3>1, <5>1
        <5>5. l = lo /\ h = b - 1
          BY <1>1, <2>3, <3>3, <5>1, <5>3, <5>4
        <5>6. SubSeq(E, lo - lo + 1, b - 1 - lo + 1) = Ramp(lo, b - 1)
          <6>1. lo <= lo
            BY <2>3
          <6> QED
            BY <2>2, <2>3, <5>1, <6>1, RampPart
        <5>7. lo - lo + 1 = 1 /\ b - 1 - lo + 1 = b - lo
          BY <1>3, <2>3
        <5> QED
          BY <5>3, <5>5, <5>6, <5>7
      <4> QED
        BY <4>1, <4>2
    <3>7. EntriesOf(k, a, b) \in {SubSeq(E, 1, i - 1) : i \in 1..Max({1, Len(E)})}
      <4>1. PICK i \in 1..Max({1, Len(E)}) : i = b - lo + 1
        BY <3>4
      <4>2. i - 1 = b - lo
        BY <1>3, <2>3, <4>1
      <4>3. EntriesOf(k, a, b) = SubSeq(E, 1, i - 1)
        BY <3>5, <4>2, Zenon
      <4> QED
        BY <4>3, Zenon
    <3> QED
      BY <1>4, <2>8, <3>7
  <2>9. ASSUME k1 < k, k < k2 PROVE EntriesOf(k, a, b) \in Parts
    <3>1. \A i \in DOMAIN map : map[i] = k => a <= i /\ i < b
      BY <1>1, <1>2, <1>3, <2>9
    <3>2. \E i \in DOMAIN map : map[i] = k /\ a <= i /\ i < b
      BY <1>7, <3>1
    <3>3. PICK l, h \in DOMAIN map :
            /\ l <= h
            /\ \A i \in DOMAIN map : (map[i] = k /\ a <= i /\ i < b) <=> (l <= i /\ i <= h)
            /\ EntriesOf(k, a, b) = Ramp(l, h)
      BY <1>2, <1>3, <3>2, EntriesNext
    <3>4. l = lo /\ h = hi
      BY <1>1, <2>2, <2>3, <3>1, <3>3
    <3>5. EntriesOf(k, a, b) = E
      BY <2>2, <3>3, <3>4
    <3> QED
      BY <1>4, <2>9, <3>5
  <2> QED
    BY <1>5, <2>6, <2>7, <2>8, <2>9
<1> QED
  BY <1>6, <1>7

\* The entry a lookup found is one of the entries of its key.
LEMMA FoundEntry ==
  ASSUME RunOK, NEW k \in Int, NEW at \in DOMAIN map, map[at] = k
  PROVE  at \in Found(EntriesOf(k, 0, capacity))
<1>1. PICK z \in Nat, c \in Nat : z = 0 /\ c = capacity
  BY Extremes
<1>2. at \in Nat /\ z <= at /\ at < c
  BY <1>1, Extremes
<1>3. PICK lo, hi \in DOMAIN map :
        /\ lo <= hi
        /\ \A i \in DOMAIN map : (map[i] = k /\ z <= i /\ i < c) <=> (lo <= i /\ i <= hi)
        /\ EntriesOf(k, z, c) = Ramp(lo, hi)
  BY <1>2, EntriesNext
<1>4. lo <= at /\ at <= hi /\ lo \in Nat /\ hi \in Nat
  BY <1>2, <1>3, Extremes
<1>5. PICK x \in 1..hi - lo + 1 : x = at - lo + 1
  BY <1>2, <1>4
<1>6. x \in DOMAIN Ramp(lo, hi) /\ Ramp(lo, hi)[x] = at
  BY <1>2, <1>4, <1>5 DEF Ramp
<1> QED
  BY <1>1, <1>3, <1>6 DEF Found, ToSet

\* What range delimits, by where its ends lie.
LEMMA RangeAnswer == ASSUME RunOK, EndsOK, ret.op = "range", NEW k \in Keys
                     PROVE  EntriesOf(k, ret.i1, ret.i2) \in Slices(EntriesOf(k, 0, capacity), k, ret.key1, ret.key2)
<1>1. ret.key1 \in Int /\ ret.key2 \in Int /\ ret.key1 < ret.key2 /\ k \in Int
  BY Parameters DEF EndsOK
<1>2. CASE SplitsAt(ret.i1, ret.key1) /\ SplitsAt(ret.i2, ret.key2)
  BY <1>1, <1>2, RangePart
<1>3. CASE ret.i1 = 0 /\ ret.i2 = 0 /\ \A i \in DOMAIN map : map[i] < ret.key1 \/ map[i] > ret.key2
  <2>1. PICK k1 \in Int, k2 \in Int, a \in Nat, b \in Nat :
          k1 = ret.key1 /\ k2 = ret.key2 /\ k1 < k2 /\ a = ret.i1 /\ b = ret.i2
    BY <1>1, <1>3
  <2>2. ~ \E i \in DOMAIN map : map[i] = k /\ a <= i /\ i < b
    BY <1>3, <2>1, Extremes
  <2>3. k < k1 \/ k > k2 \/ ~ \E i \in DOMAIN map : map[i] = k
    BY <1>3, <2>1
  <2>4. EntriesOf(k, a, b) \in Slices(EntriesOf(k, 0, capacity), k, k1, k2)
    BY <1>1, <2>1, <2>2, <2>3, NonePart
  <2> QED
    BY <2>1, <2>4
<1> QED
  BY <1>2, <1>3 DEF EndsOK

----------------------------------------------------------------------------
(* Theorems *)

\* The invariant with the types and what the last range returned.
LEMMA WithTypes == Spec => [](Inv /\ TypeOK /\ EndsOK)
<1>1. Init => Inv /\ TypeOK /\ EndsOK
  BY InvInit, TypeInit, EndsInit
<1>2. Inv /\ TypeOK /\ EndsOK /\ [Next]_vars => (Inv /\ TypeOK /\ EndsOK)'
  BY InvNext, TypeNext, EndsNext
<1> QED
  BY <1>1, <1>2, PTL DEF Spec

\* The variables of a run and of its searches keep their types, with min and max among the
\* unsigned numbers.  One that has wrapped around is such a number too; that none is
\* used is what SearchesDefined says.
THEOREM RunTypeCorrect == Spec => []TypeOK
  BY WithTypes, PTL

\* What a search of a run returns is what LSM takes a run to answer, for runs of every
\* length, page size and content: LSM reads its runs by their entries alone.
THEOREM RunAnswersAsLSM == Spec => []AnswersAsLSM
<1>1. ASSUME Inv, EndsOK PROVE AnswersAsLSM
  <2>1. ASSUME ret.op = "lookup" \/ ret.op = "range" PROVE RunOK
    BY <1>1, <2>1, NoAnswer DEF Inv
  <2>2. ASSUME ret.op = "lookup", ret.found PROVE ret.at \in Found(EntriesOf(ret.key, 0, capacity))
    <3>1. RunOK /\ ret.at \in DOMAIN map /\ map[ret.at] = ret.key
      BY <1>1, <2>1, <2>2 DEF Inv, LookupIsExact
    <3>2. ret.key \in Int
      BY <3>1, Extremes
    <3> QED
      BY <3>1, <3>2, FoundEntry
  <2>3. ASSUME ret.op = "range", NEW k \in Keys
        PROVE  EntriesOf(k, ret.i1, ret.i2) \in Slices(EntriesOf(k, 0, capacity), k, ret.key1, ret.key2)
    BY <1>1, <2>1, <2>3, RangeAnswer
  <2> QED
    BY <2>2, <2>3 DEF AnswersAsLSM
<1> QED
  BY <1>1, WithTypes, PTL
=============================================================================
