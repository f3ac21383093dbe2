---------------------------- MODULE AddRunsProofs ----------------------------
(***************************************************************************)
(* Theorems about AddRuns, for every number of runs of every length: the   *)
(* heap always gives the least entry that is left, the new run has room    *)
(* for what comes out of it, and the result is the one LSM calculates.     *)
(***************************************************************************)
EXTENDS AddRuns, FlattenLemmas, FiniteSetTheorems, TLAPS

----------------------------------------------------------------------------
(* The inductive invariant *)

\* The next entry of run k.
NextOf(k) == Pair(runList[k][heads[k]], k)

\* The runs whose next entry is in the heap or on its way.
Due == {k \in Runs : k < filled /\ heads[k] < Capacity(k)}

\* The slots I of array a have the next entries of the runs D, each once.
Holds(a, I, D) ==
  /\ \A x \in I : a[x].run \in D /\ a[x] = NextOf(a[x].run)
  /\ \A x, y \in I : a[x].run = a[y].run => x = y
  /\ \A k \in D : \E x \in I : a[x].run = k

\* The slots of the heap.
InHeap == 0..size - 1

PhaseInv ==
  /\ pc \in {"fill", "push", "merge", "heapify", "place"}
  /\ size = Cardinality(Due) - (IF pc \in {"heapify", "place"} THEN 1 ELSE 0)
  /\ pc \notin {"fill", "push"} => filled = NumMerged
  /\ pc = "fill" => filled < NumMerged
  /\ \A k \in Runs : heads[k] <= Capacity(k) /\ (filled <= k => heads[k] = 0)
  /\ pc = "push" => at \in InHeap
  /\ pc = "heapify" => at = 0 \/ at \in InHeap

\* Which entries the heap has.
HeldInv ==
  /\ pc \in {"fill", "merge"} => Holds(arr, InHeap, Due)
  /\ pc = "push" => blob.run \in Due /\ blob = NextOf(blob.run) /\ Holds(arr, InHeap \ {at}, Due \ {blob.run})
  /\ pc \in {"heapify", "place"} =>
       top.run \in Due /\ top = NextOf(top.run) /\ Holds(arr, InHeap, Due \ {top.run})

\* The order of the heap; in push slot at is a hole, in heapify it may be too large.
OrderInv ==
  /\ pc \in {"fill", "merge", "place"} => \A x \in InHeap \ {0} : Before(arr[Parent(x)], arr[x])
  /\ pc = "push" => \A x \in InHeap \ {0} :
       /\ x # at /\ Parent(x) # at => Before(arr[Parent(x)], arr[x])
       /\ Parent(x) = at => Before(blob, arr[x]) /\ (at # 0 => Before(arr[Parent(at)], arr[x]))
  /\ pc = "heapify" => \A x \in InHeap \ {0} :
       /\ Parent(x) # at => Before(arr[Parent(x)], arr[x])
       /\ Parent(x) = at /\ at # 0 => Before(arr[Parent(at)], arr[x])

\* The entry that was popped comes before all others.
TopInv == pc \in {"heapify", "place"} => \A k \in Due \ {top.run} : Before(top, NextOf(k))

\* The entries that have been placed.
Used == {u \in Runs \X (0..RunSize - 1) : u[2] < heads[u[1]]}

Key(u) == runList[u[1]][u[2]].key

\* Entries come out of the heap in order.
LastInv ==
  /\ filled < NumMerged => lastKey = IntMax
  /\ j = -1 <=> lastKey = IntMax
  /\ lastKey = IntMax => Used = {}
  /\ lastKey # IntMax =>
       /\ lastk \in Runs /\ lastKey = slots[j].key
       /\ \A u \in Used : Key(u) <= lastKey /\ (Key(u) = lastKey => u[1] <= lastk)
       /\ \E u \in Used : Key(u) = lastKey /\ u[1] = lastk
       /\ \A k \in Due : lastKey < NextOf(k).entry.key \/ (lastKey = NextOf(k).entry.key /\ lastk <= k)

\* Entry u is the first of its key in its run, and the newest of those placed.
Wins(u) ==
  /\ u[2] = 0 \/ runList[u[1]][u[2] - 1].key < Key(u)
  /\ \A w \in Used : Key(w) = Key(u) => w[1] <= u[1]

\* The new run has the winner for each key, in the order of the keys.
ResultInv ==
  /\ \A x \in Slots : x > j => slots[x] = Blank
  /\ \A x \in 0..j : \A y \in 0..j : x < y => slots[x].key < slots[y].key
  /\ \A x \in 0..j : \E u \in Used : slots[x] = runList[u[1]][u[2]] /\ Wins(u)
  /\ \A u \in Used : \E x \in 0..j : slots[x].key = Key(u)
  /\ j + 1 <= Cardinality(Used)

BusyInv == PhaseInv /\ HeldInv /\ OrderInv /\ TopInv /\ LastInv /\ ResultInv

Inv ==
  /\ TypeOK
  /\ pc \in {"done", "index_underflow"} \/ BusyInv
  /\ MergesAsLSM


----------------------------------------------------------------------------
(* The order of the pairs *)

\* What a pair is made of.
LEMMA PairParts == ASSUME NEW p \in Pairs PROVE p.entry.key \in Int /\ p.run \in Int
<1>1. CASE p = MaxPair
  BY <1>1, MergeAssumption DEF MaxPair
<1>2. ASSUME NEW e \in Entries, NEW i \in Runs, p = Pair(e, i) PROVE p.entry.key \in Int /\ p.run \in Int
  <2>1. p.entry = e /\ p.run = i
    BY <1>2 DEF Pair
  <2>2. e.key \in Int
    BY MergeAssumption DEF Entries
  <2>3. i \in Int
    BY DEF Runs
  <2> QED
    BY <2>1, <2>2, <2>3
<1> QED
  BY <1>1, <1>2 DEF Pairs

\* The order is transitive.
LEMMA BeforeTrans ==
  ASSUME NEW p \in Pairs, NEW q \in Pairs, NEW r \in Pairs, Before(p, q), Before(q, r)
  PROVE  Before(p, r)
  BY PairParts DEF Before

\* It never holds both ways.
LEMMA BeforeOneWay == ASSUME NEW p \in Pairs, NEW q \in Pairs, Before(p, q) PROVE ~Before(q, p)
  BY PairParts DEF Before

\* Of two pairs with entries of different runs one comes first.
LEMMA BeforeTotal ==
  ASSUME NEW p \in Pairs, NEW q \in Pairs, p.run # q.run
  PROVE  Before(p, q) \/ Before(q, p)
  BY PairParts DEF Before

----------------------------------------------------------------------------
(* The runs to merge *)

RunsTyped == runList \in [Runs -> AnyRun]

\* A run is a sorted array of at least one and at most RunSize entries.
LEMMA RunFacts ==
  ASSUME RunsTyped, NEW k \in Runs
  PROVE  /\ Capacity(k) \in 1..RunSize /\ Capacity(k) \in Nat
         /\ \A x \in 0..Capacity(k) - 1 : runList[k][x] \in Entries
         /\ \A x, y \in 0..Capacity(k) - 1 : x <= y => runList[k][x].key <= runList[k][y].key
<1>1. PICK n \in 1..RunSize : runList[k] \in RunsOf(n)
  BY DEF RunsTyped, AnyRun
<1>2. n \in Nat /\ RunSize \in Nat
  BY <1>1, MergeAssumption
<1>3. runList[k] \in [0..n - 1 -> Entries] /\ \A x, y \in 0..n - 1 : x <= y => runList[k][x].key <= runList[k][y].key
  BY <1>1 DEF RunsOf
<1>4. Cardinality(0..n - 1) = n
  BY <1>2, FS_Interval
<1>5. Capacity(k) = n
  BY <1>3, <1>4 DEF Capacity
<1> QED
  BY <1>2, <1>3, <1>5

\* The next entry of a run that is not used up is an entry.
LEMMA NextFacts ==
  ASSUME RunsTyped, heads \in [Runs -> 0..RunSize], NEW k \in Due
  PROVE  /\ k \in Runs /\ k \in Int /\ heads[k] \in 0..Capacity(k) - 1
         /\ runList[k][heads[k]] \in Entries
         /\ NextOf(k) \in Pairs /\ NextOf(k).run = k
         /\ NextOf(k).entry = runList[k][heads[k]] /\ NextOf(k).entry.key \in Keys
<1>1. k \in Runs /\ heads[k] < Capacity(k) /\ heads[k] \in 0..RunSize
  BY DEF Due
<1>2. Capacity(k) \in Nat /\ \A x \in 0..Capacity(k) - 1 : runList[k][x] \in Entries
  BY <1>1, RunFacts
<1>3. heads[k] \in 0..Capacity(k) - 1 /\ runList[k][heads[k]] \in Entries
  BY <1>1, <1>2
<1> QED
  BY <1>1, <1>3 DEF NextOf, Pair, Pairs, Entries, Runs

\* There are NumMerged runs.
LEMMA RunsFinite == IsFiniteSet(Runs) /\ Cardinality(Runs) = NumMerged /\ NumMerged \in Nat \ {0}
  BY FS_Interval, MergeAssumption DEF Runs

LEMMA DueFinite == IsFiniteSet(Due) /\ Cardinality(Due) \in Nat /\ Cardinality(Due) <= NumMerged
<1>1. Due \in SUBSET Runs
  BY DEF Due
<1> QED
  BY <1>1, RunsFinite, FS_Subset, FS_CardinalityType

----------------------------------------------------------------------------
(* Heaps *)

\* The parent of a slot comes before it.
LEMMA ParentFacts == ASSUME NEW x \in Nat, x # 0 PROVE Parent(x) \in Nat /\ Parent(x) < x
  BY DEF Parent

\* The children of a slot are those its left and right child are.
LEMMA ChildFacts ==
  ASSUME NEW x \in Nat, x # 0, NEW i \in Nat
  PROVE  Parent(x) = i <=> x = LeftChild(i) \/ x = RightChild(i)
  BY DEF Parent, LeftChild, RightChild

\* The root of a heap comes before all others.
LEMMA RootFirst ==
  ASSUME NEW n \in Nat, NEW a, \A x \in 0..n - 1 : a[x] \in Pairs,
         \A x \in (0..n - 1) \ {0} : Before(a[Parent(x)], a[x])
  PROVE  \A x \in (0..n - 1) \ {0} : Before(a[0], a[x])
<1> DEFINE Bad == {x \in (0..n - 1) \ {0} : ~Before(a[0], a[x])}
<1> SUFFICES ASSUME Bad # {} PROVE FALSE
  OBVIOUS
<1>1. Bad \in SUBSET Nat
  OBVIOUS
<1> DEFINE m == Min(Bad)
<1>2. m \in Bad /\ \A x \in Bad : m <= x
  BY <1>1, MinOfNats
<1>3. m \in (0..n - 1) \ {0} /\ m \in Nat /\ m # 0 /\ ~Before(a[0], a[m])
  BY <1>2
<1> HIDE DEF m
<1>4. Parent(m) \in 0..n - 1 /\ Parent(m) < m
  BY <1>3, ParentFacts
<1>5. Parent(m) \notin Bad
  BY <1>2, <1>3, <1>4
<1>6. Before(a[Parent(m)], a[m]) /\ a[m] \in Pairs /\ a[0] \in Pairs /\ a[Parent(m)] \in Pairs
  BY <1>3, <1>4
<1>7. CASE Parent(m) = 0
  BY <1>3, <1>6, <1>7
<1>8. CASE Parent(m) # 0
  <2>1. Before(a[0], a[Parent(m)])
    BY <1>4, <1>5, <1>8
  <2> QED
    BY <1>3, <1>6, <2>1, BeforeTrans
<1> QED
  BY <1>7, <1>8


----------------------------------------------------------------------------
(* The steps of the heap *)

\* The types the steps of the heap calculate with.
LEMMA HeapTypes ==
  ASSUME Inv
  PROVE  /\ RunsTyped /\ heads \in [Runs -> 0..RunSize] /\ arr \in [Runs -> Pairs]
         /\ size \in Nat /\ size <= NumMerged /\ at \in Nat /\ at \in Runs /\ filled \in Nat /\ filled <= NumMerged
         /\ InHeap \subseteq Runs /\ Runs = 0..NumMerged - 1 /\ NumMerged \in Nat /\ NumMerged > 0
         /\ blob \in Pairs /\ top \in Pairs
  BY MergeAssumption DEF Inv, TypeOK, RunsTyped, InHeap, Runs

\* A step that places nothing keeps what is said about the result.
LEMMA ResultFrame ==
  ASSUME LastInv, ResultInv, UNCHANGED <<outVars, heads, runList, filled>>
  PROVE  LastInv' /\ ResultInv' /\ Due' = Due
<1>1. UNCHANGED <<slots, j, lastKey, lastk>> /\ Used' = Used /\ Due' = Due
  BY DEF outVars, Used, Due, Capacity
<1>2. \A u : Key(u)' = Key(u) /\ NextOf(u)' = NextOf(u) /\ Wins(u)' = Wins(u)
  BY <1>1 DEF Key, NextOf, Wins
<1>3. LastInv'
  BY <1>1, <1>2 DEF LastInv
<1>4. ResultInv'
  BY <1>1, <1>2 DEF ResultInv
<1> QED
  BY <1>1, <1>3, <1>4

\* The first entry of the next run is pushed.
LEMMA FillInv == ASSUME Inv, BusyInv, Fill PROVE Inv'
<1> USE HeapTypes, RunsFinite
<1>1. /\ pc = "fill" /\ pc' = "push" /\ blob' = Pair(runList[filled][0], filled) /\ at' = size
      /\ size' = size + 1 /\ arr' = arr /\ filled' = filled + 1
      /\ UNCHANGED <<runList, lastLevel, heads, slots, j, lastKey, lastk, top>>
  BY DEF Fill, StartPush, inVars, outVars
<1>2. filled < NumMerged /\ filled \in Runs /\ heads[filled] = 0 /\ \A k \in Runs : filled <= k => heads[k] = 0
  BY <1>1 DEF BusyInv, PhaseInv
<1>3. Capacity(filled) > 0
  BY <1>2, RunFacts
<1>4. Due' = Due \union {filled} /\ filled \notin Due
  BY <1>1, <1>2, <1>3 DEF Due, Capacity
<1>5. Cardinality(Due') = Cardinality(Due) + 1 /\ size' = Cardinality(Due') /\ size' <= NumMerged
  <2>1. Cardinality(Due') = Cardinality(Due) + 1
    BY <1>4, DueFinite, FS_AddElement
  <2>2. Due' \in SUBSET Runs
    BY DEF Due
  <2>3. Cardinality(Due') <= NumMerged
    BY <2>2, FS_Subset
  <2> QED
    BY <1>1, <2>1, <2>3, DueFinite DEF BusyInv, PhaseInv
<1>6. blob' = NextOf(filled) /\ (\A k : NextOf(k)' = NextOf(k)) /\ blob'.run = filled /\ blob' \in Pairs
  <2>1. NextOf(filled) \in Pairs
    <3>1. runList[filled][0] \in Entries
      BY <1>2, <1>3, RunFacts
    <3> QED
      BY <1>2, <3>1 DEF NextOf, Pairs
  <2>2. \A k : NextOf(k)' = NextOf(k)
    BY <1>1 DEF NextOf
  <2>3. blob' = NextOf(filled)
    BY <1>1, <1>2 DEF NextOf
  <2>4. NextOf(filled).run = filled
    BY DEF NextOf, Pair
  <2> QED
    BY <2>1, <2>2, <2>3, <2>4
<1>7. InHeap' \ {at'} = InHeap /\ at' \in InHeap'
  BY <1>1 DEF InHeap
<1>8. PhaseInv'
  BY <1>1, <1>2, <1>5, <1>7 DEF BusyInv, PhaseInv, Capacity
<1>9. HeldInv'
  <2>1. Holds(arr, InHeap, Due)
    BY <1>1 DEF BusyInv, HeldInv
  <2>2. blob' = NextOf(blob.run)'
    BY <1>1, <1>2, <1>6 DEF NextOf
  <2>3. Due' \ {blob'.run} = Due
    BY <1>4, <1>6
  <2>4. Holds(arr, InHeap \ {at}, Due \ {blob.run})'
    BY <1>1, <1>6, <1>7, <2>1, <2>3 DEF Holds
  <2> QED
    BY <1>1, <1>4, <1>6, <2>2, <2>4 DEF HeldInv
<1>10. OrderInv'
  <2> SUFFICES ASSUME NEW x \in InHeap' \ {0}
               PROVE  /\ x # at' /\ Parent(x) # at' => Before(arr[Parent(x)], arr[x])
                      /\ Parent(x) # at'
    BY <1>1 DEF OrderInv
  <2>1. x \in Nat /\ x # 0 /\ x <= size
    BY <1>1 DEF InHeap
  <2>2. Parent(x) # size
    BY <2>1, ParentFacts
  <2>3. x # size => x \in InHeap \ {0}
    BY <2>1 DEF InHeap
  <2> QED
    BY <1>1, <2>2, <2>3 DEF BusyInv, OrderInv
<1>11. Used' = Used /\ \A u : Key(u)' = Key(u) /\ Wins(u)' = Wins(u)
  <2>1. Used' = Used
    BY <1>1 DEF Used
  <2> QED
    BY <1>1, <2>1 DEF Key, Wins
<1>12. LastInv'
  BY <1>1, <1>2, <1>11 DEF BusyInv, LastInv
<1>13. ResultInv'
  BY <1>1, <1>11 DEF BusyInv, ResultInv
<1>14. TypeOK'
  <2>1. at' \in Runs /\ size' \in 0..NumMerged /\ filled' \in 0..NumMerged
    BY <1>1, <1>2, <1>5
  <2> QED
    BY <1>1, <1>6, <2>1 DEF Inv, TypeOK
<1> QED
  BY <1>1, <1>8, <1>9, <1>10, <1>12, <1>13, <1>14 DEF Inv, BusyInv, TopInv, MergesAsLSM


\* push moves the hole up.
LEMMA RiseInv ==
  ASSUME Inv, BusyInv, pc = "push", Rises,
         arr' = [arr EXCEPT ![at] = arr[Parent(at)]], at' = Parent(at), UNCHANGED <<blob, pc>>,
         UNCHANGED <<inVars, size, filled, heads, outVars, top>>
  PROVE  Inv'
<1> USE HeapTypes
<1> DEFINE p == Parent(at)
<1>1. UNCHANGED <<runList, lastLevel, slots, j, lastKey, lastk>> /\ InHeap' = InHeap
  BY DEF inVars, outVars, InHeap
<1>2. at # 0 /\ Before(blob, arr[p]) /\ at \in InHeap /\ p \in InHeap /\ p < at /\ p \in Nat
  BY ParentFacts DEF Rises, BusyInv, PhaseInv, InHeap
<1>3. arr'[at] = arr[p] /\ \A x \in Runs : x # at => arr'[x] = arr[x]
  OBVIOUS
<1>4. LastInv' /\ ResultInv' /\ Due' = Due
  BY <1>1, ResultFrame DEF BusyInv
<1>5. \A k : NextOf(k)' = NextOf(k)
  BY <1>1 DEF NextOf
<1>6. PhaseInv'
  BY <1>1, <1>2, <1>4 DEF BusyInv, PhaseInv, Capacity
<1>7. HeldInv'
  <2>1. blob.run \in Due /\ blob = NextOf(blob.run) /\ Holds(arr, InHeap \ {at}, Due \ {blob.run})
    BY DEF BusyInv, HeldInv
  <2> DEFINE I == InHeap \ {at}
             D == Due \ {blob.run}
  <2>2. \A x \in InHeap \ {p} : (x = at /\ arr'[x] = arr[p]) \/ (x \in I \ {p} /\ arr'[x] = arr[x])
    BY <1>2, <1>3
  <2>3. p \in I
    BY <1>2
  <2>4. ASSUME NEW x \in InHeap \ {p} PROVE arr'[x].run \in D /\ arr'[x] = NextOf(arr'[x].run)
    BY <2>1, <2>2, <2>3 DEF Holds
  <2>5. ASSUME NEW x \in InHeap \ {p}, NEW y \in InHeap \ {p}, arr'[x].run = arr'[y].run PROVE x = y
    BY <2>1, <2>2, <2>3, <2>5 DEF Holds
  <2>6. ASSUME NEW k \in D PROVE \E x \in InHeap \ {p} : arr'[x].run = k
    <3>1. PICK x \in I : arr[x].run = k
      BY <2>1 DEF Holds
    <3>2. CASE x = p
      BY <1>2, <1>3, <3>1, <3>2
    <3>3. CASE x # p
      BY <1>3, <3>1, <3>3
    <3> QED
      BY <3>2, <3>3
  <2>7. Holds(arr, InHeap \ {at}, Due \ {blob.run})'
    BY <1>1, <1>4, <1>5, <2>4, <2>5, <2>6 DEF Holds
  <2> QED
    BY <1>4, <1>5, <2>1, <2>7 DEF HeldInv
<1>8. OrderInv'
  <2>1. \A x \in InHeap \ {0} :
          /\ x # at /\ Parent(x) # at => Before(arr[Parent(x)], arr[x])
          /\ Parent(x) = at => Before(blob, arr[x]) /\ Before(arr[p], arr[x])
    BY <1>2 DEF BusyInv, OrderInv
  <2>2. ASSUME NEW x \in InHeap \ {0}
        PROVE  /\ x # p /\ Parent(x) # p => Before(arr'[Parent(x)], arr'[x])
               /\ Parent(x) = p => Before(blob, arr'[x]) /\ (p # 0 => Before(arr'[Parent(p)], arr'[x]))
    <3>1. x \in Runs /\ x \in Nat /\ x # 0 /\ Parent(x) \in Runs /\ Parent(x) < x
      BY ParentFacts DEF InHeap
    <3>2. CASE x = at
      <4>1. p # 0 => Before(arr[Parent(p)], arr[p]) /\ Parent(p) \in Runs /\ Parent(p) # at
        <5>1. p # 0 => Parent(p) \in Nat /\ Parent(p) < p
          BY <1>2, ParentFacts
        <5> QED
          BY <1>2, <2>1, <5>1
      <4> QED
        BY <1>2, <1>3, <3>2, <4>1
    <3>3. CASE x # at /\ Parent(x) = at
      <4>1. Parent(x) # p /\ arr'[Parent(x)] = arr[p] /\ arr'[x] = arr[x]
        BY <1>2, <1>3, <3>1, <3>3
      <4> QED
        BY <2>1, <3>3, <4>1
    <3>4. CASE x # at /\ Parent(x) # at
      <4>1. arr'[x] = arr[x] /\ arr'[Parent(x)] = arr[Parent(x)] /\ Before(arr[Parent(x)], arr[x])
        BY <1>3, <2>1, <3>1, <3>4
      <4>2. ASSUME Parent(x) = p PROVE Before(blob, arr[x])
        BY <1>2, <3>1, <4>1, <4>2, BeforeTrans
      <4>3. ASSUME Parent(x) = p, p # 0 PROVE Before(arr'[Parent(p)], arr[x])
        <5>1. Parent(p) \in Runs /\ Parent(p) < p /\ Parent(p) # at
          BY <1>2, <4>3, ParentFacts
        <5>2. Before(arr[Parent(p)], arr[p])
          BY <1>2, <2>1, <4>3, <5>1
        <5>3. Before(arr[Parent(p)], arr[x])
          BY <1>2, <3>1, <4>1, <4>3, <5>1, <5>2, BeforeTrans
        <5> QED
          BY <1>3, <5>1, <5>3
      <4> QED
        BY <4>1, <4>2, <4>3
    <3> QED
      BY <3>2, <3>3, <3>4
  <2> QED
    BY <1>1, <2>2 DEF OrderInv
<1>9. TypeOK'
  <2>1. arr' \in [Runs -> Pairs] /\ at' \in Runs
    BY <1>2
  <2> QED
    BY <1>1, <2>1 DEF Inv, TypeOK
<1> QED
  BY <1>4, <1>6, <1>7, <1>8, <1>9 DEF Inv, BusyInv, TopInv, MergesAsLSM

\* push puts its pair into the hole.
LEMMA SettleInv ==
  ASSUME Inv, BusyInv, pc = "push", ~Rises,
         arr' = [arr EXCEPT ![at] = blob], at' = 0, blob' = MaxPair,
         pc' = (IF filled < NumMerged THEN "fill" ELSE "merge"),
         UNCHANGED <<inVars, size, filled, heads, outVars, top>>
  PROVE  Inv'
<1> USE HeapTypes
<1>1. /\ UNCHANGED <<runList, lastLevel, slots, j, lastKey, lastk>> /\ InHeap' = InHeap
      /\ pc' \in {"fill", "merge"} /\ (pc' = "fill" <=> filled < NumMerged)
  BY DEF inVars, outVars, InHeap
<1>2. at \in InHeap /\ arr'[at] = blob /\ \A x \in Runs : x # at => arr'[x] = arr[x]
  BY DEF BusyInv, PhaseInv
<1>3. blob.run \in Due /\ blob = NextOf(blob.run) /\ Holds(arr, InHeap \ {at}, Due \ {blob.run})
  BY DEF BusyInv, HeldInv
<1>4. LastInv' /\ ResultInv' /\ Due' = Due
  BY <1>1, ResultFrame DEF BusyInv
<1>5. \A k : NextOf(k)' = NextOf(k)
  BY <1>1 DEF NextOf
<1>6. PhaseInv'
  BY <1>1, <1>4 DEF BusyInv, PhaseInv, Capacity
<1>7. HeldInv'
  <2>1. ASSUME NEW x \in InHeap PROVE arr'[x].run \in Due /\ arr'[x] = NextOf(arr'[x].run)
    BY <1>2, <1>3 DEF Holds
  <2>2. ASSUME NEW x \in InHeap, NEW y \in InHeap, arr'[x].run = arr'[y].run PROVE x = y
    <3>1. \A z \in InHeap \ {at} : arr'[z] = arr[z] /\ arr[z].run # blob.run
      BY <1>2, <1>3 DEF Holds
    <3> QED
      BY <1>2, <1>3, <2>2, <3>1 DEF Holds
  <2>3. ASSUME NEW k \in Due PROVE \E x \in InHeap : arr'[x].run = k
    <3>1. CASE k = blob.run
      BY <1>2, <3>1
    <3>2. CASE k # blob.run
      BY <1>2, <1>3, <3>2 DEF Holds
    <3> QED
      BY <3>1, <3>2
  <2>4. Holds(arr, InHeap, Due)'
    BY <1>1, <1>4, <1>5, <2>1, <2>2, <2>3 DEF Holds
  <2> QED
    BY <1>1, <2>4 DEF HeldInv
<1>8. OrderInv'
  <2>1. \A x \in InHeap \ {0} :
          /\ x # at /\ Parent(x) # at => Before(arr[Parent(x)], arr[x])
          /\ Parent(x) = at => Before(blob, arr[x])
    BY DEF BusyInv, OrderInv
  <2>2. ASSUME NEW x \in InHeap \ {0} PROVE Before(arr'[Parent(x)], arr'[x])
    <3>1. x \in Runs /\ x \in Nat /\ x # 0 /\ Parent(x) \in InHeap /\ Parent(x) \in Runs /\ Parent(x) < x
      BY ParentFacts DEF InHeap
    <3>2. CASE x = at
      <4>1. Parent(x) # at /\ arr'[Parent(x)] = arr[Parent(x)] /\ arr[Parent(x)] \in Pairs
        BY <1>2, <3>1, <3>2
      <4>2. arr[Parent(x)].run # blob.run
        BY <1>3, <3>1, <4>1 DEF Holds
      <4>3. ~Before(blob, arr[Parent(x)])
        BY <3>1, <3>2 DEF Rises
      <4> QED
        BY <1>2, <3>2, <4>1, <4>2, <4>3, BeforeTotal
    <3>3. CASE x # at
      BY <1>2, <2>1, <3>1, <3>3
    <3> QED
      BY <3>2, <3>3
  <2> QED
    BY <1>1, <2>2 DEF OrderInv
<1>9. TypeOK'
  <2>1. arr' \in [Runs -> Pairs] /\ at' \in Runs /\ blob' \in Pairs
    BY DEF Pairs, Runs
  <2> QED
    BY <1>1, <2>1 DEF Inv, TypeOK
<1> QED
  BY <1>1, <1>4, <1>6, <1>7, <1>8, <1>9 DEF Inv, BusyInv, TopInv, MergesAsLSM


\* pop takes the least entry, and puts the last one of the heap in its place.
LEMMA PopInv == ASSUME Inv, BusyInv, Pop PROVE Inv'
<1> USE HeapTypes
<1>1. /\ pc = "merge" /\ size # 0 /\ pc' = "heapify" /\ top' = arr[0] /\ size' = size - 1 /\ at' = 0
      /\ arr' = [arr EXCEPT ![0] = arr[size - 1]]
      /\ UNCHANGED <<runList, lastLevel, slots, j, lastKey, lastk, blob, filled, heads>>
      /\ UNCHANGED outVars
  BY DEF Pop, inVars, outVars
<1>2. /\ 0 \in InHeap /\ size - 1 \in InHeap /\ InHeap' = InHeap \ {size - 1}
      /\ arr'[0] = arr[size - 1] /\ \A x \in Runs : x # 0 => arr'[x] = arr[x]
  BY <1>1 DEF InHeap
<1>3. Holds(arr, InHeap, Due) /\ \A x \in InHeap \ {0} : Before(arr[Parent(x)], arr[x])
  BY <1>1 DEF BusyInv, HeldInv, OrderInv
<1>4. LastInv' /\ ResultInv' /\ Due' = Due
  BY <1>1, ResultFrame DEF BusyInv
<1>5. \A k : NextOf(k)' = NextOf(k)
  BY <1>1 DEF NextOf
<1>6. PhaseInv'
  <2>1. size' = Cardinality(Due) - 1
    BY <1>1, DueFinite DEF BusyInv, PhaseInv
  <2> QED
    BY <1>1, <1>4, <2>1 DEF BusyInv, PhaseInv, Capacity
<1>7. HeldInv'
  <2> DEFINE D == Due \ {arr[0].run}
  <2>1. arr[0].run \in Due /\ arr[0] = NextOf(arr[0].run)
    BY <1>2, <1>3 DEF Holds
  <2>2. \A x \in InHeap \ {0} : arr[x].run \in D /\ arr[x] = NextOf(arr[x].run)
    BY <1>2, <1>3 DEF Holds
  <2>3. \A x \in InHeap' : (x = 0 /\ size - 1 # 0 /\ arr'[x] = arr[size - 1]) \/ (x # 0 /\ x \in InHeap /\ arr'[x] = arr[x])
    BY <1>2
  <2>4. ASSUME NEW x \in InHeap' PROVE arr'[x].run \in D /\ arr'[x] = NextOf(arr'[x].run)
    <3> HIDE DEF D
    <3> QED
      BY <1>2, <2>2, <2>3
  <2>5. ASSUME NEW x \in InHeap', NEW y \in InHeap', arr'[x].run = arr'[y].run PROVE x = y
    <3>1. \A v, w \in InHeap : arr[v].run = arr[w].run => v = w
      BY <1>3 DEF Holds
    <3>2. x \in InHeap /\ x # size - 1 /\ y \in InHeap /\ y # size - 1
      BY <1>2
    <3>3. CASE x = 0
      BY <1>2, <2>3, <2>5, <3>1, <3>2, <3>3
    <3>4. CASE x # 0
      BY <1>2, <2>3, <2>5, <3>1, <3>2, <3>4
    <3> QED
      BY <3>3, <3>4
  <2>6. ASSUME NEW k \in D PROVE \E x \in InHeap' : arr'[x].run = k
    <3>1. PICK x \in InHeap : arr[x].run = k
      BY <1>3 DEF Holds
    <3>2. x # 0
      BY <3>1
    <3>3. CASE x = size - 1
      BY <1>2, <3>1, <3>2, <3>3
    <3>4. CASE x # size - 1
      BY <1>2, <3>1, <3>2, <3>4
    <3> QED
      BY <3>3, <3>4
  <2>7. Holds(arr, InHeap, Due \ {top.run})'
    BY <1>1, <1>4, <1>5, <2>4, <2>5, <2>6 DEF Holds
  <2> QED
    BY <1>1, <1>4, <1>5, <2>1, <2>7 DEF HeldInv
<1>8. OrderInv'
  <2>1. ASSUME NEW x \in InHeap' \ {0}, Parent(x) # 0 PROVE Before(arr'[Parent(x)], arr'[x])
    <3>1. x \in Runs /\ x \in Nat /\ x \in InHeap \ {0}
      BY <1>2
    <3>2. Parent(x) \in Runs
      BY <3>1, ParentFacts
    <3> QED
      BY <1>2, <1>3, <2>1, <3>1, <3>2
  <2> QED
    BY <1>1, <2>1 DEF OrderInv
<1>9. TopInv'
  <2>1. ASSUME NEW k \in Due \ {arr[0].run} PROVE Before(arr[0], NextOf(k))
    <3>1. PICK x \in InHeap : arr[x].run = k
      BY <1>3 DEF Holds
    <3>2. arr[x] = NextOf(k) /\ x # 0
      BY <1>3, <3>1 DEF Holds
    <3>3. \A y \in (0..size - 1) \ {0} : Before(arr[0], arr[y])
      <4>1. \A y \in 0..size - 1 : arr[y] \in Pairs
        BY DEF InHeap
      <4> QED
        BY <1>3, <4>1, RootFirst DEF InHeap
    <3> QED
      BY <3>1, <3>2, <3>3 DEF InHeap
  <2> QED
    BY <1>1, <1>4, <1>5, <2>1 DEF TopInv
<1>10. TypeOK'
  <2>1. arr' \in [Runs -> Pairs] /\ at' \in Runs /\ top' \in Pairs /\ size' \in 0..NumMerged
    BY <1>1, <1>2
  <2> QED
    BY <1>1, <2>1 DEF Inv, TypeOK
<1> QED
  BY <1>1, <1>4, <1>6, <1>7, <1>8, <1>9, <1>10 DEF Inv, BusyInv, MergesAsLSM

\* The smallest one of a slot and its children, in a heap of pairs of different runs.
LEMMA SmallestFacts ==
  ASSUME Inv, NEW i \in Runs
  PROVE  /\ Smallest(i) \in {i, LeftChild(i), RightChild(i)}
         /\ Smallest(i) # i => Smallest(i) \in InHeap /\ Before(arr[Smallest(i)], arr[i])
         /\ \A x \in InHeap : x \in {LeftChild(i), RightChild(i)} /\ x # Smallest(i) => ~Before(arr[x], arr[Smallest(i)])
<1> USE HeapTypes
<1> DEFINE l == LeftChild(i)
           r == RightChild(i)
           m == Smaller(i, l)
           s == Smaller(m, r)
<1>1. l \in Nat /\ r \in Nat /\ l # i /\ r # i /\ r # l
  BY DEF LeftChild, RightChild
<1>2. (l < size => l \in InHeap) /\ (r < size => r \in InHeap)
  BY <1>1 DEF InHeap
<1>3. \A x \in InHeap : x \in Runs /\ x < size
  BY DEF InHeap
<1> HIDE DEF l, r
<1>4. CASE ~(l < size /\ Before(arr[l], arr[i]))
  <2>1. m = i
    BY <1>4 DEF Smaller
  <2>2. CASE ~(r < size /\ Before(arr[r], arr[i]))
    <3>1. s = i
      BY <2>1, <2>2 DEF Smaller
    <3> QED
      BY <1>3, <1>4, <2>2, <3>1 DEF Smallest, l, r
  <2>3. CASE r < size /\ Before(arr[r], arr[i])
    <3>1. s = r
      BY <2>1, <2>3 DEF Smaller
    <3>2. l \in InHeap => ~Before(arr[l], arr[r])
      BY <1>2, <1>3, <1>4, <2>3, BeforeTrans
    <3> QED
      BY <1>2, <2>3, <3>1, <3>2 DEF Smallest, l, r
  <2> QED
    BY <2>2, <2>3
<1>5. CASE l < size /\ Before(arr[l], arr[i])
  <2>1. m = l
    BY <1>5 DEF Smaller
  <2>2. CASE ~(r < size /\ Before(arr[r], arr[l]))
    <3>1. s = l
      BY <2>1, <2>2 DEF Smaller
    <3> QED
      BY <1>2, <1>3, <1>5, <2>2, <3>1 DEF Smallest, l, r
  <2>3. CASE r < size /\ Before(arr[r], arr[l])
    <3>1. s = r
      BY <2>1, <2>3 DEF Smaller
    <3>2. Before(arr[r], arr[i]) /\ ~Before(arr[l], arr[r])
      BY <1>2, <1>3, <1>5, <2>3, BeforeTrans, BeforeOneWay
    <3> QED
      BY <1>2, <2>3, <3>1, <3>2 DEF Smallest, l, r
  <2> QED
    BY <2>2, <2>3
<1> QED
  BY <1>4, <1>5


\* heapify swaps a pair that is too large with the smaller one of its children.
LEMMA SwapInv ==
  ASSUME Inv, BusyInv, pc = "heapify", NEW s, s = Smallest(at), s # at,
         arr' = [arr EXCEPT ![at] = arr[s], ![s] = arr[at]], at' = s, UNCHANGED pc,
         UNCHANGED <<inVars, size, blob, filled, heads, outVars, top>>
  PROVE  Inv'
<1> USE HeapTypes
<1>1. UNCHANGED <<runList, lastLevel, slots, j, lastKey, lastk>> /\ InHeap' = InHeap
  BY DEF inVars, outVars, InHeap
<1>2. /\ s \in InHeap /\ s \in Runs /\ s \in Nat /\ Before(arr[s], arr[at])
      /\ s = LeftChild(at) \/ s = RightChild(at)
      /\ \A x \in InHeap : x \in {LeftChild(at), RightChild(at)} /\ x # s => ~Before(arr[x], arr[s])
  BY SmallestFacts DEF InHeap
<1>3. at \in InHeap /\ s # 0 /\ Parent(s) = at /\ at < s
  <2>1. s # 0 /\ at < s
    BY <1>2 DEF LeftChild, RightChild
  <2>2. Parent(s) = at
    BY <1>2, <2>1, ChildFacts
  <2>3. at \in InHeap
    BY <1>2, <2>1 DEF InHeap
  <2> QED
    BY <2>1, <2>2, <2>3
<1>4. arr'[at] = arr[s] /\ arr'[s] = arr[at] /\ \A x \in Runs : x # at /\ x # s => arr'[x] = arr[x]
  BY <1>2, <1>3
<1>5. LastInv' /\ ResultInv' /\ Due' = Due
  BY <1>1, ResultFrame DEF BusyInv
<1>6. \A k : NextOf(k)' = NextOf(k)
  BY <1>1 DEF NextOf
<1>7. PhaseInv'
  BY <1>1, <1>2, <1>5 DEF BusyInv, PhaseInv, Capacity
<1>8. top.run \in Due /\ top = NextOf(top.run) /\ Holds(arr, InHeap, Due \ {top.run})
  BY DEF BusyInv, HeldInv
<1>9. HeldInv'
  <2> DEFINE D == Due \ {top.run}
  <2>1. ASSUME NEW x \in InHeap PROVE arr'[x].run \in D /\ arr'[x] = NextOf(arr'[x].run)
    <3>1. \A v \in InHeap : arr[v].run \in D /\ arr[v] = NextOf(arr[v].run)
      BY <1>8 DEF Holds
    <3> HIDE DEF D
    <3> QED
      BY <1>2, <1>3, <1>4, <3>1
  <2>2. ASSUME NEW x \in InHeap, NEW y \in InHeap, arr'[x].run = arr'[y].run PROVE x = y
    <3>1. \A v, w \in InHeap : arr[v].run = arr[w].run => v = w
      BY <1>8 DEF Holds
    <3>2. CASE x = at
      BY <1>2, <1>3, <1>4, <2>2, <3>1, <3>2
    <3>3. CASE x = s
      BY <1>2, <1>3, <1>4, <2>2, <3>1, <3>3
    <3>4. CASE x # at /\ x # s
      BY <1>2, <1>3, <1>4, <2>2, <3>1, <3>4
    <3> QED
      BY <3>2, <3>3, <3>4
  <2>3. ASSUME NEW k \in D PROVE \E x \in InHeap : arr'[x].run = k
    <3>1. PICK x \in InHeap : arr[x].run = k
      BY <1>8 DEF Holds
    <3>2. CASE x = at
      BY <1>2, <1>4, <3>1, <3>2
    <3>3. CASE x = s
      BY <1>3, <1>4, <3>1, <3>3
    <3>4. CASE x # at /\ x # s
      BY <1>4, <3>1, <3>4
    <3> QED
      BY <3>2, <3>3, <3>4
  <2>4. Holds(arr, InHeap, Due \ {top.run})'
    BY <1>1, <1>5, <1>6, <2>1, <2>2, <2>3 DEF Holds
  <2> QED
    BY <1>5, <1>6, <1>8, <2>4 DEF HeldInv
<1>10. OrderInv'
  <2>1. \A x \in InHeap \ {0} :
          /\ Parent(x) # at => Before(arr[Parent(x)], arr[x])
          /\ Parent(x) = at /\ at # 0 => Before(arr[Parent(at)], arr[x])
    BY DEF BusyInv, OrderInv
  <2>2. ASSUME NEW x \in InHeap \ {0}
        PROVE  /\ Parent(x) # s => Before(arr'[Parent(x)], arr'[x])
               /\ Parent(x) = s => Before(arr'[Parent(s)], arr'[x])
    <3>1. x \in Runs /\ x \in Nat /\ x # 0 /\ Parent(x) \in Runs /\ Parent(x) < x
      BY ParentFacts DEF InHeap
    <3>2. CASE x = s
      BY <1>2, <1>3, <1>4, <3>1, <3>2
    <3>3. CASE x = at
      BY <1>2, <1>3, <1>4, <2>1, <3>1, <3>3
    <3>4. CASE x # s /\ x # at /\ Parent(x) = at
      <4>1. x \in {LeftChild(at), RightChild(at)}
        BY <3>1, <3>4, ChildFacts
      <4>2. ~Before(arr[x], arr[s]) /\ arr[x].run # arr[s].run
        BY <1>2, <1>8, <3>4, <4>1 DEF Holds
      <4>3. Before(arr[s], arr[x])
        BY <1>2, <3>1, <4>2, BeforeTotal
      <4> QED
        BY <1>3, <1>4, <3>1, <3>4, <4>3
    <3>5. CASE x # s /\ x # at /\ Parent(x) # at
      BY <1>3, <1>4, <2>1, <3>1, <3>5
    <3> QED
      BY <3>2, <3>3, <3>4, <3>5
  <2> QED
    BY <1>1, <2>2 DEF OrderInv
<1>11. TypeOK'
  <2>1. arr' \in [Runs -> Pairs] /\ at' \in Runs
    BY <1>2
  <2> QED
    BY <1>1, <2>1 DEF Inv, TypeOK
<1>12. TopInv'
  BY <1>5, <1>6 DEF BusyInv, TopInv
<1> QED
  BY <1>5, <1>7, <1>9, <1>10, <1>11, <1>12 DEF Inv, BusyInv, MergesAsLSM

\* heapify comes to its end.
LEMMA SunkInv ==
  ASSUME Inv, BusyInv, pc = "heapify", Smallest(at) = at,
         at' = 0, pc' = "place", UNCHANGED arr,
         UNCHANGED <<inVars, size, blob, filled, heads, outVars, top>>
  PROVE  Inv'
<1> USE HeapTypes
<1>1. UNCHANGED <<runList, lastLevel, slots, j, lastKey, lastk>> /\ InHeap' = InHeap
  BY DEF inVars, outVars, InHeap
<1>2. LastInv' /\ ResultInv' /\ Due' = Due
  BY <1>1, ResultFrame DEF BusyInv
<1>3. \A k : NextOf(k)' = NextOf(k)
  BY <1>1 DEF NextOf
<1>4. PhaseInv' /\ TopInv' /\ TypeOK'
  BY <1>1, <1>2, <1>3 DEF BusyInv, PhaseInv, Capacity, TopInv, Inv, TypeOK
<1>5. Holds(arr, InHeap, Due \ {top.run}) /\ HeldInv'
  BY <1>1, <1>2, <1>3 DEF BusyInv, HeldInv, Holds
<1>6. OrderInv'
  <2>1. ASSUME NEW x \in InHeap \ {0} PROVE Before(arr[Parent(x)], arr[x])
    <3>1. x \in Runs /\ x \in Nat /\ x # 0 /\ Parent(x) \in InHeap /\ Parent(x) \in Runs /\ Parent(x) < x
      BY ParentFacts DEF InHeap
    <3>2. CASE Parent(x) # at
      BY <3>2 DEF BusyInv, OrderInv
    <3>3. CASE Parent(x) = at
      <4>1. x \in {LeftChild(at), RightChild(at)} /\ x # at
        BY <3>1, <3>3, ChildFacts
      <4>2. ~Before(arr[x], arr[at])
        BY <4>1, SmallestFacts
      <4>3. arr[x].run # arr[at].run
        BY <1>5, <3>1, <3>3, <4>1 DEF Holds
      <4> QED
        BY <3>1, <3>3, <4>2, <4>3, BeforeTotal
    <3> QED
      BY <3>2, <3>3
  <2> QED
    BY <1>1, <2>1 DEF OrderInv
<1> QED
  BY <1>2, <1>4, <1>5, <1>6 DEF Inv, BusyInv, MergesAsLSM


----------------------------------------------------------------------------
(* The steps of the merge *)

\* The entries that have been placed are entries of the runs.
LEMMA UsedFacts ==
  ASSUME Inv, BusyInv, NEW u \in Used
  PROVE  /\ u[1] \in Runs /\ u[2] \in Nat /\ u[2] < heads[u[1]] /\ u = <<u[1], u[2]>>
         /\ u[2] \in 0..Capacity(u[1]) - 1 /\ runList[u[1]][u[2]] \in Entries /\ Key(u) \in Keys /\ u[1] \in Int /\ Key(u) \in Int
<1>1. /\ u[1] \in Runs /\ u[2] \in 0..RunSize - 1 /\ u[2] < heads[u[1]] /\ u = <<u[1], u[2]>>
  BY DEF Used
<1>2. heads[u[1]] <= Capacity(u[1]) /\ heads[u[1]] \in Nat /\ Capacity(u[1]) \in Nat
  BY <1>1, HeapTypes, RunFacts DEF BusyInv, PhaseInv
<1>3. u[2] \in 0..Capacity(u[1]) - 1
  BY <1>1, <1>2
<1>4. runList[u[1]][u[2]] \in Entries
  BY <1>1, <1>3, HeapTypes, RunFacts
<1>5. Key(u) \in Keys /\ u[1] \in Int /\ Key(u) \in Int
  BY <1>1, <1>4, MergeAssumption DEF Key, Entries, Runs
<1> QED
  BY <1>1, <1>3, <1>4, <1>5

\* As many entries can be placed as the new run has slots.
LEMMA UsedSize ==
  /\ IsFiniteSet(Used) /\ Cardinality(Used) \in Nat
  /\ NumMerged * RunSize \in Nat
  /\ \A u \in (Runs \X (0..RunSize - 1)) \ Used :
       /\ Cardinality(Used \union {u}) = Cardinality(Used) + 1
       /\ Cardinality(Used) + 1 <= NumMerged * RunSize
<1> DEFINE P == Runs \X (0..RunSize - 1)
<1>1. IsFiniteSet(0..RunSize - 1) /\ Cardinality(0..RunSize - 1) = RunSize
  BY FS_Interval, MergeAssumption
<1>2. IsFiniteSet(P) /\ Cardinality(P) = NumMerged * RunSize
  BY <1>1, RunsFinite, FS_Product
<1>3. NumMerged * RunSize \in Nat
  BY <1>2, FS_CardinalityType
<1> HIDE DEF P
<1>4. Used \in SUBSET P
  BY DEF Used, P
<1>5. IsFiniteSet(Used) /\ Cardinality(Used) \in Nat
  BY <1>2, <1>4, FS_Subset, FS_CardinalityType
<1>6. ASSUME NEW u \in P \ Used
      PROVE  /\ Cardinality(Used \union {u}) = Cardinality(Used) + 1
             /\ Cardinality(Used) + 1 <= NumMerged * RunSize
  <2>1. Cardinality(Used \union {u}) = Cardinality(Used) + 1
    BY <1>5, <1>6, FS_AddElement
  <2>2. Used \union {u} \in SUBSET P
    BY <1>4, <1>6
  <2>3. Cardinality(Used \union {u}) <= Cardinality(P)
    BY <1>2, <2>2, FS_Subset
  <2> QED
    BY <1>2, <2>1, <2>3
<1> QED
  BY <1>3, <1>5, <1>6 DEF P

\* The entry that was popped is the next one of its run.
LEMMA TopFacts ==
  ASSUME Inv, BusyInv, pc = "place"
  PROVE  /\ top.run \in Due /\ top.run \in Runs /\ top.run \in Int
         /\ heads[top.run] \in 0..Capacity(top.run) - 1 /\ heads[top.run] \in 0..RunSize - 1
         /\ top = NextOf(top.run) /\ top.entry = runList[top.run][heads[top.run]]
         /\ top.entry \in Entries /\ top.entry.key \in Keys /\ top.entry.key \in Int /\ top.entry.key # IntMax
         /\ top # MaxPair
         /\ <<top.run, heads[top.run]>> \in (Runs \X (0..RunSize - 1)) \ Used
         /\ Key(<<top.run, heads[top.run]>>) = top.entry.key
<1>1. top.run \in Due /\ top = NextOf(top.run)
  BY DEF BusyInv, HeldInv
<1>2. /\ top.run \in Runs /\ top.run \in Int /\ heads[top.run] \in 0..Capacity(top.run) - 1
      /\ top.entry = runList[top.run][heads[top.run]] /\ top.entry \in Entries
  BY <1>1, HeapTypes, NextFacts
<1>3. heads[top.run] \in 0..RunSize - 1
  <2>1. Capacity(top.run) \in 1..RunSize
    BY <1>2, HeapTypes, RunFacts
  <2> QED
    BY <1>2, <2>1, MergeAssumption
<1>4. top.entry.key \in Keys /\ top.entry.key \in Int /\ top.entry.key # IntMax
  <2>1. top.entry.key \in Keys
    BY <1>2 DEF Entries
  <2>2. \A c \in Keys : c \in Int /\ c # IntMax
    BY MergeAssumption
  <2> QED
    BY <2>1, <2>2
<1>5. <<top.run, heads[top.run]>> \in (Runs \X (0..RunSize - 1)) \ Used
  BY <1>2, <1>3 DEF Used
<1>6. top # MaxPair
  BY <1>4 DEF MaxPair
<1> QED
  BY <1>1, <1>2, <1>3, <1>4, <1>5, <1>6 DEF Key

\* No turn leaves the file, and an entry with a new key gets the next slot.
LEMMA TouchedFacts ==
  ASSUME Inv, BusyInv, pc = "place"
  PROVE  /\ Touched \subseteq Slots
         /\ j \in Int /\ j >= -1 /\ Slots \subseteq Nat /\ \A y \in Slots : 0..y \subseteq Slots
         /\ lastKey = top.entry.key => j \in Slots
         /\ lastKey # top.entry.key => NextIndex = j + 1 /\ j + 1 \in Slots
<1>1. j \in Slots \union {-1} /\ NumMerged * RunSize \in Nat
  BY UsedSize DEF Inv, TypeOK
<1>2. Slots \subseteq Nat /\ j \in Int /\ j >= -1 /\ \A y \in Slots : 0..y \subseteq Slots
  BY <1>1 DEF Slots
<1>3. j + 1 \in Slots
  <2>1. j + 1 <= Cardinality(Used) /\ Cardinality(Used) \in Nat /\ Cardinality(Used) + 1 <= NumMerged * RunSize
    BY TopFacts, UsedSize DEF BusyInv, ResultInv
  <2> QED
    BY <1>1, <1>2, <2>1 DEF Slots
<1>4. NextIndex = j + 1
  <2>1. slots[j + 1] = Blank
    BY <1>2, <1>3 DEF BusyInv, ResultInv
  <2> QED
    BY <2>1, MergeAssumption DEF NextIndex, Blank
<1>5. lastKey = top.entry.key => j \in Slots
  BY <1>1, TopFacts DEF BusyInv, LastInv
<1> QED
  BY <1>2, <1>3, <1>4, <1>5 DEF Touched


\* What a turn does to the new run, and to the entries placed.
Placed ==
  /\ Place
  /\ heads' = [heads EXCEPT ![top.run] = @ + 1]
  /\ UNCHANGED <<runList, filled, top>>

\* The entry of the turn comes after those that were placed before.
LEMMA InOrder ==
  ASSUME Inv, BusyInv, pc = "place", NEW u \in Used
  PROVE  /\ lastKey # IntMax /\ lastKey \in Int /\ lastk \in Int
         /\ Key(u) <= lastKey /\ lastKey <= top.entry.key
         /\ Key(u) = lastKey => u[1] <= lastk
         /\ lastKey = top.entry.key => lastk <= top.run
<1>1. lastKey # IntMax
  BY DEF BusyInv, LastInv
<1>2. /\ lastk \in Runs
      /\ \A w \in Used : Key(w) <= lastKey /\ (Key(w) = lastKey => w[1] <= lastk)
      /\ \A k \in Due : lastKey < NextOf(k).entry.key \/ (lastKey = NextOf(k).entry.key /\ lastk <= k)
  BY <1>1 DEF BusyInv, LastInv
<1>3. lastKey \in Int /\ lastk \in Int
  BY <1>2, MergeAssumption DEF Inv, TypeOK, Runs
<1>4. lastKey < top.entry.key \/ (lastKey = top.entry.key /\ lastk <= top.run)
  BY <1>2, TopFacts
<1> QED
  BY <1>1, <1>2, <1>3, <1>4, TopFacts

\* The entries placed after the turn.
LEMMA UsedPlaced ==
  ASSUME Inv, BusyInv, pc = "place", Placed
  PROVE  /\ Used' = Used \union {<<top.run, heads[top.run]>>}
         /\ Cardinality(Used') = Cardinality(Used) + 1
         /\ \A u : Key(u)' = Key(u)
<1> DEFINE r == top.run
           u0 == <<r, heads[r]>>
<1>1. heads \in [Runs -> 0..RunSize] /\ RunSize \in Nat
  BY HeapTypes, MergeAssumption
<1>2. r \in Runs /\ heads[r] \in 0..RunSize - 1 /\ u0 \in (Runs \X (0..RunSize - 1)) \ Used
  BY TopFacts
<1>3. heads'[r] = heads[r] + 1 /\ \A k \in Runs : k # r => heads'[k] = heads[k]
  BY <1>1, <1>2 DEF Placed
<1>4. ASSUME NEW u \in Runs \X (0..RunSize - 1)
      PROVE  u[2] < heads'[u[1]] <=> u[2] < heads[u[1]] \/ u = u0
  <2>1. u[1] \in Runs /\ u[2] \in 0..RunSize - 1 /\ u = <<u[1], u[2]>> /\ heads[u[1]] \in 0..RunSize
    BY <1>1
  <2>2. CASE u[1] = r
    <3>1. u = u0 <=> u[2] = heads[r]
      BY <2>1, <2>2
    <3> QED
      BY <1>1, <1>2, <1>3, <2>1, <2>2, <3>1
  <2>3. CASE u[1] # r
    <3>1. u # u0
      BY <2>3
    <3> QED
      BY <1>3, <2>1, <2>3, <3>1
  <2> QED
    BY <2>2, <2>3
<1> HIDE DEF u0
<1>5. Used' = Used \union {u0}
  BY <1>2, <1>4 DEF Used
<1>6. \A u : Key(u)' = Key(u)
  BY DEF Placed, Key
<1> QED
  BY <1>2, <1>5, <1>6, UsedSize DEF u0

\* The entries of the new run have keys up to the last one's.
LEMMA SlotKeys ==
  ASSUME Inv, BusyInv, NEW x \in 0..j
  PROVE  /\ x \in Int /\ j \in Int /\ slots[x].key \in Int /\ slots[x].key <= slots[j].key
         /\ slots[j].key = lastKey /\ lastKey # IntMax /\ lastKey \in Int
         /\ x # j => slots[x].key < lastKey
<1>1. j \in Int
  <2>1. j \in Slots \union {-1} /\ Slots \subseteq Int
    BY UsedSize DEF Inv, TypeOK, Slots
  <2> QED
    BY <2>1
<1>2. x \in Int /\ j >= 0 /\ j \in 0..j
  BY <1>1
<1>3. lastKey # IntMax /\ lastKey = slots[j].key
  BY <1>2 DEF BusyInv, LastInv
<1>4. \A y \in 0..j : slots[y].key \in Int
  <2> SUFFICES ASSUME NEW y \in 0..j PROVE slots[y].key \in Int
    OBVIOUS
  <2>1. PICK u \in Used : slots[y] = runList[u[1]][u[2]]
    BY DEF BusyInv, ResultInv
  <2>2. Key(u) \in Int
    BY UsedFacts
  <2> QED
    BY <2>1, <2>2 DEF Key
<1>5. \A y, z \in 0..j : y < z => slots[y].key < slots[z].key
  BY DEF BusyInv, ResultInv
<1> QED
  BY <1>1, <1>2, <1>3, <1>4, <1>5


\* A winner stays one if the entry placed after it has another key.
LEMMA StillWins ==
  ASSUME Inv, BusyInv, pc = "place", Placed, NEW u \in Used, Wins(u), Key(u) # top.entry.key \/ top.run <= u[1]
  PROVE  u \in Used' /\ Wins(u)'
<1>1. Used' = Used \union {<<top.run, heads[top.run]>>} /\ Key(<<top.run, heads[top.run]>>) = top.entry.key
  BY UsedPlaced, TopFacts
<1>2. \A w \in Used : Key(w) = Key(u) => w[1] <= u[1]
  BY DEF Wins
<1>3. \A w \in Used' : Key(w) = Key(u) => w[1] <= u[1]
  BY <1>1, <1>2
<1>4. u[2] = 0 \/ runList[u[1]][u[2] - 1].key < Key(u)
  BY DEF Wins
<1>5. runList' = runList
  BY DEF Placed
<1> QED
  BY <1>1, <1>3, <1>4, <1>5 DEF Wins, Key

\* The entry placed wins, if no entry of its key was placed before from its run or a newer
\* one.
LEMMA TopWins ==
  ASSUME Inv, BusyInv, pc = "place", Placed, \A u \in Used : Key(u) = top.entry.key => u[1] < top.run,
         NEW u0, u0 = <<top.run, heads[top.run]>>
  PROVE  Wins(u0)'
<1> DEFINE r == top.run
           h == heads[r]
<1>1. r \in Runs /\ h \in 0..RunSize - 1 /\ h \in 0..Capacity(r) - 1 /\ Key(u0) = top.entry.key /\ r \in Int
      /\ top.entry.key \in Int /\ RunSize \in Nat
  BY TopFacts, MergeAssumption
<1>2. h = 0 \/ runList[r][h - 1].key < top.entry.key
  <2> SUFFICES ASSUME h # 0 PROVE runList[r][h - 1].key < top.entry.key
    OBVIOUS
  <2>1. <<r, h - 1>> \in Used
    BY <1>1 DEF Used
  <2>2. Key(<<r, h - 1>>) = runList[r][h - 1].key /\ <<r, h - 1>>[1] = r
    BY DEF Key
  <2>3. Key(<<r, h - 1>>) <= top.entry.key /\ Key(<<r, h - 1>>) \in Int
    BY <2>1, InOrder, UsedFacts, <1>1
  <2>4. Key(<<r, h - 1>>) # top.entry.key
    BY <1>1, <2>1, <2>2
  <2> QED
    BY <1>1, <2>2, <2>3, <2>4
<1>3. \A w \in Used' : Key(w) = top.entry.key => w[1] <= r
  BY <1>1, UsedPlaced, UsedFacts
<1>4. runList' = runList /\ u0[1] = r /\ u0[2] = h
  BY DEF Placed
<1> QED
  BY <1>1, <1>2, <1>3, <1>4 DEF Wins, Key

\* The new run after a turn.
LEMMA PlaceResult ==
  ASSUME Inv, BusyInv, pc = "place", Placed
  PROVE  /\ ResultInv'
         /\ j' \in Slots /\ lastKey' = slots'[j'].key /\ lastKey' # IntMax
         /\ slots' \in [Slots -> Entries \union {Blank}]
<1> DEFINE r == top.run
           h == heads[r]
           e == top.entry
<1> PICK u0 : u0 = <<r, h>>
  OBVIOUS
<1>1. /\ r \in Int /\ e \in Entries /\ e.key \in Int /\ e.key # IntMax /\ Key(u0) = e.key
      /\ e = runList[u0[1]][u0[2]] /\ runList' = runList
  BY TopFacts DEF Placed
<1>2. Used' = Used \union {u0} /\ Cardinality(Used') = Cardinality(Used) + 1 /\ u0 \in Used' /\ \A u : Key(u)' = Key(u)
  BY UsedPlaced
<1>3. /\ lastKey' = e.key /\ lastk' = r
      /\ \/ lastKey = e.key /\ lastk < r /\ slots' = [slots EXCEPT ![j] = e] /\ j' = j
         \/ lastKey = e.key /\ lastk >= r /\ slots' = slots /\ j' = j
         \/ lastKey # e.key /\ j' = j + 1 /\ slots' = [slots EXCEPT ![j + 1] = e]
  BY TouchedFacts DEF Placed, Place
<1>4. /\ \A x \in Slots : x > j => slots[x] = Blank
      /\ \A x \in 0..j : \A y \in 0..j : x < y => slots[x].key < slots[y].key
      /\ \A x \in 0..j : \E u \in Used : slots[x] = runList[u[1]][u[2]] /\ Wins(u)
      /\ \A u \in Used : \E x \in 0..j : slots[x].key = Key(u)
      /\ j + 1 <= Cardinality(Used)
  BY DEF BusyInv, ResultInv
<1>5. slots \in [Slots -> Entries \union {Blank}] /\ j \in Int /\ j >= -1 /\ Slots \subseteq Nat /\ Cardinality(Used) \in Nat
      /\ \A y \in Slots : 0..y \subseteq Slots
  BY TouchedFacts, UsedSize DEF Inv, TypeOK
<1>6. \A x \in 0..j : slots[x].key \in Int /\ slots[x].key <= lastKey /\ lastKey \in Int /\ (x # j => slots[x].key < lastKey)
  BY SlotKeys
<1>7. ASSUME NEW x \in 0..j, x \in 0..j' /\ slots'[x] = slots[x], slots[x].key # e.key \/ lastk >= r
      PROVE  \E u \in Used' : slots'[x] = runList[u[1]][u[2]] /\ Wins(u)'
  <2>1. PICK u \in Used : slots[x] = runList[u[1]][u[2]] /\ Wins(u)
    BY <1>4
  <2>2. Key(u) = slots[x].key
    BY <2>1 DEF Key
  <2>3. CASE slots[x].key # e.key
    BY <1>7, <2>1, <2>2, <2>3, StillWins
  <2>4. CASE slots[x].key = e.key /\ lastk >= r
    <3>1. lastKey # IntMax /\ lastKey = e.key
      <4>1. lastKey # IntMax /\ Key(u) <= lastKey /\ lastKey <= e.key /\ lastKey \in Int
        BY InOrder
      <4> QED
        BY <1>1, <2>2, <2>4, <4>1
    <3>2. PICK w \in Used : Key(w) = lastKey /\ w[1] = lastk
      BY <3>1 DEF BusyInv, LastInv
    <3>3. lastk <= u[1]
      BY <2>1, <2>2, <2>4, <3>1, <3>2 DEF Wins
    <3>4. r <= u[1]
      <4>1. lastk \in Int /\ u[1] \in Int
        BY UsedFacts, InOrder
      <4> QED
        BY <1>1, <2>4, <3>3, <4>1
    <3> QED
      BY <1>7, <2>1, <3>4, StillWins
  <2> QED
    BY <1>7, <2>3, <2>4
<1>8. CASE lastKey = e.key /\ lastk < r /\ slots' = [slots EXCEPT ![j] = e] /\ j' = j
  <2>1. j \in Slots /\ j \in 0..j /\ slots[j].key = lastKey /\ slots'[j] = e /\ \A x \in Slots : x # j => slots'[x] = slots[x]
    <3>1. j \in Slots
      BY <1>8, TouchedFacts
    <3>2. j \in 0..j
      BY <1>5, <3>1
    <3> QED
      BY <1>5, <1>8, <3>1, <3>2, SlotKeys
  <2>2. \A x \in 0..j : x \in Slots
    BY <1>5, <2>1
  <2>3. \A x \in Slots : x > j' => slots'[x] = Blank
    BY <1>4, <1>5, <1>8, <2>1
  <2>4. \A x \in 0..j : slots'[x].key = slots[x].key
    BY <1>8, <2>1, <2>2
  <2>5. Wins(u0)'
    <3>1. \A u \in Used : Key(u) = e.key => u[1] < r
      BY <1>1, <1>8, InOrder, UsedFacts
    <3> QED
      BY <3>1, TopWins
  <2>6. ASSUME NEW x \in 0..j PROVE \E u \in Used' : slots'[x] = runList[u[1]][u[2]] /\ Wins(u)'
    <3>1. CASE x = j
      BY <1>1, <1>2, <2>1, <2>5, <3>1
    <3>2. CASE x # j
      <4>1. slots'[x] = slots[x] /\ slots[x].key # e.key
        BY <1>1, <1>6, <1>8, <2>1, <2>2, <3>2
      <4> QED
        BY <1>7, <1>8, <4>1
    <3> QED
      BY <3>1, <3>2
  <2>7. ASSUME NEW u \in Used' PROVE \E x \in 0..j : slots'[x].key = Key(u)
    BY <1>1, <1>2, <1>4, <2>1, <2>4
  <2>8. \A x \in 0..j' : \A y \in 0..j' : x < y => slots'[x].key < slots'[y].key
    BY <1>4, <1>8, <2>4
  <2>9. j' + 1 <= Cardinality(Used')
    BY <1>2, <1>4, <1>5, <1>8
  <2>10. ResultInv'
    BY <1>1, <1>2, <1>8, <2>3, <2>6, <2>7, <2>8, <2>9 DEF ResultInv
  <2> QED
    BY <1>1, <1>3, <1>5, <1>8, <2>1, <2>10
<1>9. CASE lastKey = e.key /\ lastk >= r /\ slots' = slots /\ j' = j
  <2>1. j \in Slots /\ j \in 0..j /\ slots[j].key = lastKey
    <3>1. j \in Slots
      BY <1>9, TouchedFacts
    <3>2. j \in 0..j
      BY <1>5, <3>1
    <3> QED
      BY <3>1, <3>2, SlotKeys
  <2>2. ASSUME NEW x \in 0..j PROVE \E u \in Used' : slots'[x] = runList[u[1]][u[2]] /\ Wins(u)'
    BY <1>7, <1>9
  <2>3. ASSUME NEW u \in Used' PROVE \E x \in 0..j : slots'[x].key = Key(u)
    BY <1>1, <1>2, <1>4, <1>9, <2>1
  <2>4. j' + 1 <= Cardinality(Used')
    BY <1>2, <1>4, <1>5, <1>9
  <2>5. ResultInv'
    BY <1>1, <1>2, <1>4, <1>9, <2>2, <2>3, <2>4 DEF ResultInv
  <2> QED
    BY <1>1, <1>3, <1>5, <1>9, <2>1, <2>5
<1>10. CASE lastKey # e.key /\ j' = j + 1 /\ slots' = [slots EXCEPT ![j + 1] = e]
  <2>1. j + 1 \in Slots /\ slots'[j + 1] = e /\ \A x \in Slots : x # j + 1 => slots'[x] = slots[x]
    BY <1>5, <1>10, TouchedFacts
  <2>2. \A x \in 0..j : x \in Slots /\ x # j + 1 /\ slots'[x] = slots[x]
    <3>1. \A x \in 0..j : x \in 0..j + 1 /\ x # j + 1
      BY <1>5
    <3> QED
      BY <1>5, <2>1, <3>1
  <2>3. \A x \in 0..j' : x \in 0..j \/ x = j + 1
    BY <1>5, <1>10
  <2>4. \A x \in Slots : x > j' => slots'[x] = Blank
    BY <1>4, <1>5, <1>10, <2>1
  <2>5. \A u \in Used : Key(u) < e.key /\ lastKey < e.key
    BY <1>1, <1>10, InOrder, UsedFacts
  <2>6. ASSUME NEW x \in 0..j PROVE slots[x].key < e.key
    <3>1. PICK u \in Used : slots[x] = runList[u[1]][u[2]]
      BY <1>4
    <3> QED
      BY <2>5, <3>1 DEF Key
  <2>7. Wins(u0)'
    <3>1. \A u \in Used : Key(u) # e.key
      BY <1>1, <2>5, UsedFacts
    <3> QED
      BY <3>1, TopWins
  <2>8. ASSUME NEW x \in 0..j' PROVE \E u \in Used' : slots'[x] = runList[u[1]][u[2]] /\ Wins(u)'
    <3>1. CASE x = j + 1
      BY <1>1, <1>2, <2>1, <2>7, <3>1
    <3>2. CASE x \in 0..j
      BY <1>1, <1>6, <1>7, <2>2, <2>6, <3>2
    <3> QED
      BY <2>3, <3>1, <3>2
  <2>9. ASSUME NEW u \in Used' PROVE \E x \in 0..j' : slots'[x].key = Key(u)
    <3>1. CASE u = u0
      BY <1>1, <1>5, <1>10, <2>1, <3>1
    <3>2. CASE u \in Used
      <4>1. PICK x \in 0..j : slots[x].key = Key(u)
        BY <1>4, <3>2
      <4>2. x \in 0..j'
        BY <1>5, <1>10
      <4> QED
        BY <2>2, <4>1, <4>2
    <3> QED
      BY <1>2, <3>1, <3>2
  <2>10. ASSUME NEW x \in 0..j', NEW y \in 0..j', x < y PROVE slots'[x].key < slots'[y].key
    <3>1. x \in 0..j
      BY <1>5, <1>10, <2>10
    <3>2. CASE y = j + 1
      BY <2>1, <2>2, <2>6, <3>1, <3>2
    <3>3. CASE y \in 0..j
      BY <1>4, <2>2, <2>10, <3>1, <3>3
    <3> QED
      BY <2>3, <3>2, <3>3
  <2>11. j' + 1 <= Cardinality(Used')
    BY <1>2, <1>4, <1>5, <1>10
  <2>12. ResultInv'
    BY <1>1, <1>2, <2>4, <2>8, <2>9, <2>10, <2>11 DEF ResultInv
  <2> QED
    BY <1>1, <1>3, <1>5, <1>10, <2>1, <2>12
<1> QED
  BY <1>3, <1>8, <1>9, <1>10


\* What is left comes after the entry of the turn.
LEMMA TurnLast ==
  ASSUME Inv, BusyInv, pc = "place", Placed, filled = NumMerged
  PROVE  LastInv'
<1> DEFINE r == top.run
           e == top.entry
<1> PICK u0 : u0 = <<r, heads[r]>>
  OBVIOUS
<1>1. /\ r \in Runs /\ r \in Int /\ e.key \in Int /\ e.key \in Keys /\ Key(u0) = e.key /\ u0[1] = r /\ e.key # IntMax
      /\ heads[r] \in 0..Capacity(r) - 1 /\ top = NextOf(r) /\ e = runList[r][heads[r]]
  BY TopFacts
<1>2. Used' = Used \union {u0} /\ \A u : Key(u)' = Key(u)
  BY UsedPlaced
<1>3. lastKey' = e.key /\ lastk' = r /\ lastKey' = slots'[j'].key /\ j' # -1
  <2>1. j' \in Slots /\ Slots \subseteq Nat /\ lastKey' = slots'[j'].key
    BY PlaceResult, TouchedFacts
  <2> QED
    BY <2>1 DEF Placed, Place
<1>4. ASSUME NEW u \in Used' PROVE Key(u) <= e.key /\ (Key(u) = e.key => u[1] <= r)
  <2>1. CASE u \in Used
    <3>1. /\ Key(u) \in Int /\ lastKey \in Int /\ lastk \in Int /\ u[1] \in Int
          /\ Key(u) <= lastKey /\ lastKey <= e.key /\ (Key(u) = lastKey => u[1] <= lastk)
          /\ (lastKey = e.key => lastk <= r)
      BY <2>1, InOrder, UsedFacts
    <3> QED
      BY <1>1, <3>1
  <2>2. CASE u = u0
    BY <1>1, <2>2
  <2> QED
    BY <1>2, <2>1, <2>2
<1>5. heads'[r] = heads[r] + 1 /\ \A k \in Runs : k # r => heads'[k] = heads[k]
  BY <1>1, HeapTypes DEF Placed
<1>6. ASSUME NEW k \in Due' PROVE e.key < runList[k][heads'[k]].key \/ (e.key = runList[k][heads'[k]].key /\ r <= k)
  <2>1. k \in Runs /\ k \in Int /\ heads'[k] < Capacity(k)
    BY DEF Due, Runs, Placed, Capacity
  <2>2. CASE k = r
    <3>1. runList[r][heads[r]].key <= runList[r][heads[r] + 1].key
      <4>1. heads[r] + 1 \in 0..Capacity(r) - 1 /\ heads[r] <= heads[r] + 1
        BY <1>1, <1>5, <2>1, <2>2, RunFacts, HeapTypes
      <4> QED
        BY <1>1, <4>1, RunFacts, HeapTypes
    <3>2. runList[r][heads[r] + 1].key \in Int
      <4>1. runList[r][heads[r] + 1] \in Entries
        BY <1>1, <1>5, <2>1, <2>2, RunFacts, HeapTypes
      <4> QED
        BY <4>1, MergeAssumption DEF Entries
    <3> QED
      BY <1>1, <1>5, <2>2, <3>1, <3>2
  <2>3. CASE k # r
    <3>1. k \in Due \ {r}
      BY <1>5, <2>1, <2>3 DEF Due, Placed
    <3>2. Before(top, NextOf(k))
      BY <3>1 DEF BusyInv, TopInv
    <3>3. NextOf(k).run = k /\ NextOf(k).entry = runList[k][heads[k]] /\ top.run = r
      BY <3>1, NextFacts, HeapTypes
    <3> QED
      BY <1>1, <1>5, <2>1, <2>3, <3>2, <3>3 DEF Before
  <2> QED
    BY <2>2, <2>3
<1>7. \A k : NextOf(k)' = Pair(runList[k][heads'[k]], k)
  BY DEF NextOf, Placed
<1>8. \A k \in Due' : e.key < NextOf(k)'.entry.key \/ (e.key = NextOf(k)'.entry.key /\ r <= k)
  BY <1>6, <1>7 DEF Pair
<1>9. filled' = NumMerged /\ u0 \in Used'
  BY <1>2 DEF Placed
<1>10. (\A u \in Used : Key(u) <= lastKey /\ (Key(u) = lastKey => u[1] <= lastk))'
  BY <1>2, <1>3, <1>4
<1>11. (\E u \in Used : Key(u) = lastKey /\ u[1] = lastk)'
  BY <1>1, <1>2, <1>3, <1>9
<1>12. (\A k \in Due : lastKey < NextOf(k).entry.key \/ (lastKey = NextOf(k).entry.key /\ lastk <= k))'
  BY <1>3, <1>8
<1>13. (lastKey # IntMax /\ j # -1 /\ lastk \in Runs /\ lastKey = slots[j].key /\ filled = NumMerged)'
  BY <1>1, <1>3, <1>9 DEF Runs
<1> HIDE DEF e, r
<1> QED
  BY <1>10, <1>11, <1>12, <1>13, MergeAssumption DEF LastInv

\* The heap after a turn.
LEMMA TurnHeap ==
  ASSUME Inv, BusyInv, pc = "place", Placed, Advance(top.run), filled = NumMerged
  PROVE  /\ PhaseInv' /\ HeldInv' /\ OrderInv' /\ TopInv'
         /\ heads' \in [Runs -> 0..RunSize] /\ arr' = arr /\ size' \in 0..NumMerged /\ at' \in Runs /\ blob' \in Pairs
         /\ pc' \in {"push", "merge"}
<1> USE HeapTypes
<1> DEFINE r == top.run
           h == heads[r]
<1>1. /\ r \in Runs /\ r \in Due /\ r \in Int /\ h \in 0..Capacity(r) - 1 /\ h \in 0..RunSize - 1 /\ RunSize \in Nat
      /\ Capacity(r) \in Nat
  BY TopFacts, RunFacts, MergeAssumption
<1>2. /\ heads'[r] = h + 1 /\ (\A k \in Runs : k # r => heads'[k] = heads[k]) /\ heads' \in [Runs -> 0..RunSize]
      /\ runList' = runList /\ filled' = filled /\ top' = top
  BY <1>1 DEF Placed
<1>3. \A k : Capacity(k)' = Capacity(k)
  BY <1>2 DEF Capacity
<1>4. \A k \in Runs : heads'[k] <= Capacity(k) /\ ~(filled <= k)
  <2>1. \A k \in Runs : heads[k] <= Capacity(k) /\ ~(filled <= k)
    BY DEF BusyInv, PhaseInv, Runs
  <2>2. h + 1 <= Capacity(r)
    BY <1>1
  <2> QED
    BY <1>2, <2>1, <2>2
<1>5. \A k \in Runs : k # r => NextOf(k)' = NextOf(k)
  BY <1>2 DEF NextOf
<1>6. Holds(arr, InHeap, Due \ {r}) /\ \A x \in InHeap \ {0} : Before(arr[Parent(x)], arr[x])
  BY DEF BusyInv, HeldInv, OrderInv
<1>7. size = Cardinality(Due) - 1 /\ Cardinality(Due) \in Nat /\ Cardinality(Due \ {r}) = Cardinality(Due) - 1
      /\ Cardinality(Due) <= NumMerged
  BY <1>1, DueFinite, FS_RemoveElement DEF BusyInv, PhaseInv
<1>8. \A x \in InHeap : arr[x].run \in Runs \ {r}
  BY <1>6 DEF Holds, Due
<1>9. CASE h + 1 < Capacity(r) /\ StartPush(Pair(runList[r][h + 1], r))
  <2>1. blob' = Pair(runList[r][h + 1], r) /\ at' = size /\ size' = size + 1 /\ pc' = "push" /\ arr' = arr
    BY <1>9 DEF StartPush
  <2>2. Due' = Due
    BY <1>1, <1>2, <1>3, <1>9 DEF Due
  <2>3. InHeap' \ {at'} = InHeap /\ at' \in InHeap' /\ at' \in Runs /\ size' \in 0..NumMerged
    BY <1>7, <2>1 DEF InHeap, Runs
  <2>4. blob'.run = r /\ blob' = NextOf(blob.run)'
    BY <1>2, <2>1 DEF NextOf, Pair
  <2>5. blob' \in Pairs
    <3>1. runList[r][h + 1] \in Entries
      BY <1>1, <1>9, RunFacts
    <3> QED
      BY <1>1, <2>1, <3>1 DEF Pairs
  <2>6. size' = Cardinality(Due')
    BY <1>7, <2>1, <2>2
  <2>7. PhaseInv'
    BY <1>2, <1>3, <1>4, <2>1, <2>3, <2>6 DEF PhaseInv
  <2>8. Holds(arr, InHeap \ {at}, Due \ {blob.run})'
    <3>1. \A x \in InHeap : arr[x].run \in Due \ {r} /\ arr[x] = NextOf(arr[x].run)
      BY <1>6 DEF Holds
    <3>2. ASSUME NEW x \in InHeap PROVE arr[x] = Pair(runList'[arr[x].run][heads'[arr[x].run]], arr[x].run)
      BY <1>2, <1>8, <3>1 DEF NextOf
    <3>3. \A x \in InHeap : (arr[x] = NextOf(arr[x].run))'
      BY <2>1, <3>2 DEF NextOf
    <3> QED
      BY <1>6, <2>1, <2>2, <2>3, <2>4, <3>3 DEF Holds
  <2>9. HeldInv'
    BY <1>1, <2>1, <2>2, <2>4, <2>8 DEF HeldInv
  <2>10. OrderInv'
    <3> SUFFICES ASSUME NEW x \in InHeap' \ {0}
                 PROVE  /\ x # at' /\ Parent(x) # at' => Before(arr[Parent(x)], arr[x])
                        /\ Parent(x) # at'
      BY <2>1 DEF OrderInv
    <3>1. x \in Nat /\ x # 0 /\ x <= size
      BY <2>1 DEF InHeap
    <3>2. Parent(x) # size
      BY <3>1, ParentFacts
    <3>3. x # size => x \in InHeap \ {0}
      BY <3>1 DEF InHeap
    <3> QED
      BY <1>6, <2>1, <3>2, <3>3
  <2> QED
    BY <1>2, <2>1, <2>3, <2>5, <2>7, <2>9, <2>10 DEF TopInv
<1>10. CASE h + 1 >= Capacity(r) /\ pc' = "merge" /\ UNCHANGED heapVars
  <2>1. UNCHANGED <<arr, size, at, blob>> /\ InHeap' = InHeap
    BY <1>10 DEF heapVars, InHeap
  <2>2. Due' = Due \ {r}
    BY <1>1, <1>2, <1>3, <1>10 DEF Due
  <2>3. size' = Cardinality(Due')
    BY <1>7, <2>1, <2>2
  <2>4. PhaseInv'
    BY <1>2, <1>3, <1>4, <1>10, <2>1, <2>3 DEF PhaseInv
  <2>5. Holds(arr, InHeap, Due)'
    <3>1. \A x \in InHeap : arr[x].run \in Due \ {r} /\ arr[x] = NextOf(arr[x].run)
      BY <1>6 DEF Holds
    <3>2. ASSUME NEW x \in InHeap PROVE arr[x] = Pair(runList'[arr[x].run][heads'[arr[x].run]], arr[x].run)
      BY <1>2, <1>8, <3>1 DEF NextOf
    <3>3. \A x \in InHeap : (arr[x] = NextOf(arr[x].run))'
      BY <2>1, <3>2 DEF NextOf
    <3> QED
      BY <1>6, <2>1, <2>2, <3>3 DEF Holds
  <2>6. HeldInv' /\ OrderInv' /\ TopInv'
    BY <1>6, <1>10, <2>1, <2>5 DEF HeldInv, OrderInv, TopInv
  <2> QED
    BY <1>2, <1>10, <2>1, <2>4, <2>6
<1> QED
  BY <1>9, <1>10 DEF Advance

\* The rest of a turn.
LEMMA TurnInv == ASSUME Inv, BusyInv, Turn PROVE Inv'
<1>1. pc = "place" /\ UNCHANGED <<inVars, filled, top>>
  BY DEF Turn
<1>2. Place /\ Advance(top.run)
  BY <1>1, TouchedFacts, TopFacts DEF Turn
<1>3. filled = NumMerged /\ UNCHANGED <<runList, lastLevel>>
  BY <1>1 DEF BusyInv, PhaseInv, inVars
<1>4. Placed
  BY <1>1, <1>2, <1>3 DEF Placed, Advance
<1>5. LastInv'
  BY <1>1, <1>3, <1>4, TurnLast
<1>6. ResultInv' /\ j' \in Slots /\ slots' \in [Slots -> Entries \union {Blank}]
  BY <1>1, <1>4, PlaceResult
<1>7. /\ PhaseInv' /\ HeldInv' /\ OrderInv' /\ TopInv' /\ arr' = arr
      /\ heads' \in [Runs -> 0..RunSize] /\ size' \in 0..NumMerged /\ at' \in Runs /\ blob' \in Pairs
      /\ pc' \in {"push", "merge"}
  BY <1>1, <1>2, <1>3, <1>4, TurnHeap
<1>8. lastKey' \in Keys /\ lastk' \in Runs
  BY <1>1, <1>2, TopFacts DEF Place
<1>9. TypeOK'
  BY <1>1, <1>3, <1>6, <1>7, <1>8 DEF Inv, TypeOK
<1> QED
  BY <1>5, <1>6, <1>7, <1>9 DEF Inv, BusyInv, MergesAsLSM


----------------------------------------------------------------------------
(* The result *)

\* The values of a key begin with the one of its first entry.
LEMMA ByKeyFirst ==
  ASSUME NEW array, NEW n \in Nat, NEW x \in 0..n - 1, NEW c \in Keys, array[x].key = c,
         \A y \in 0..n - 1 : array[y].key = c => x <= y
  PROVE  ByKey(array, n)[c] # << >> /\ ByKey(array, n)[c][1] = array[x].value
<1> DEFINE is == {y \in 0..n - 1 : array[y].key = c}
           f == [z \in 1..Cardinality(is) |-> array[Min(is) + z - 1].value]
<1>1. is \in SUBSET Nat /\ x \in is /\ is # {} /\ is \in SUBSET (0..n - 1)
  OBVIOUS
<1>2. IsFiniteSet(is) /\ Cardinality(is) \in Nat
  <2>1. IsFiniteSet(0..n - 1)
    BY FS_Interval
  <2> HIDE DEF is
  <2> QED
    BY <1>1, <2>1, FS_Subset, FS_CardinalityType
<1>3. Cardinality(is) # 0
  <2> HIDE DEF is
  <2> QED
    BY <1>1, <1>2, FS_EmptySet
<1>4. Min(is) = x
  <2>1. Min(is) \in is /\ \A y \in is : Min(is) <= y
    BY <1>1, MinOfNats
  <2>2. Min(is) <= x /\ x <= Min(is) /\ Min(is) \in Nat
    BY <1>1, <2>1
  <2> HIDE DEF is
  <2> QED
    BY <2>2
<1>5. ByKey(array, n)[c] = f
  BY <1>1 DEF ByKey
<1> HIDE DEF is
<1>6. 1 \in 1..Cardinality(is)
  BY <1>2, <1>3
<1>7. f[1] = array[x].value
  BY <1>4, <1>6
<1>8. f # << >>
  <2>1. 1 \in DOMAIN f
    BY <1>6
  <2>2. DOMAIN << >> = {}
    OBVIOUS
  <2> QED
    BY <2>1, <2>2
<1> QED
  BY <1>5, <1>7, <1>8

\* A key without an entry has no value.
LEMMA ByKeyNone ==
  ASSUME NEW array, NEW n, NEW c \in Keys, \A y \in 0..n - 1 : array[y].key # c
  PROVE  ByKey(array, n)[c] = << >>
<1>1. {y \in 0..n - 1 : array[y].key = c} = {}
  OBVIOUS
<1> QED
  BY <1>1 DEF ByKey

\* A key with one entry has one value.
LEMMA ByKeyOnce ==
  ASSUME NEW array, NEW n \in Nat, NEW x \in 0..n - 1, array[x].key \in Keys,
         \A y \in 0..n - 1 : array[y].key = array[x].key => y = x
  PROVE  ByKey(array, n)[array[x].key] = << array[x].value >>
<1> DEFINE c == array[x].key
           is == {y \in 0..n - 1 : array[y].key = c}
           f == [z \in 1..Cardinality(is) |-> array[Min(is) + z - 1].value]
<1>1. is = {x} /\ is # {} /\ is \in SUBSET Nat
  OBVIOUS
<1>2. Cardinality(is) = 1
  BY <1>1, FS_Singleton
<1>3. Min(is) = x
  BY <1>1, MinOfNats
<1>4. ByKey(array, n)[c] = f
  BY <1>1 DEF ByKey
<1> HIDE DEF is, c
<1>5. f = [z \in 1..1 |-> array[x + z - 1].value]
  BY <1>2, <1>3
<1>6. [z \in 1..1 |-> array[x + z - 1].value] = << array[x].value >>
  OBVIOUS
<1> QED
  BY <1>4, <1>5, <1>6 DEF c

\* A run has a value for the keys of its entries.
LEMMA RunByKey ==
  ASSUME RunsTyped, NEW k \in Runs, NEW c \in Keys
  PROVE  ByKey(runList[k], Capacity(k))[c] # << >> <=> \E y \in 0..Capacity(k) - 1 : runList[k][y].key = c
<1>1. Capacity(k) \in Nat
  BY RunFacts
<1>2. ASSUME NEW z \in 0..Capacity(k) - 1, runList[k][z].key = c
      PROVE  ByKey(runList[k], Capacity(k))[c] # << >>
  <2> DEFINE S == {y \in 0..Capacity(k) - 1 : runList[k][y].key = c}
  <2>1. S \in SUBSET Nat /\ S # {}
    BY <1>1, <1>2
  <2>2. PICK m \in S : \A y \in S : m <= y
    BY <2>1, MinOfNats
  <2>3. m \in 0..Capacity(k) - 1 /\ runList[k][m].key = c
        /\ \A y \in 0..Capacity(k) - 1 : runList[k][y].key = c => m <= y
    BY <2>2
  <2> HIDE DEF S
  <2> QED
    BY <1>1, <2>3, ByKeyFirst
<1> QED
  BY <1>2, ByKeyNone

Merged == HeapMerge([i \in 1..NumMerged |-> ByKey(runList[i - 1], Capacity(i - 1))])

\* When the heap is empty every entry has been placed.
LEMMA AllUsed ==
  ASSUME Inv, BusyInv, pc = "merge", size = 0
  PROVE  /\ \A k \in Runs : \A x \in 0..Capacity(k) - 1 : <<k, x>> \in Used
         /\ j \in Slots /\ j \in Nat
<1> USE HeapTypes
<1>1. Due = {}
  <2>1. Cardinality(Due) = 0
    BY DueFinite DEF BusyInv, PhaseInv
  <2> QED
    BY <2>1, DueFinite, FS_EmptySet
<1>2. ASSUME NEW k \in Runs, NEW x \in 0..Capacity(k) - 1 PROVE <<k, x>> \in Used
  <2>1. filled = NumMerged /\ k < NumMerged /\ heads[k] \in Nat /\ Capacity(k) \in 1..RunSize /\ RunSize \in Nat
    BY RunFacts, MergeAssumption DEF BusyInv, PhaseInv, Runs
  <2>2. ~(heads[k] < Capacity(k))
    BY <1>1, <2>1 DEF Due
  <2> QED
    BY <2>1, <2>2 DEF Used
<1>3. PICK u : u \in Used
  <2>1. 0 \in Runs /\ 0 \in 0..Capacity(0) - 1
    BY RunFacts DEF Runs
  <2> QED
    BY <1>2, <2>1
<1>4. PICK x \in 0..j : slots[x].key = Key(u)
  BY <1>3 DEF BusyInv, ResultInv
<1>5. j \in Slots /\ j \in Nat
  <2>1. j \in Slots \union {-1} /\ Slots \subseteq Nat
    BY UsedSize DEF Inv, TypeOK, Slots
  <2>2. x \in Int /\ 0 <= x /\ x <= j
    BY <2>1, SlotKeys
  <2> QED
    BY <2>1, <2>2
<1> QED
  BY <1>2, <1>5

\* Then the new run has what HeapMerge takes from the runs.
LEMMA ResultIsMerged ==
  ASSUME Inv, BusyInv, pc = "merge", size = 0
  PROVE  ByKey(slots, j + 1) = Merged
<1> USE HeapTypes
<1> DEFINE runs == [i \in 1..NumMerged |-> ByKey(runList[i - 1], Capacity(i - 1))]
<1>1. /\ DOMAIN runs = 1..NumMerged /\ \A i \in 1..NumMerged : runs[i] = ByKey(runList[i - 1], Capacity(i - 1))
      /\ \A i \in 1..NumMerged : i - 1 \in Runs
  BY DEF Runs
<1>2. Merged = HeapMerge(runs)
  BY DEF Merged
<1> HIDE DEF runs
<1>3. j \in Nat /\ (j + 1) - 1 = j /\ j + 1 \in Nat
  BY AllUsed
<1>4. ASSUME NEW c \in Keys PROVE ByKey(slots, j + 1)[c] = HeapMerge(runs)[c]
  <2> DEFINE holders == {i \in DOMAIN runs : runs[i][c] # << >>}
  <2>1. HeapMerge(runs)[c] = IF holders = {} THEN << >> ELSE << runs[Max(holders)][c][1] >>
    BY DEF HeapMerge
  <2>2. ASSUME NEW i \in holders PROVE \E u \in Used : Key(u) = c /\ u[1] = i - 1
    <3>1. i \in 1..NumMerged /\ i - 1 \in Runs /\ ByKey(runList[i - 1], Capacity(i - 1))[c] # << >>
      BY <1>1, <2>2
    <3>2. PICK y \in 0..Capacity(i - 1) - 1 : runList[i - 1][y].key = c
      BY <3>1, RunByKey
    <3>3. <<i - 1, y>> \in Used
      BY <3>1, <3>2, AllUsed
    <3> QED
      BY <3>2, <3>3 DEF Key
  <2>3. CASE \E x \in 0..j : slots[x].key = c
    <3>1. PICK x \in 0..j : slots[x].key = c
      BY <2>3
    <3>2. \A y \in 0..j : slots[y].key = slots[x].key => y = x
      <4>1. \A y, z \in 0..j : y < z => slots[y].key < slots[z].key
        BY DEF BusyInv, ResultInv
      <4>2. \A y \in 0..j : y \in Int /\ slots[y].key \in Int
        BY SlotKeys
      <4> QED
        BY <4>1, <4>2
    <3>3. ByKey(slots, j + 1)[c] = << slots[x].value >>
      BY <1>3, <3>1, <3>2, ByKeyOnce
    <3>4. PICK u \in Used : slots[x] = runList[u[1]][u[2]] /\ Wins(u)
      BY DEF BusyInv, ResultInv
    <3> DEFINE k == u[1]
               y == u[2]
    <3>5. k \in Runs /\ k \in Int /\ y \in 0..Capacity(k) - 1 /\ Key(u) = c /\ runList[k][y].key = c
      BY <3>1, <3>4, UsedFacts DEF Key
    <3>6. \A z \in 0..Capacity(k) - 1 : runList[k][z].key = c => y <= z
      <4> SUFFICES ASSUME NEW z \in 0..Capacity(k) - 1, runList[k][z].key = c, z < y PROVE FALSE
        BY <3>5, RunFacts
      <4>1. y - 1 \in 0..Capacity(k) - 1 /\ z <= y - 1 /\ y # 0
        BY <3>5, RunFacts
      <4>2. runList[k][y - 1].key < c
        BY <3>4, <3>5, <4>1 DEF Wins
      <4>3. runList[k][z].key <= runList[k][y - 1].key
        BY <3>5, <4>1, RunFacts
      <4>4. runList[k][y - 1].key \in Int /\ c \in Int
        <5>1. runList[k][y - 1] \in Entries
          BY <3>5, <4>1, RunFacts
        <5> QED
          BY <5>1, MergeAssumption DEF Entries
      <4> QED
        BY <4>2, <4>3, <4>4
    <3>7. ByKey(runList[k], Capacity(k))[c] # << >> /\ ByKey(runList[k], Capacity(k))[c][1] = runList[k][y].value
      <4>1. Capacity(k) \in Nat
        BY <3>5, RunFacts
      <4> HIDE DEF k, y
      <4> QED
        BY <3>5, <3>6, <4>1, ByKeyFirst
    <3>8. k + 1 \in holders /\ runs[k + 1][c][1] = runList[k][y].value
      <4>1. k + 1 \in 1..NumMerged /\ (k + 1) - 1 = k
        BY <3>5 DEF Runs
      <4>2. runs[k + 1] = ByKey(runList[k], Capacity(k))
        BY <1>1, <4>1
      <4> QED
        BY <1>1, <3>7, <4>1, <4>2
    <3>9. \A i \in holders : i \in Int /\ i <= k + 1
      <4> SUFFICES ASSUME NEW i \in holders PROVE i \in Int /\ i <= k + 1
        OBVIOUS
      <4>1. i \in Int
        BY <1>1
      <4>2. PICK w \in Used : Key(w) = c /\ w[1] = i - 1
        BY <2>2
      <4>3. w[1] <= k
        BY <3>4, <3>5, <4>2 DEF Wins
      <4> QED
        BY <3>5, <4>1, <4>2, <4>3
    <3> HIDE DEF holders, k, y
    <3>10. Max(holders) = k + 1
      <4>1. k \in Int
        BY <3>5
      <4> QED
        BY <3>8, <3>9, <4>1 DEF Max
    <3> QED
      BY <2>1, <3>3, <3>4, <3>8, <3>10 DEF k, y
  <2>4. CASE ~ \E x \in 0..j : slots[x].key = c
    <3>1. ByKey(slots, j + 1)[c] = << >>
      BY <1>3, <2>4, ByKeyNone
    <3>2. holders = {}
      <4> SUFFICES ASSUME NEW i \in holders PROVE FALSE
        OBVIOUS
      <4>1. PICK w \in Used : Key(w) = c
        BY <2>2
      <4> QED
        BY <2>4, <4>1 DEF BusyInv, ResultInv
    <3> QED
      BY <2>1, <3>1, <3>2
  <2> QED
    BY <2>3, <2>4
<1>5. ByKey(slots, j + 1) = [c \in Keys |-> ByKey(slots, j + 1)[c]] /\ HeapMerge(runs) = [c \in Keys |-> HeapMerge(runs)[c]]
  BY DEF ByKey, HeapMerge
<1> QED
  BY <1>2, <1>4, <1>5


\* Its last entry is the one of the greatest key.
LEMMA MergedLast ==
  ASSUME Inv, BusyInv, pc = "merge", size = 0
  PROVE  /\ \A x \in 0..j : slots[x].key \in Keys
         /\ Max(KeysOf(Merged)) = slots[j].key
         /\ Merged[slots[j].key] = << slots[j].value >>
<1>1. j \in Slots /\ j \in Nat /\ j + 1 \in Nat /\ (j + 1) - 1 = j
  BY AllUsed
<1>2. ASSUME NEW x \in 0..j PROVE slots[x].key \in Keys
  <2>1. PICK u \in Used : slots[x] = runList[u[1]][u[2]]
    BY DEF BusyInv, ResultInv
  <2> QED
    BY <2>1, UsedFacts DEF Key
<1>3. \A x \in 0..j : slots[x].key = slots[j].key => x = j
  <2> SUFFICES ASSUME NEW x \in 0..j, slots[x].key = slots[j].key PROVE x = j
    OBVIOUS
  <2>1. slots[x].key \in Int /\ slots[j].key = lastKey /\ lastKey \in Int /\ (x # j => slots[x].key < lastKey)
    BY SlotKeys
  <2> QED
    BY <2>1
<1>4. ByKey(slots, j + 1)[slots[j].key] = << slots[j].value >>
  <2>1. j \in 0..(j + 1) - 1 /\ slots[j].key \in Keys
    BY <1>1, <1>2
  <2> QED
    BY <1>1, <1>3, <2>1, ByKeyOnce
<1>5. \A c \in KeysOf(Merged) : c \in Int /\ c <= slots[j].key
  <2> SUFFICES ASSUME NEW c \in Keys, ByKey(slots, j + 1)[c] # << >> PROVE c \in Int /\ c <= slots[j].key
    BY ResultIsMerged DEF KeysOf
  <2>1. PICK x \in 0..j : slots[x].key = c
    BY <1>1, ByKeyNone
  <2> QED
    BY <2>1, SlotKeys
<1>6. slots[j].key \in KeysOf(Merged)
  <2>1. << slots[j].value >> # << >>
    OBVIOUS
  <2>2. slots[j].key \in Keys
    BY <1>1, <1>2
  <2>3. Merged[slots[j].key] # << >>
    BY <1>4, <2>1, ResultIsMerged
  <2> QED
    BY <2>2, <2>3 DEF KeysOf
<1>7. Max(KeysOf(Merged)) = slots[j].key
  <2> DEFINE S == KeysOf(Merged)
             m == slots[j].key
  <2>1. m \in S /\ \A c \in S : c \in Int /\ c <= m
    BY <1>5, <1>6
  <2> HIDE DEF S, m
  <2>2. Max(S) = m
    BY <2>1 DEF Max
  <2> QED
    BY <2>2 DEF S, m
<1> QED
  BY <1>2, <1>4, <1>7, ResultIsMerged

\* And taking a tombstone away there is what LSM takes for a last level.
LEMMA DropsLast ==
  ASSUME Inv, BusyInv, pc = "merge", size = 0, slots[j].value = Tombstone
  PROVE  ByKey(slots, j) = DropLastTombstone(Merged)
<1>1. j \in Nat /\ j \in Int /\ j + 1 \in Nat /\ (j + 1) - 1 = j /\ 0..j = 0..(j - 1) \union {j}
  BY AllUsed
<1> DEFINE m == slots[j].key
<1>2. m \in Keys /\ Max(KeysOf(Merged)) = m /\ Merged[m] = << Tombstone >>
  BY <1>1, MergedLast
<1> HIDE DEF m
<1>3. DropLastTombstone(Merged) = [Merged EXCEPT ![m] = << >>]
  BY <1>2 DEF DropLastTombstone
<1>4. Merged = ByKey(slots, j + 1)
  BY ResultIsMerged
<1>5. ASSUME NEW c \in Keys, c # m PROVE ByKey(slots, j)[c] = ByKey(slots, j + 1)[c]
  <2>1. {x \in 0..j - 1 : slots[x].key = c} = {x \in 0..(j + 1) - 1 : slots[x].key = c}
    BY <1>1, <1>5 DEF m
  <2> QED
    BY <2>1 DEF ByKey
<1>6. ByKey(slots, j)[m] = << >>
  <2>1. \A x \in 0..j - 1 : slots[x].key # m
    <3> SUFFICES ASSUME NEW x \in 0..j - 1, slots[x].key = m PROVE FALSE
      OBVIOUS
    <3>1. x \in 0..j /\ x # j
      BY <1>1
    <3>2. slots[x].key \in Int /\ slots[x].key < lastKey /\ lastKey = m
      BY <3>1, SlotKeys DEF m
    <3> QED
      BY <3>2
  <2> QED
    BY <1>2, <2>1, ByKeyNone
<1>7. ByKey(slots, j) = [c \in Keys |-> ByKey(slots, j)[c]] /\ Merged = [c \in Keys |-> Merged[c]]
  <2>1. \A n : ByKey(slots, n) = [c \in Keys |-> ByKey(slots, n)[c]]
    BY DEF ByKey
  <2> QED
    BY <1>4, <2>1
<1> DEFINE F == [Merged EXCEPT ![m] = << >>]
<1>8. F = [c \in Keys |-> IF c = m THEN << >> ELSE Merged[c]]
  BY <1>7
<1>9. \A c \in Keys : ByKey(slots, j)[c] = IF c = m THEN << >> ELSE Merged[c]
  BY <1>4, <1>5, <1>6
<1> QED
  BY <1>3, <1>7, <1>8, <1>9

\* addRuns ends with the result of the merge.
LEMMA FinishInv == ASSUME Inv, BusyInv, Finish PROVE Inv'
<1>1. pc = "merge" /\ size = 0 /\ UNCHANGED <<inVars, heapVars, filled, heads, slots, lastKey, lastk, top>>
  BY DEF Finish
<1>2. j \in Slots /\ j \in Nat /\ j - 1 \in Slots \union {-1} /\ NumMerged * RunSize \in Nat
  <2>1. j \in Slots /\ j \in Nat /\ NumMerged * RunSize \in Nat
    BY <1>1, AllUsed, UsedSize
  <2> QED
    BY <2>1 DEF Slots
<1>3. /\ j' = IF lastLevel /\ slots[j].value = Tombstone THEN j - 1 ELSE j
      /\ pc' \in {"done", "index_underflow"}
  BY <1>2 DEF Finish
<1>4. UNCHANGED <<runList, lastLevel, slots>>
  BY <1>1 DEF inVars
<1>5. j' \in Slots \union {-1} /\ j' <= j /\ j' \in Int
  <2>1. j' = j \/ j' = j - 1
    BY <1>3
  <2> QED
    BY <1>2, <2>1
<1>6. TypeOK'
  BY <1>1, <1>3, <1>5 DEF Inv, TypeOK, inVars, heapVars
<1>7. \A x \in 0..j' : x > 0 => slots'[x - 1].key < slots'[x].key
  <2> SUFFICES ASSUME NEW x \in 0..j', x > 0 PROVE slots[x - 1].key < slots[x].key
    BY <1>4
  <2>1. x - 1 \in 0..j /\ x \in 0..j /\ x - 1 < x
    BY <1>2, <1>5
  <2> QED
    BY <2>1 DEF BusyInv, ResultInv
<1>8. Merged' = Merged
  BY <1>4 DEF Merged, Capacity, ByKey
<1>9. ByKey(slots', j' + 1) = IF lastLevel THEN DropLastTombstone(Merged) ELSE Merged
  <2>1. CASE lastLevel /\ slots[j].value = Tombstone
    <3>1. j' + 1 = j
      BY <1>2, <1>3, <2>1
    <3> QED
      BY <1>1, <1>4, <2>1, <3>1, DropsLast
  <2>2. CASE lastLevel /\ slots[j].value # Tombstone
    <3>1. Merged[Max(KeysOf(Merged))] # << Tombstone >>
      BY <1>1, <2>2, MergedLast
    <3>2. DropLastTombstone(Merged) = Merged
      BY <3>1 DEF DropLastTombstone
    <3> QED
      BY <1>1, <1>3, <1>4, <2>2, <3>2, ResultIsMerged
  <2>3. CASE ~lastLevel
    BY <1>1, <1>3, <1>4, <2>3, ResultIsMerged
  <2> QED
    BY <2>1, <2>2, <2>3
<1>10. MergesAsLSM'
  <2>1. ByKey(slots, j + 1)' = ByKey(slots', j' + 1)
    BY DEF ByKey
  <2>2. ByKey(slots, j + 1)' = (IF lastLevel THEN DropLastTombstone(Merged) ELSE Merged)'
    BY <1>4, <1>8, <1>9, <2>1 DEF DropLastTombstone, KeysOf
  <2> QED
    BY <1>7, <2>2 DEF MergesAsLSM, Merged
<1> QED
  BY <1>3, <1>6, <1>10 DEF Inv

----------------------------------------------------------------------------
(* The theorems *)

\* Before the merge the heap is empty.
LEMMA InitInv == ASSUME Init PROVE Inv
<1>0. /\ RunsTyped /\ lastLevel \in BOOLEAN
      /\ arr = [i \in Runs |-> MaxPair] /\ size = 0 /\ at = 0 /\ blob = MaxPair
      /\ filled = 0 /\ heads = [i \in Runs |-> 0] /\ slots = [i \in Slots |-> Blank]
      /\ j = -1 /\ lastKey = IntMax /\ lastk = IntMax + 1 /\ top = MaxPair /\ pc = "fill"
  BY Zenon DEF Init, RunsTyped
<1> USE <1>0
<1>1. NumMerged \in Nat /\ NumMerged > 0 /\ RunSize \in Nat /\ NumMerged * RunSize \in Nat
  BY MergeAssumption, UsedSize
<1>2. TypeOK
  <2>1. RunSize >= 0 /\ 0 \in 0..NumMerged /\ 0 \in 0..RunSize /\ 0 \in Runs
    BY <1>1 DEF Runs
  <2>2. arr \in [Runs -> Pairs] /\ heads \in [Runs -> 0..RunSize] /\ slots \in [Slots -> Entries \union {Blank}]
    BY <2>1 DEF Pairs
  <2> QED
    BY <2>1, <2>2 DEF TypeOK, Pairs, RunsTyped
<1>3. Due = {} /\ Used = {} /\ InHeap = {}
  <2>1. Due = {}
    BY <1>1 DEF Due, Runs
  <2>2. \A u \in Runs \X (0..RunSize - 1) : ~(u[2] < heads[u[1]])
    BY <1>1
  <2>3. InHeap = {}
    BY DEF InHeap
  <2> QED
    BY <2>1, <2>2, <2>3 DEF Used
<1>4. PhaseInv
  <2>1. \A k \in Runs : heads[k] = 0 /\ 0 <= Capacity(k)
    <3> SUFFICES ASSUME NEW k \in Runs PROVE heads[k] = 0 /\ 0 <= Capacity(k)
      OBVIOUS
    <3>1. Capacity(k) \in Nat
      BY RunFacts
    <3> QED
      BY <3>1
  <2>2. Cardinality(Due) = 0
    BY <1>3, FS_EmptySet
  <2>3. size = Cardinality(Due) - (IF pc \in {"heapify", "place"} THEN 1 ELSE 0)
    <3>1. (IF pc \in {"heapify", "place"} THEN 1 ELSE 0) = 0
      OBVIOUS
    <3>2. 0 = 0 - 0
      OBVIOUS
    <3> QED
      BY <2>2, <3>1, <3>2
  <2>4. \A k \in Runs : heads[k] <= Capacity(k) /\ (filled <= k => heads[k] = 0)
    BY <2>1
  <2> QED
    BY <1>1, <2>3, <2>4 DEF PhaseInv
<1>5. HeldInv /\ OrderInv /\ TopInv
  BY <1>3 DEF HeldInv, Holds, OrderInv, TopInv
<1>6. LastInv
  BY <1>1, <1>3 DEF LastInv
<1>7. ResultInv
  BY <1>1, <1>3, UsedSize DEF ResultInv
<1> QED
  BY <1>2, <1>4, <1>5, <1>6, <1>7 DEF Inv, BusyInv, MergesAsLSM

\* Every step keeps the invariant.
LEMMA NextInv == ASSUME Inv, [Next]_vars PROVE Inv'
<1>1. CASE UNCHANGED vars
  <2>1. UNCHANGED <<runList, lastLevel, arr, size, at, blob, filled, heads, slots, j, lastKey, lastk, top, pc>>
    BY <1>1 DEF vars, inVars, heapVars, outVars
  <2>2. Due' = Due /\ Used' = Used /\ InHeap' = InHeap
    BY <2>1 DEF Due, Used, InHeap, Capacity
  <2>3. TypeOK'
    BY <2>1 DEF Inv, TypeOK
  <2>4. MergesAsLSM'
    <3>1. Merged' = Merged
      BY <2>1 DEF Merged, Capacity, ByKey, HeapMerge
    <3>2. ByKey(slots, j + 1)' = ByKey(slots, j + 1)
      BY <2>1 DEF ByKey
    <3>3. DropLastTombstone(Merged)' = DropLastTombstone(Merged)
      BY <3>1 DEF DropLastTombstone, KeysOf
    <3>4. MergesAsLSM <=> (pc \in {"done", "index_underflow"} =>
            /\ \A i \in 0..j : i > 0 => slots[i - 1].key < slots[i].key
            /\ ByKey(slots, j + 1) = IF lastLevel THEN DropLastTombstone(Merged) ELSE Merged)
      BY DEF MergesAsLSM, Merged
    <3>5. MergesAsLSM' <=> (pc' \in {"done", "index_underflow"} =>
            /\ \A i \in 0..j' : i > 0 => slots'[i - 1].key < slots'[i].key
            /\ ByKey(slots, j + 1)' = IF lastLevel' THEN DropLastTombstone(Merged)' ELSE Merged')
      BY DEF MergesAsLSM, Merged
    <3> QED
      BY <2>1, <3>1, <3>2, <3>3, <3>4, <3>5 DEF Inv
  <2>5. ASSUME BusyInv PROVE BusyInv'
    <3>1. PhaseInv' /\ TopInv'
      BY <2>1, <2>2, <2>5 DEF BusyInv, PhaseInv, TopInv, NextOf, Capacity
    <3>2. HeldInv'
      BY <2>1, <2>2, <2>5 DEF BusyInv, HeldInv, Holds, NextOf
    <3>3. OrderInv'
      BY <2>1, <2>2, <2>5 DEF BusyInv, OrderInv
    <3>4. LastInv' /\ ResultInv'
      BY <2>1, <2>5, ResultFrame DEF BusyInv, outVars
    <3> QED
      BY <3>1, <3>2, <3>3, <3>4 DEF BusyInv
  <2> QED
    BY <2>1, <2>3, <2>4, <2>5 DEF Inv
<1>2. CASE Over
  BY <1>1, <1>2 DEF Over
<1>3. CASE Fill \/ Push \/ Pop \/ Heapify \/ Turn \/ Finish
  <2>1. BusyInv
    BY <1>3 DEF Inv, Fill, Push, Pop, Heapify, Turn, Finish
  <2>2. CASE Fill
    BY <2>1, <2>2, FillInv
  <2>3. CASE Push
    <3>1. pc = "push" /\ UNCHANGED <<inVars, size, filled, heads, outVars, top>>
      BY <2>3 DEF Push
    <3>2. CASE Rises /\ arr' = [arr EXCEPT ![at] = arr[Parent(at)]] /\ at' = Parent(at) /\ UNCHANGED <<blob, pc>>
      BY <2>1, <3>1, <3>2, RiseInv
    <3>3. CASE /\ ~Rises /\ arr' = [arr EXCEPT ![at] = blob] /\ at' = 0 /\ blob' = MaxPair
               /\ pc' = IF filled < NumMerged THEN "fill" ELSE "merge"
      BY <2>1, <3>1, <3>3, SettleInv
    <3> QED
      BY <2>3, <3>2, <3>3 DEF Push
  <2>4. CASE Pop
    BY <2>1, <2>4, PopInv
  <2>5. CASE Heapify
    <3>1. pc = "heapify" /\ UNCHANGED <<inVars, size, blob, filled, heads, outVars, top>>
      BY <2>5 DEF Heapify
    <3>2. PICK s : s = Smallest(at)
      OBVIOUS
    <3>3. CASE s # at /\ arr' = [arr EXCEPT ![at] = arr[s], ![s] = arr[at]] /\ at' = s /\ UNCHANGED pc
      BY <2>1, <3>1, <3>2, <3>3, SwapInv
    <3>4. CASE s = at /\ at' = 0 /\ pc' = "place" /\ UNCHANGED arr
      BY <2>1, <3>1, <3>2, <3>4, SunkInv
    <3> QED
      BY <2>5, <3>2, <3>3, <3>4 DEF Heapify
  <2>6. CASE Turn
    BY <2>1, <2>6, TurnInv
  <2>7. CASE Finish
    BY <2>1, <2>7, FinishInv
  <2> QED
    BY <1>3, <2>2, <2>3, <2>4, <2>5, <2>6, <2>7
<1> QED
  BY <1>1, <1>2, <1>3 DEF Next


\* Inv holds in every state.
LEMMA Invariance == Spec => []Inv
<1>1. Init => Inv
  BY InitInv
<1>2. Inv /\ [Next]_vars => Inv'
  BY NextInv
<1> QED
  BY <1>1, <1>2, PTL DEF Spec

\* Every variable of the merge keeps its type: the loops of push and heapify stay in
\* the array of the heap, however many runs there are.
THEOREM MergeTypeCorrect == Spec => []TypeOK
<1>1. Inv => TypeOK
  BY DEF Inv
<1> QED
  BY <1>1, Invariance, PTL

\* addRuns never reads or writes outside the new run: there are never more entries
\* than slots, and the array has one by the time its last entry is looked at.
THEOREM MergeStaysInFile == Spec => []StaysInFile
<1>1. Inv => StaysInFile
  BY DEF Inv, BusyInv, PhaseInv, StaysInFile
<1> QED
  BY <1>1, Invariance, PTL

\* Before a turn the heap is a heap of the next entries of all runs that are not
\* used up, and the entry of a turn comes before all that are left and is no filler.
THEOREM HeapGivesLeast == Spec => []HeapInv
<1>1. ASSUME Inv PROVE HeapInv
  <2> USE HeapTypes
  <2>1. ASSUME pc = "merge" PROVE \A i \in 1..size - 1 : Before(arr[Parent(i)], arr[i])
    <3>1. BusyInv /\ \A i \in 1..size - 1 : i \in InHeap \ {0}
      BY <1>1, <2>1 DEF Inv, InHeap
    <3> QED
      BY <2>1, <3>1 DEF BusyInv, OrderInv
  <2>2. ASSUME pc = "merge"
        PROVE  {arr[i] : i \in 0..size - 1} =
                 {Pair(runList[k][heads[k]], k) : k \in {k \in Runs : heads[k] < Capacity(k)}}
    <3>1. BusyInv
      BY <1>1, <2>2 DEF Inv
    <3>2. Due = {k \in Runs : heads[k] < Capacity(k)}
      BY <1>1, <2>2, <3>1 DEF BusyInv, PhaseInv, Due
    <3>3. Holds(arr, InHeap, Due)
      BY <2>2, <3>1 DEF BusyInv, HeldInv
    <3>4. \A i \in InHeap : arr[i].run \in Due /\ arr[i] = NextOf(arr[i].run)
      BY <3>3 DEF Holds
    <3>5. \A k \in Due : \E i \in InHeap : arr[i] = NextOf(k)
      BY <3>3, <3>4 DEF Holds
    <3>6. {arr[i] : i \in InHeap} = {NextOf(k) : k \in Due}
      BY <3>4, <3>5
    <3> QED
      BY <3>2, <3>6 DEF InHeap, NextOf
  <2>3. ASSUME pc = "place", NEW i \in 0..size - 1 PROVE Before(top, arr[i])
    <3>1. BusyInv
      BY <1>1, <2>3 DEF Inv
    <3>2. Holds(arr, InHeap, Due \ {top.run}) /\ \A k \in Due \ {top.run} : Before(top, NextOf(k))
      BY <2>3, <3>1 DEF BusyInv, HeldInv, TopInv
    <3> QED
      BY <3>2 DEF Holds, InHeap
  <2>4. pc # "aborted"
    BY <1>1 DEF Inv, BusyInv, PhaseInv
  <2> QED
    BY <2>1, <2>2, <2>3, <2>4 DEF HeapInv
<1> QED
  BY <1>1, Invariance, PTL

\* The loop over the heap makes the run that LSM's HeapMerge and DropLastTombstone
\* calculate in one step: sorted, one entry per key, the first one of the newest run.
THEOREM MergeIsHeapMerge == Spec => []MergesAsLSM
<1>1. Inv => MergesAsLSM
  BY DEF Inv
<1> QED
  BY <1>1, Invariance, PTL
=============================================================================
