--------------------------- MODULE HashTableProofs ---------------------------
(***************************************************************************)
(* Theorems about HashTable, for every finite set of keys, every hash and  *)
(* every initial size.  The table keeps its entries apart and reachable    *)
(* by induction over the turns of its loops; in the middle of resize the   *)
(* old table has all of them, and the new one those already copied.  A key *)
(* whose value is 1 can be lost there: it is stored, but not in Kept.      *)
(***************************************************************************)
EXTENDS HashTable, FiniteSetTheorems, TLAPS

----------------------------------------------------------------------------
(* The inductive invariant *)

\* The slots of array t, of n slots, that are not free.
Taken(t, n) == {s \in 0..n - 1 : t[s] # EMPTY}

\* Slot in a table of n slots.
SlotOf(k, d, n) == ((Hash[k] % n) + d) % n

\* Every entry of t has a key of its own that was stored, and the value that f has for
\* it if the key is in K.
FirstOnes(t, n, f, K) ==
  /\ \A s \in Taken(t, n) :
       /\ t[s].key \in Keys /\ f[t[s].key] # Nothing
       /\ t[s].key \in K => t[s].value = f[t[s].key]
  /\ \A r, s \in Taken(t, n) : t[r].key = t[s].key => r = s

\* The probes for k come to its entry before a free slot.
Reached(t, n, k, v) ==
  \E d \in 0..n - 1 :
    /\ t[SlotOf(k, d, n)] = Entry(k, v)
    /\ \A c \in 0..d - 1 : t[SlotOf(k, c, n)] # EMPTY

\* All entries of t are reached.
AllReached(t, n) == \A s \in Taken(t, n) : Reached(t, n, t[s].key, t[s].value)

\* Table t has the keys of K with their values in f.
Has(t, n, f, K) == \A k \in K : \E s \in Taken(t, n) : t[s].key = k /\ t[s].value = f[k]

Stored == {k \in Keys : first[k] # Nothing}

\* EMPTY is never the first entry of a key.
FirstInv == \A k \in Stored : Entry(k, first[k]) # EMPTY

CallInv ==
  /\ pc # "ready" => key \in Keys /\ val \in Values /\ ret = Nothing
  /\ pc # "resize" => i = 0
  /\ pc = "resize" => size = 2 * (size \div 2) /\ size > InitialSize /\ (i = size \div 2 => j = 0)

\* What _elts counts: the keys, the EMPTYs that were put and the keys that were lost.
CountInv ==
  /\ elts <= MaxElts + Cardinality(Stored)
  /\ pc # "ready" /\ Bounded(key, val) => elts < MaxElts
  /\ Cardinality(Taken(table, IF pc = "resize" THEN size \div 2 ELSE size)) <= elts

\* A table that is not being resized.
WholeInv ==
  pc # "resize" =>
    /\ FirstOnes(table, size, first, Kept)
    /\ AllReached(table, size)
    /\ Has(table, size, first, Kept)

\* The probes of putIfEmpty so far.
ProbeInv ==
  pc = "probe" =>
    \A c \in 0..j - 1 : table[SlotOf(key, c, size)] # EMPTY /\ table[SlotOf(key, c, size)].key # key

\* The entries of the old table that resize has copied.
Copied == {s \in Taken(table, size \div 2) : s < i /\ table[s].value # 1}

\* Two tables, in the middle of resize.
ResizeInv ==
  pc = "resize" =>
    /\ FirstOnes(table, size \div 2, first, Kept)
    /\ Has(table, size \div 2, first, Kept)
    /\ FirstOnes(newTable, size, first, Kept)
    /\ \A s \in Copied : Reached(newTable, size, table[s].key, table[s].value)
    /\ \A r \in Taken(newTable, size) : \E s \in Copied : table[s] = newTable[r]
    /\ i < size \div 2 /\ table[i] # EMPTY =>
         \A c \in 0..j - 1 : newTable[SlotOf(table[i].key, c, size)] # EMPTY
    /\ Cardinality(Taken(newTable, size)) <= Cardinality(Copied)

Inv == TypeOK /\ FirstInv /\ CallInv /\ CountInv /\ WholeInv /\ ProbeInv /\ ResizeInv

----------------------------------------------------------------------------
(* Tables *)

\* Every probe is of a slot of the table.
LEMMA SlotInTable ==
  ASSUME NEW k \in Keys \union {IntMin}, NEW d \in Nat, NEW n \in Nat, n > 0
  PROVE  SlotOf(k, d, n) \in 0..n - 1
<1>1. Hash[k] \in Nat
  BY TableAssumption
<1>2. Hash[k] % n \in Nat
  BY <1>1
<1> QED
  BY <1>2 DEF SlotOf

\* The slots that are taken can be counted.
LEMMA TakenFinite ==
  ASSUME NEW t, NEW n \in Nat
  PROVE  IsFiniteSet(Taken(t, n)) /\ Cardinality(Taken(t, n)) \in Nat
<1>1. IsFiniteSet(0..n - 1)
  BY FS_Interval
<1>2. Taken(t, n) \in SUBSET (0..n - 1)
  BY DEF Taken
<1> QED
  BY <1>1, <1>2, FS_Subset, FS_CardinalityType

\* operator!= finds an entry everywhere but where the value is 1.
LEMMA OccupiedBut1 ==
  ASSUME NEW e, e.value \in Int
  PROVE  Occupied(e) <=> e.value # 1
<1>1. IntMin \in Int /\ IntMin < 0
  BY TableAssumption
<1>2. Bit(EMPTY.key # e.key) # EMPTY.value
  BY <1>1 DEF Bit, EMPTY, Entry
<1>3. Bit(Bit(EMPTY.key # e.key) # EMPTY.value) = 1
  BY <1>2 DEF Bit
<1> QED
  BY <1>3 DEF Occupied

\* What is in the slots of a table.
LEMMA SlotTyped ==
  ASSUME NEW n \in Nat, NEW t \in Tables(n), NEW s \in 0..n - 1
  PROVE  /\ t[s].key \in Keys \union {IntMin} /\ t[s].value \in Int
         /\ t[s] = Entry(t[s].key, t[s].value)
         /\ t[s] # EMPTY => t[s].key \in Keys /\ t[s].value \in Values
<1>1. t[s] \in [key : Keys, value : Values] \union {EMPTY}
  BY DEF Tables
<1>2. CASE t[s] = EMPTY
  BY <1>2, TableAssumption DEF EMPTY, Entry
<1>3. CASE t[s] \in [key : Keys, value : Values]
  BY <1>3, TableAssumption DEF Entry
<1> QED
  BY <1>1, <1>2, <1>3

\* A table in which an entry is put into a free slot.
LEMMA TakenPut ==
  ASSUME NEW n \in Nat, NEW t, NEW u, NEW x \in 0..n - 1, t[x] = EMPTY, u[x] # EMPTY,
         \A s \in 0..n - 1 : s # x => u[s] = t[s]
  PROVE  /\ Taken(u, n) = Taken(t, n) \union {x}
         /\ Cardinality(Taken(u, n)) = Cardinality(Taken(t, n)) + 1
<1>1. Taken(u, n) = Taken(t, n) \union {x}
  BY DEF Taken
<1>2. x \notin Taken(t, n)
  BY DEF Taken
<1> QED
  BY <1>1, <1>2, TakenFinite, FS_AddElement

\* An entry that was reached is reached in every table that has more entries.
LEMMA ReachedKept ==
  ASSUME NEW n \in Nat, n > 0, NEW t, NEW u, \A s \in 0..n - 1 : t[s] # EMPTY => u[s] = t[s],
         NEW k \in Keys, NEW v, Entry(k, v) # EMPTY, Reached(t, n, k, v)
  PROVE  Reached(u, n, k, v)
<1>1. PICK d \in 0..n - 1 :
        /\ t[SlotOf(k, d, n)] = Entry(k, v)
        /\ \A c \in 0..d - 1 : t[SlotOf(k, c, n)] # EMPTY
  BY DEF Reached
<1>2. u[SlotOf(k, d, n)] = Entry(k, v)
  BY <1>1, SlotInTable
<1>3. ASSUME NEW c \in 0..d - 1 PROVE u[SlotOf(k, c, n)] # EMPTY
  BY <1>1, SlotInTable
<1> QED
  BY <1>2, <1>3 DEF Reached

\* An entry that is put where its probes first meet a free slot is reached.
LEMMA ReachedPut ==
  ASSUME NEW n \in Nat, n > 0, NEW t, NEW k \in Keys, NEW v,
         NEW d \in 0..n - 1, t[SlotOf(k, d, n)] = EMPTY,
         \A c \in 0..d - 1 : t[SlotOf(k, c, n)] # EMPTY,
         NEW u, u[SlotOf(k, d, n)] = Entry(k, v),
         \A s \in 0..n - 1 : s # SlotOf(k, d, n) => u[s] = t[s]
  PROVE  Reached(u, n, k, v)
<1> DEFINE x == SlotOf(k, d, n)
<1>2. ASSUME NEW c \in 0..d - 1 PROVE u[SlotOf(k, c, n)] # EMPTY
  <2>1. t[SlotOf(k, c, n)] # EMPTY /\ t[x] = EMPTY
    OBVIOUS
  <2>2. SlotOf(k, c, n) \in 0..n - 1
    <3>1. c \in Nat
      OBVIOUS
    <3> HIDE DEF x
    <3> QED
      BY <3>1, SlotInTable
  <2>3. SlotOf(k, c, n) # x
    BY <2>1
  <2> QED
    BY <2>1, <2>2, <2>3
<1> QED
  BY <1>2 DEF Reached

\* Entries stay apart when one is added whose key has none.
LEMMA FirstOnesPut ==
  ASSUME NEW n \in Nat, NEW t, DOMAIN t = 0..n - 1, NEW f, NEW g, NEW K, NEW L, FirstOnes(t, n, f, K),
         NEW k \in Keys, NEW v, Entry(k, v) # EMPTY, g[k] # Nothing, k \in L => g[k] = v,
         NEW x \in 0..n - 1, t[x] = EMPTY,
         \A s \in Taken(t, n) : t[s].key # k,
         \A c \in Keys : f[c] # Nothing => g[c] = f[c],
         L \subseteq K \union {k}
  PROVE  FirstOnes([t EXCEPT ![x] = Entry(k, v)], n, g, L)
<1> DEFINE u == [t EXCEPT ![x] = Entry(k, v)]
<1> DEFINE e == Entry(k, v)
<1> HIDE DEF e
<1>1. Taken(u, n) = Taken(t, n) \union {x}
  <2>1. e # EMPTY
    BY DEF e
  <2>2. Taken([t EXCEPT ![x] = e], n) = Taken(t, n) \union {x}
    BY <2>1 DEF Taken
  <2> QED
    BY <2>2 DEF e
<1>2. x \notin Taken(t, n) /\ Taken(t, n) \subseteq 0..n - 1
  BY DEF Taken
<1>3. u[x].key = k /\ u[x].value = v
  BY DEF Entry
<1>4. \A s \in Taken(t, n) : u[s] = t[s]
  BY <1>2
<1>5. ASSUME NEW s \in Taken(u, n)
      PROVE  u[s].key \in Keys /\ g[u[s].key] # Nothing /\ (u[s].key \in L => u[s].value = g[u[s].key])
  <2>1. CASE s = x
    BY <1>3, <2>1
  <2>2. CASE s \in Taken(t, n)
    <3> DEFINE c == t[s].key
    <3>1. u[s] = t[s] /\ c \in Keys /\ f[c] # Nothing /\ c # k /\ (c \in K => t[s].value = f[c])
      BY <1>4, <2>2 DEF FirstOnes
    <3>2. g[c] = f[c] /\ (c \in L => c \in K)
      BY <3>1
    <3> QED
      BY <3>1, <3>2
  <2> QED
    BY <1>1, <1>5, <2>1, <2>2
<1>6. ASSUME NEW r \in Taken(u, n), NEW s \in Taken(u, n), u[r].key = u[s].key PROVE r = s
  <2>1. \A y \in Taken(t, n) : u[y] = t[y] /\ u[y].key # k
    BY <1>4
  <2>2. CASE r = x \/ s = x
    <3>1. u[x].key = k
      BY <1>3
    <3>2. u[r].key = k /\ u[s].key = k
      BY <1>6, <2>2, <3>1
    <3>3. r \notin Taken(t, n) /\ s \notin Taken(t, n)
      BY <2>1, <3>2
    <3> HIDE DEF u
    <3> QED
      BY <1>1, <3>3
  <2>3. CASE r # x /\ s # x
    <3> HIDE DEF u
    <3>1. r \in Taken(t, n) /\ s \in Taken(t, n)
      BY <1>1, <2>3
    <3>2. t[r].key = t[s].key
      BY <1>6, <2>1, <3>1
    <3> QED
      BY <3>1, <3>2 DEF FirstOnes
  <2> QED
    BY <2>2, <2>3
<1> HIDE DEF u
<1>7. FirstOnes(u, n, g, L)
  BY <1>5, <1>6 DEF FirstOnes
<1> QED
  BY <1>7 DEF u

\* A table that keeps its entries keeps the keys it has.
LEMMA HasKept ==
  ASSUME NEW n \in Nat, NEW t, NEW u, NEW f, NEW g, NEW K, NEW L,
         Has(t, n, f, K), L \subseteq K, \A k \in L : g[k] = f[k],
         \A s \in 0..n - 1 : t[s] # EMPTY => u[s] = t[s]
  PROVE  Has(u, n, g, L)
<1> SUFFICES ASSUME NEW k \in L PROVE \E s \in Taken(u, n) : u[s].key = k /\ u[s].value = g[k]
  BY DEF Has
<1>1. PICK s \in Taken(t, n) : t[s].key = k /\ t[s].value = f[k]
  BY DEF Has
<1>2. u[s] = t[s] /\ s \in Taken(u, n)
  BY <1>1 DEF Taken
<1> QED
  BY <1>1, <1>2

\* After an entry is put where its probes first meet a free slot all are reached.
LEMMA AllReachedPut ==
  ASSUME NEW n \in Nat, n > 0, NEW t \in Tables(n), AllReached(t, n), NEW k \in Keys, NEW v,
         Entry(k, v) # EMPTY,
         NEW d \in 0..n - 1, t[SlotOf(k, d, n)] = EMPTY,
         \A c \in 0..d - 1 : t[SlotOf(k, c, n)] # EMPTY
  PROVE  AllReached([t EXCEPT ![SlotOf(k, d, n)] = Entry(k, v)], n)
<1> DEFINE x == SlotOf(k, d, n)
           u == [t EXCEPT ![x] = Entry(k, v)]
<1>1. x \in 0..n - 1 /\ DOMAIN t = 0..n - 1
  BY SlotInTable DEF Tables
<1>2. u[x] = Entry(k, v) /\ \A s \in 0..n - 1 : s # x => u[s] = t[s]
  BY <1>1
<1>3. \A s \in 0..n - 1 : t[s] # EMPTY => u[s] = t[s]
  BY <1>2
<1> HIDE DEF u
<1>4. Reached(u, n, k, v)
  BY <1>2, ReachedPut
<1>5. ASSUME NEW s \in Taken(u, n) PROVE Reached(u, n, u[s].key, u[s].value)
  <2>1. s \in 0..n - 1
    BY DEF Taken
  <2>2. CASE s = x
    BY <1>2, <1>4, <2>2 DEF Entry
  <2>3. CASE s # x
    <3>1. u[s] = t[s] /\ s \in Taken(t, n)
      BY <1>2, <2>1, <2>3 DEF Taken
    <3>2. t[s].key \in Keys /\ Entry(t[s].key, t[s].value) # EMPTY
      BY <2>1, <3>1, SlotTyped DEF Taken
    <3>3. Reached(t, n, t[s].key, t[s].value)
      BY <3>1 DEF AllReached
    <3> QED
      BY <1>3, <3>1, <3>2, <3>3, ReachedKept
  <2> QED
    BY <2>2, <2>3
<1>6. AllReached(u, n)
  BY <1>5 DEF AllReached
<1> QED
  BY <1>6 DEF u


\* A free table has no slot that is taken.
LEMMA TakenFill == ASSUME NEW n \in Nat PROVE Taken(Fill(n), n) = {} /\ Cardinality(Taken(Fill(n), n)) = 0
<1>1. Taken(Fill(n), n) = {}
  BY DEF Taken, Fill
<1> QED
  BY <1>1, FS_EmptySet

\* The entries that were stored can be counted.
LEMMA StoredFinite == IsFiniteSet(Stored) /\ Cardinality(Stored) \in Nat /\ Cardinality(Stored) <= Cardinality(Keys)
<1>1. IsFiniteSet(Keys) /\ Stored \in SUBSET Keys
  BY TableAssumption DEF Stored
<1> QED
  BY <1>1, FS_Subset, FS_CardinalityType

----------------------------------------------------------------------------
(* The steps *)

\* The numbers the steps calculate with.
LEMMA Numbers ==
  ASSUME Inv
  PROVE  /\ size \in Nat /\ size > 0 /\ elts \in Nat /\ MaxElts \in Nat /\ i \in Nat /\ j \in Nat
         /\ size \div 2 \in Nat /\ Cardinality(Keys) \in Nat
         /\ i <= size \div 2 /\ j < size
         /\ pc = "resize" => size \div 2 > 0
<1>1. size \in Nat /\ size >= 2
  BY TableAssumption DEF Inv, TypeOK
<1>2. Cardinality(Keys) \in Nat
  BY TableAssumption, FS_CardinalityType
<1> QED
  BY <1>1, <1>2, TableAssumption DEF Inv, TypeOK

\* The constructor's table.
LEMMA InitInv == Init => Inv
<1> SUFFICES ASSUME Init PROVE Inv
  OBVIOUS
<1>1. TypeOK
  <2>1. table \in Tables(size)
    BY TableAssumption DEF Init, Fill, Tables
  <2>2. elts \in 0..Cardinality(Keys) + MaxElts
    <3>1. Cardinality(Keys) \in Nat
      BY TableAssumption, FS_CardinalityType
    <3> QED
      BY <3>1, TableAssumption DEF Init
  <2>3. i \in 0..size \div 2 /\ j \in 0..size - 1
    BY TableAssumption DEF Init
  <2> QED
    BY <2>1, <2>2, <2>3, TableAssumption DEF Init, TypeOK
<1>2. Stored = {}
  BY DEF Stored, Init
<1>3. Taken(table, size) = {} /\ Cardinality(Taken(table, size)) = 0
  BY TakenFill, TableAssumption DEF Init
<1>4. pc = "ready" /\ elts = 0 /\ i = 0
  BY DEF Init
<1>5. CountInv
  BY <1>3, <1>4, StoredFinite, TableAssumption DEF CountInv
<1>6. WholeInv
  BY <1>2, <1>3 DEF WholeInv, FirstOnes, AllReached, Has, Kept, Stored
<1> QED
  BY <1>1, <1>2, <1>4, <1>5, <1>6 DEF Inv, FirstInv, CallInv, ProbeInv, ResizeInv

\* putIfEmpty starts to probe, or resize to copy.
LEMMA PutInv == ASSUME Inv, NEW k \in Keys, NEW v \in Values, PutIfEmpty(k, v) PROVE Inv'
<1> USE Numbers
<1>1. /\ pc = "ready" /\ (Bounded(k, v) => elts < MaxElts)
      /\ key' = k /\ val' = v /\ j' = 0 /\ ret' = Nothing
      /\ UNCHANGED <<table, elts, i, first>>
  BY DEF PutIfEmpty
<1>2. Stored' = Stored /\ FirstInv'
  BY <1>1 DEF Stored, FirstInv, Inv
<1>3. i = 0 /\ FirstOnes(table, size, first, Kept) /\ AllReached(table, size) /\ Has(table, size, first, Kept)
  BY <1>1 DEF Inv, CallInv, WholeInv
<1>4. table \in Tables(size)
  BY <1>1 DEF Inv, TypeOK
<1>5. CASE 2 * elts > size /\ pc' = "resize" /\ size' = 2 * size /\ newTable' = Fill(2 * size)
  <2>1. size' \div 2 = size /\ size' \in Nat
    BY <1>5
  <2>2. newTable' \in Tables(size')
    BY <1>5 DEF Tables, Fill
  <2>3. TypeOK'
    <3>1. size' \in Nat /\ InitialSize <= size' /\ size' < 4 * elts'
      BY <1>1, <1>5, TableAssumption DEF Inv, TypeOK
    <3>2. table' \in Tables(size' \div 2)
      BY <1>1, <1>4, <2>1
    <3>3. i' \in 0..size' \div 2 /\ j' \in 0..size' - 1
      BY <1>1, <1>3, <1>5, <2>1
    <3> QED
      BY <1>1, <1>5, <2>2, <3>1, <3>2, <3>3, TableAssumption DEF Inv, TypeOK
  <2>4. CallInv'
    <3>1. size' > InitialSize
      BY <1>5, TableAssumption DEF Inv, TypeOK
    <3> QED
      BY <1>1, <1>5, <2>1, <3>1 DEF Inv, CallInv
  <2>5. CountInv'
    BY <1>1, <1>2, <1>5, <2>1 DEF Inv, CountInv, Bounded
  <2>6. Copied' = {}
    BY <1>1, <1>3 DEF Copied, Taken
  <2>7. Taken(newTable', size') = {} /\ Cardinality(Taken(newTable', size')) = 0
    BY <1>5, <2>1, TakenFill
  <2>8. Kept' \subseteq Kept
    <3>1. size' # InitialSize
      BY <1>5, TableAssumption DEF Inv, TypeOK
    <3> QED
      BY <1>1, <3>1 DEF Kept
  <2>9. FirstOnes(table, size, first, Kept') /\ Has(table, size, first, Kept')
    BY <1>3, <2>8 DEF FirstOnes, Has
  <2>10. FirstOnes(newTable', size', first, Kept')
    BY <2>7 DEF FirstOnes
  <2>11. ResizeInv'
    BY <1>1, <2>1, <2>6, <2>7, <2>9, <2>10, FS_EmptySet DEF ResizeInv
  <2> QED
    BY <1>2, <1>5, <2>3, <2>4, <2>5, <2>11 DEF Inv, WholeInv, ProbeInv
<1>6. CASE pc' = "probe" /\ UNCHANGED <<size, newTable>>
  <2>1. TypeOK'
    BY <1>1, <1>6, TableAssumption DEF Inv, TypeOK
  <2>2. CallInv' /\ CountInv' /\ ProbeInv'
    BY <1>1, <1>2, <1>3, <1>6 DEF Inv, CallInv, CountInv, ProbeInv, Bounded
  <2>3. Kept' = Kept
    BY <1>1, <1>6 DEF Kept
  <2>4. WholeInv'
    BY <1>1, <1>3, <1>6, <2>3 DEF WholeInv
  <2> QED
    BY <1>2, <1>6, <2>1, <2>2, <2>4 DEF Inv, ResizeInv
<1> QED
  BY <1>5, <1>6 DEF PutIfEmpty

\* What every turn of resize leaves as it is.
LEMMA ResizeFrame ==
  ASSUME Inv, pc = "resize", UNCHANGED <<tableVars, pc, key, val, ret, first>>,
         i' \in 0..size \div 2, j' \in 0..size - 1, i' = size \div 2 => j' = 0,
         newTable' \in Tables(size), ResizeInv'
  PROVE  Inv'
<1>1. UNCHANGED <<table, size, elts>> /\ Stored' = Stored
  BY DEF tableVars, Stored
<1>2. TypeOK'
  BY <1>1 DEF Inv, TypeOK
<1>3. FirstInv' /\ CallInv' /\ CountInv'
  BY <1>1 DEF Inv, FirstInv, CallInv, CountInv, Bounded
<1> QED
  BY <1>2, <1>3 DEF Inv, WholeInv, ProbeInv


\* A turn of resize.
LEMMA ResizeStepInv == ASSUME Inv, ResizeStep PROVE Inv'
<1> USE Numbers
<1> DEFINE n == size \div 2
           e == table[i]
           x == SlotOf(e.key, j, size)
<1>1. /\ pc = "resize" /\ i < n /\ UNCHANGED <<tableVars, pc, key, val, ret, first>>
      /\ UNCHANGED <<table, size, elts>> /\ Kept' = Kept
  BY DEF ResizeStep, tableVars, Kept
<1>2. /\ FirstOnes(table, n, first, Kept) /\ Has(table, n, first, Kept)
      /\ FirstOnes(newTable, size, first, Kept)
      /\ \A s \in Copied : Reached(newTable, size, table[s].key, table[s].value)
      /\ \A r \in Taken(newTable, size) : \E s \in Copied : table[s] = newTable[r]
      /\ table[i] # EMPTY => \A c \in 0..j - 1 : newTable[SlotOf(table[i].key, c, size)] # EMPTY
      /\ Cardinality(Taken(newTable, size)) <= Cardinality(Copied)
  BY <1>1 DEF Inv, ResizeInv
<1>3. table \in Tables(n) /\ newTable \in Tables(size)
  BY <1>1 DEF Inv, TypeOK
<1>4. i \in 0..n - 1 /\ n < size
  BY <1>1 DEF Inv, CallInv
<1>5. /\ e.key \in Keys \union {IntMin} /\ e = Entry(e.key, e.value)
      /\ Occupied(e) <=> e.value # 1
      /\ e # EMPTY => e.key \in Keys /\ e.value \in Values
  BY <1>3, <1>4, SlotTyped, OccupiedBut1
<1>6. NewSlot(e.key) = x
  BY DEF NewSlot, Slot, SlotOf
<1>7. CASE (e = EMPTY \/ e.value = 1) /\ i' = i + 1 /\ j' = 0 /\ newTable' = newTable
  <2>1. Copied' = Copied
    <3>1. i \in Taken(table, n) => table[i].value = 1
      BY <1>7 DEF Taken
    <3>2. \A s \in Taken(table, n) : s \in Int /\ (s < i + 1 <=> s < i \/ s = i)
      BY DEF Taken
    <3> QED
      BY <1>1, <1>7, <3>1, <3>2 DEF Copied
  <2>2. ResizeInv'
    BY <1>1, <1>2, <1>7, <2>1 DEF ResizeInv
  <2> QED
    BY <1>1, <1>3, <1>4, <1>7, <2>2, ResizeFrame
<1>8. CASE e # EMPTY /\ e.value # 1 /\ newTable[x] = EMPTY /\ newTable' = [newTable EXCEPT ![x] = e] /\ i' = i + 1 /\ j' = 0
  <2>1. x \in 0..size - 1
    BY <1>5, <1>8, SlotInTable
  <2>2. i \in Taken(table, n) /\ i \notin Copied
    BY <1>4, <1>8 DEF Taken, Copied
  <2>3. Copied' = Copied \union {i}
    <3>1. \A s \in Taken(table, n) : s \in Int /\ (s < i + 1 <=> s < i \/ s = i)
      BY DEF Taken
    <3> QED
      BY <1>1, <1>8, <2>2, <3>1 DEF Copied
  <2>4. /\ e.key \in Keys /\ first[e.key] # Nothing
        /\ e.key \in Kept => e.value = first[e.key]
    BY <1>2, <2>2 DEF FirstOnes
  <2>5. \A s \in Taken(newTable, size) : newTable[s].key # e.key
    <3> SUFFICES ASSUME NEW s \in Taken(newTable, size), newTable[s].key = e.key PROVE FALSE
      OBVIOUS
    <3>1. PICK r \in Copied : table[r] = newTable[s]
      BY <1>2
    <3>2. r \in Taken(table, n) /\ r # i
      BY <2>2 DEF Copied
    <3> QED
      BY <1>2, <2>2, <3>1, <3>2 DEF FirstOnes
  <2>6. DOMAIN newTable = 0..size - 1
    BY <1>3 DEF Tables
  <2>7. FirstOnes(newTable', size, first, Kept)
    <3> DEFINE k == e.key
               v == e.value
               y == x
    <3>1. k \in Keys /\ Entry(k, v) # EMPTY /\ first[k] # Nothing /\ (k \in Kept => first[k] = v)
          /\ y \in 0..size - 1 /\ newTable[y] = EMPTY
          /\ \A s \in Taken(newTable, size) : newTable[s].key # k
      BY <1>5, <1>8, <2>1, <2>4, <2>5
    <3>2. newTable' = [newTable EXCEPT ![y] = Entry(k, v)]
      BY <1>5, <1>8
    <3> HIDE DEF k, v, y
    <3>3. FirstOnes([newTable EXCEPT ![y] = Entry(k, v)], size, first, Kept)
      BY <1>2, <2>6, <3>1, FirstOnesPut
    <3> QED
      BY <3>2, <3>3
  <2>8. /\ Taken(newTable', size) = Taken(newTable, size) \union {x}
        /\ Cardinality(Taken(newTable', size)) = Cardinality(Taken(newTable, size)) + 1
    <3>1. newTable[x] = EMPTY /\ newTable'[x] # EMPTY /\ \A s \in 0..size - 1 : s # x => newTable'[s] = newTable[s]
      BY <1>8, <2>1, <2>6
    <3> HIDE DEF n, e, x
    <3> QED
      BY <2>1, <3>1, TakenPut
  <2>9. Cardinality(Copied \union {i}) = Cardinality(Copied) + 1 /\ Cardinality(Copied) \in Nat
    <3>1. IsFiniteSet(Copied)
      <4>1. IsFiniteSet(Taken(table, n)) /\ Copied \in SUBSET Taken(table, n)
        BY TakenFinite DEF Copied
      <4> QED
        BY <4>1, FS_Subset
    <3> QED
      BY <2>2, <3>1, FS_AddElement, FS_CardinalityType
  <2>10. Cardinality(Taken(newTable', size)) <= Cardinality(Copied')
    BY <1>2, <2>3, <2>8, <2>9, TakenFinite
  <2>11. \A s \in 0..size - 1 : newTable[s] # EMPTY => newTable'[s] = newTable[s]
    BY <1>8, <2>6
  <2>12. ASSUME NEW s \in Copied PROVE Reached(newTable', size, table[s].key, table[s].value)
    <3>1. s \in Taken(table, n) /\ Reached(newTable, size, table[s].key, table[s].value)
      BY <1>2 DEF Copied
    <3>2. table[s].key \in Keys /\ table[s] = Entry(table[s].key, table[s].value) /\ table[s] # EMPTY
      BY <1>3, <3>1, SlotTyped DEF Taken
    <3> DEFINE k == table[s].key
               v == table[s].value
    <3>3. k \in Keys /\ Entry(k, v) # EMPTY /\ Reached(newTable, size, k, v)
      BY <3>1, <3>2
    <3> HIDE DEF k, v
    <3>4. Reached(newTable', size, k, v)
      BY <2>11, <3>3, ReachedKept
    <3> QED
      BY <3>4 DEF k, v
  <2>13. Reached(newTable', size, e.key, e.value)
    <3> DEFINE k == e.key
               v == e.value
               y == SlotOf(k, j, size)
    <3>1. k \in Keys /\ j \in 0..size - 1 /\ newTable[y] = EMPTY /\ newTable' = [newTable EXCEPT ![y] = Entry(k, v)]
          /\ \A c \in 0..j - 1 : newTable[SlotOf(k, c, size)] # EMPTY
      <4>2. e = Entry(k, v)
        BY <1>5
      <4>3. \A c \in 0..j - 1 : newTable[SlotOf(k, c, size)] # EMPTY
        BY <1>2, <1>8
      <4>4. newTable[y] = EMPTY
        BY <1>8
      <4>5. newTable' = [newTable EXCEPT ![x] = Entry(k, v)]
        BY <1>8, <4>2
      <4>6. k \in Keys /\ j \in 0..size - 1
        BY <2>4
      <4> QED
        BY <4>3, <4>4, <4>5, <4>6
    <3>2. newTable'[y] = Entry(k, v) /\ \A s \in 0..size - 1 : s # y => newTable'[s] = newTable[s]
      BY <2>1, <2>6, <3>1
    <3> HIDE DEF k, v
    <3>3. Reached(newTable', size, k, v)
      BY <3>1, <3>2, ReachedPut
    <3> QED
      BY <3>3 DEF k, v
  <2>14. ASSUME NEW r \in Taken(newTable', size) PROVE \E s \in Copied' : table[s] = newTable'[r]
    <3>1. CASE r = x
      BY <1>8, <2>1, <2>3, <2>6, <3>1
    <3>2. CASE r \in Taken(newTable, size)
      BY <1>2, <2>3, <2>11, <3>2 DEF Taken
    <3> QED
      BY <2>8, <3>1, <3>2
  <2>15. newTable' \in Tables(size)
    <3>1. e \in [key : Keys, value : Values]
      BY <1>5, <1>8 DEF Entry
    <3> HIDE DEF e, x
    <3> QED
      BY <1>3, <1>8, <2>1, <3>1 DEF Tables
  <2>16. ASSUME NEW s \in Copied' PROVE Reached(newTable', size, table[s].key, table[s].value)
    BY <2>3, <2>12, <2>13
  <2> HIDE DEF n, e, x
  <2>17. ResizeInv'
    <3>1. \A c \in 0..j' - 1 : newTable'[SlotOf(table'[i'].key, c, size')] # EMPTY
      BY <1>8
    <3> QED
      BY <1>1, <1>2, <2>7, <2>10, <2>14, <2>16, <3>1 DEF ResizeInv, n
  <2>18. i' \in 0..size \div 2 /\ j' \in 0..size - 1 /\ j' = 0
    BY <1>4, <1>8 DEF n
  <2> QED
    BY <1>1, <2>15, <2>17, <2>18, ResizeFrame
<1>9. CASE newTable[x] # EMPTY /\ j' = (j + 1) % size /\ i' = i /\ newTable' = newTable
  <2>1. j' = IF j + 1 = size THEN 0 ELSE j + 1
    <3>1. CASE j + 1 = size
      BY <1>9, <3>1
    <3>2. CASE j + 1 < size
      BY <1>9, <3>2
    <3> QED
      BY <3>1, <3>2
  <2>2. e # EMPTY => \A c \in 0..j' - 1 : newTable[SlotOf(e.key, c, size)] # EMPTY
    <3>1. e # EMPTY => \A c \in 0..j - 1 : newTable[SlotOf(e.key, c, size)] # EMPTY
      BY <1>2, <1>9
    <3>2. \A c \in 0..j' - 1 : c \in 0..j - 1 \/ c = j
      BY <2>1
    <3> QED
      BY <1>9, <3>1, <3>2
  <2>3. Copied' = Copied
    BY <1>1, <1>9 DEF Copied
  <2>4. ResizeInv'
    BY <1>1, <1>2, <1>9, <2>2, <2>3 DEF ResizeInv
  <2>5. j' \in 0..size - 1 /\ i' \in 0..size \div 2 /\ i' # size \div 2
    BY <1>4, <1>9, <2>1
  <2> QED
    BY <1>1, <1>3, <1>9, <2>4, <2>5, ResizeFrame
<1>10. CASE e = EMPTY /\ newTable[x] = EMPTY /\ newTable' = [newTable EXCEPT ![x] = e] /\ i' = i + 1 /\ j' = 0
  <2>1. newTable' = newTable
    BY <1>3, <1>10 DEF Tables
  <2> QED
    BY <1>7, <1>10, <2>1
<1> QED
  BY <1>5, <1>6, <1>7, <1>8, <1>9, <1>10 DEF ResizeStep


\* The end of resize.
LEMMA ResizedInv == ASSUME Inv, Resized PROVE Inv'
<1> USE Numbers
<1> DEFINE n == size \div 2
<1>1. /\ pc = "resize" /\ i = n /\ table' = newTable /\ newTable' = << >> /\ i' = 0 /\ pc' = "probe"
      /\ UNCHANGED <<size, elts, key, val, j, ret, first>>
  BY DEF Resized
<1>2. /\ Has(table, n, first, Kept)
      /\ FirstOnes(newTable, size, first, Kept)
      /\ \A s \in Copied : Reached(newTable, size, table[s].key, table[s].value)
      /\ \A r \in Taken(newTable, size) : \E s \in Copied : table[s] = newTable[r]
      /\ Cardinality(Taken(newTable, size)) <= Cardinality(Copied)
      /\ j = 0 /\ size # InitialSize
  BY <1>1, TableAssumption DEF Inv, ResizeInv, CallInv
<1>3. /\ Copied = {s \in Taken(table, n) : table[s].value # 1}
      /\ Stored' = Stored /\ Kept' = Kept
  BY <1>1 DEF Copied, Taken, Stored, Kept
<1>4. TypeOK'
  BY <1>1 DEF Inv, TypeOK
<1>5. Cardinality(Taken(table, n)) <= elts
  BY <1>1 DEF Inv, CountInv
<1>6. Cardinality(Taken(newTable, size)) <= elts
  <2>1. Cardinality(Copied) <= Cardinality(Taken(table, n)) /\ Cardinality(Copied) \in Nat
    BY <1>3, TakenFinite, FS_Subset, FS_CardinalityType
  <2> QED
    BY <1>2, <1>5, <2>1, TakenFinite
<1>7. CountInv'
  BY <1>1, <1>3, <1>6 DEF Inv, CountInv, Bounded
<1>8. newTable \in Tables(size)
  BY <1>1 DEF Inv, TypeOK
<1>9. Has(newTable, size, first, Kept)
  <2> SUFFICES ASSUME NEW k \in Kept
               PROVE  \E r \in Taken(newTable, size) : newTable[r].key = k /\ newTable[r].value = first[k]
    BY DEF Has
  <2>1. k \in Keys /\ first[k] # 1 /\ Entry(k, first[k]) # EMPTY
    BY <1>2 DEF Kept, Inv, FirstInv, Stored
  <2>2. PICK s \in Taken(table, n) : table[s].key = k /\ table[s].value = first[k]
    BY <1>2 DEF Has
  <2>3. Reached(newTable, size, k, first[k])
    BY <1>2, <1>3, <2>1, <2>2
  <2>4. PICK d \in 0..size - 1 : newTable[SlotOf(k, d, size)] = Entry(k, first[k])
    BY <2>3 DEF Reached
  <2>5. SlotOf(k, d, size) \in Taken(newTable, size)
    BY <2>1, <2>4, SlotInTable DEF Taken
  <2> QED
    BY <2>4, <2>5 DEF Entry
<1>10. AllReached(newTable, size)
  BY <1>2 DEF AllReached
<1>11. WholeInv'
  BY <1>1, <1>2, <1>3, <1>9, <1>10 DEF WholeInv
<1> QED
  BY <1>1, <1>2, <1>3, <1>4, <1>7, <1>11 DEF Inv, FirstInv, CallInv, ProbeInv, ResizeInv

\* The probes end at a free slot only if the table does not have the key: it was never
\* stored, or it may have been lost.
LEMMA FreeSlotOfNewKey ==
  ASSUME Inv, pc = "probe", table[SlotOf(key, j, size)] = EMPTY
  PROVE  key \notin Kept /\ \A s \in Taken(table, size) : table[s].key # key
<1> USE Numbers
<1>1. key \in Keys
  BY DEF Inv, CallInv
<1>2. AllReached(table, size) /\ Has(table, size, first, Kept)
  BY DEF Inv, WholeInv
<1>3. \A c \in 0..j - 1 : table[SlotOf(key, c, size)] # EMPTY /\ table[SlotOf(key, c, size)].key # key
  BY DEF Inv, ProbeInv
<1>4. table \in Tables(size)
  BY DEF Inv, TypeOK
<1>5. ASSUME NEW s \in Taken(table, size), table[s].key = key PROVE FALSE
  <2>1. Reached(table, size, key, table[s].value)
    BY <1>2, <1>5 DEF AllReached
  <2>2. PICK d \in 0..size - 1 :
          /\ table[SlotOf(key, d, size)] = Entry(key, table[s].value)
          /\ \A c \in 0..d - 1 : table[SlotOf(key, c, size)] # EMPTY
    BY <2>1 DEF Reached
  <2>3. table[SlotOf(key, d, size)].key = key
    BY <2>2 DEF Entry
  <2>4. Entry(key, table[s].value) # EMPTY
    BY <1>4, <1>5, SlotTyped DEF Taken
  <2>5. ~(d < j) /\ d # j /\ ~(d > j)
    BY <1>3, <2>2, <2>3, <2>4
  <2> QED
    BY <2>5
<1> QED
  BY <1>2, <1>5 DEF Has

\* An entry with the key has its first value, if the key was not lost.
LEMMA OccupantIsFirst ==
  ASSUME Inv, pc = "probe", table[SlotOf(key, j, size)] # EMPTY, table[SlotOf(key, j, size)].key = key
  PROVE  /\ first[key] # Nothing /\ table[SlotOf(key, j, size)].value \in Values
         /\ key \in Kept => table[SlotOf(key, j, size)].value = first[key]
<1>1. SlotOf(key, j, size) \in Taken(table, size) /\ SlotOf(key, j, size) \in 0..size - 1
  BY Numbers, SlotInTable DEF Inv, CallInv, Taken
<1>2. FirstOnes(table, size, first, Kept) /\ table \in Tables(size)
  BY DEF Inv, WholeInv, TypeOK
<1>3. table[SlotOf(key, j, size)].value \in Values
  BY <1>1, <1>2, Numbers, SlotTyped DEF Taken
<1> QED
  BY <1>1, <1>2, <1>3 DEF FirstOnes

\* A turn of putIfEmpty's loop.
LEMMA ProbeStepInv == ASSUME Inv, Probe PROVE Inv'
<1> USE Numbers
<1> DEFINE x == SlotOf(key, j, size)
<1>1. pc = "probe" /\ UNCHANGED <<size, i, newTable>> /\ Slot(key, j) = x
  BY DEF Probe, Slot, SlotOf
<1>2. key \in Keys /\ val \in Values /\ i = 0 /\ (Bounded(key, val) => elts < MaxElts)
  BY <1>1 DEF Inv, CallInv, CountInv
<1>3. table \in Tables(size) /\ DOMAIN table = 0..size - 1 /\ x \in 0..size - 1
  BY <1>1, <1>2, SlotInTable DEF Inv, TypeOK, Tables
<1>4. FirstOnes(table, size, first, Kept) /\ AllReached(table, size) /\ Has(table, size, first, Kept)
  BY <1>1 DEF Inv, WholeInv
<1>5. Cardinality(Taken(table, size)) <= elts /\ elts <= MaxElts + Cardinality(Stored)
  BY <1>1 DEF Inv, CountInv
<1>6. Nothing \notin Values \union {0} /\ first \in [Keys -> Values \union {Nothing}]
  BY TableAssumption DEF Inv, TypeOK
<1>7. CASE table[x] = EMPTY /\ table' = [table EXCEPT ![x] = Entry(key, val)] /\ elts' = elts + 1 /\ Return(0)
  <2>1. /\ pc' = "ready" /\ key' = 0 /\ val' = 0 /\ j' = 0 /\ ret' = 0
        /\ first' = [first EXCEPT ![key] = IF first[key] = Nothing /\ Entry(key, val) # EMPTY THEN val ELSE first[key]]
    BY <1>7 DEF Return
  <2>2. key \notin Kept /\ \A s \in Taken(table, size) : table[s].key # key
    BY <1>1, <1>7, FreeSlotOfNewKey
  <2>3. TypeOK' \/ ~(elts' \in 0..Cardinality(Keys) + MaxElts) \/ ~(first' \in [Keys -> Values \union {Nothing}])
    <3>1. table' \in Tables(size)
      BY <1>2, <1>3, <1>7 DEF Tables, Entry
    <3>2. size = InitialSize \/ size < 4 * elts'
      BY <1>7, TableAssumption DEF Inv, TypeOK
    <3>3. InitialSize <= size /\ newTable = << >>
      BY <1>1 DEF Inv, TypeOK
    <3> QED
      BY <1>1, <1>2, <2>1, <3>1, <3>2, <3>3 DEF TypeOK
  <2>4. CASE Entry(key, val) = EMPTY
    <3>1. first' = first /\ table' = table
      BY <1>3, <1>6, <1>7, <2>1, <2>4 DEF Tables
    <3>2. Stored' = Stored /\ Kept' = Kept
      BY <1>1, <3>1 DEF Stored, Kept
    <3>3. elts' <= MaxElts + Cardinality(Stored) /\ Cardinality(Taken(table, size)) <= elts'
      <4>1. elts < MaxElts
        BY <1>2, <2>4 DEF Bounded
      <4> QED
        BY <1>5, <1>7, <4>1, StoredFinite, TakenFinite
    <3>4. TypeOK'
      <4>1. elts' \in 0..Cardinality(Keys) + MaxElts
        BY <1>7, <3>3, StoredFinite
      <4> QED
        BY <1>6, <2>3, <3>1, <4>1
    <3>5. CountInv' /\ WholeInv'
      BY <1>1, <1>4, <2>1, <3>1, <3>2, <3>3 DEF CountInv, WholeInv
    <3> QED
      BY <1>1, <1>2, <2>1, <3>1, <3>2, <3>4, <3>5 DEF Inv, FirstInv, CallInv, ProbeInv, ResizeInv
  <2>5. CASE Entry(key, val) # EMPTY
    <3>1. /\ first' = [first EXCEPT ![key] = IF first[key] = Nothing THEN val ELSE first[key]]
          /\ val # Nothing
      BY <1>2, <1>6, <2>1, <2>5
    <3>2. /\ first' \in [Keys -> Values \union {Nothing}] /\ first'[key] # Nothing
          /\ \A c \in Keys : c # key \/ first[c] # Nothing => first'[c] = first[c]
          /\ first[key] = Nothing => first'[key] = val
      BY <1>2, <1>6, <3>1
    <3>3. key \in Kept' => first'[key] = val
      <4>1. CASE first[key] = Nothing
        BY <3>2, <4>1
      <4>2. CASE first[key] # Nothing
        <5>1. first'[key] = first[key] /\ size' = size
          BY <1>1, <1>2, <3>2, <4>2
        <5>2. key \notin Kept'
          BY <2>2, <4>2, <5>1 DEF Kept
        <5> QED
          BY <5>2
      <4> QED
        BY <4>1, <4>2
    <3>4. Kept' \subseteq Kept \union {key} /\ \A k \in Kept' \ {key} : first'[k] = first[k]
      BY <1>1, <3>2 DEF Kept
    <3>5. elts' <= MaxElts + Cardinality(Stored') /\ Cardinality(Stored') <= Cardinality(Keys)
      <4>1. Cardinality(Stored') <= Cardinality(Keys) /\ Cardinality(Stored') \in Nat
        <5>1. Stored' \in SUBSET Keys
          BY DEF Stored
        <5> QED
          BY <5>1, TableAssumption, FS_Subset, FS_CardinalityType
      <4>2. CASE first[key] = Nothing
        <5>1. Stored' = Stored \union {key} /\ key \notin Stored
          BY <1>2, <3>2, <4>2 DEF Stored
        <5>2. Cardinality(Stored \union {key}) = Cardinality(Stored) + 1
          BY <5>1, StoredFinite, FS_AddElement
        <5> QED
          BY <1>5, <1>7, <4>1, <5>1, <5>2, StoredFinite
      <4>3. CASE first[key] # Nothing
        <5>1. Stored' = Stored
          BY <3>2, <4>3 DEF Stored
        <5>2. first[key] = 1
          BY <1>2, <2>2, <4>3 DEF Kept
        <5>3. elts < MaxElts
          BY <1>2, <5>2 DEF Bounded
        <5> QED
          BY <1>7, <4>1, <5>1, <5>3, StoredFinite
      <4> QED
        BY <4>2, <4>3
    <3>6. Cardinality(Taken(table', size)) <= elts'
      <4>1. table'[x] # EMPTY /\ \A s \in 0..size - 1 : s # x => table'[s] = table[s]
        BY <1>3, <1>7, <2>5
      <4>2. Cardinality(Taken(table', size)) = Cardinality(Taken(table, size)) + 1
        BY <1>3, <1>7, <4>1, TakenPut
      <4> QED
        BY <1>5, <1>7, <4>2, TakenFinite
    <3>7. TypeOK'
      <4>1. elts' \in 0..Cardinality(Keys) + MaxElts
        <5>1. Cardinality(Stored') \in Nat
          BY <3>5, TableAssumption, FS_Subset, FS_CardinalityType DEF Stored
        <5> QED
          BY <1>7, <3>5, <5>1
      <4> QED
        BY <2>3, <3>2, <4>1
    <3>8. FirstOnes(table', size, first', Kept')
      <4> DEFINE g == first'
                 L == Kept'
      <4>1. /\ g[key] # Nothing /\ (key \in L => g[key] = val) /\ L \subseteq Kept \union {key}
            /\ \A c \in Keys : first[c] # Nothing => g[c] = first[c]
        BY <3>2, <3>3, <3>4
      <4> HIDE DEF g, L, x
      <4>2. FirstOnes([table EXCEPT ![x] = Entry(key, val)], size, g, L)
        BY <1>2, <1>3, <1>4, <1>7, <2>2, <2>5, <4>1, FirstOnesPut
      <4> QED
        BY <1>7, <4>2 DEF g, L
    <3>9. AllReached(table', size)
      <4>1. \A c \in 0..j - 1 : table[SlotOf(key, c, size)] # EMPTY
        BY <1>1 DEF Inv, ProbeInv
      <4>2. size \in Nat /\ size > 0 /\ j \in 0..size - 1 /\ table[SlotOf(key, j, size)] = EMPTY
        BY <1>7
      <4>3. AllReached([table EXCEPT ![SlotOf(key, j, size)] = Entry(key, val)], size)
        BY <1>2, <1>3, <1>4, <2>5, <4>1, <4>2, AllReachedPut
      <4> QED
        BY <1>7, <4>3
    <3>10. Has(table', size, first', Kept')
      <4> SUFFICES ASSUME NEW k \in Kept'
                   PROVE  \E s \in Taken(table', size) : table'[s].key = k /\ table'[s].value = first'[k]
        BY DEF Has
      <4>1. CASE k = key
        <5>1. table'[x] = Entry(key, val) /\ x \in Taken(table', size)
          BY <1>3, <1>7, <2>5 DEF Taken
        <5> QED
          BY <3>3, <4>1, <5>1 DEF Entry
      <4>2. CASE k # key
        <5>1. k \in Kept /\ first'[k] = first[k]
          BY <3>4, <4>2
        <5>2. PICK s \in Taken(table, size) : table[s].key = k /\ table[s].value = first[k]
          BY <1>4, <5>1 DEF Has
        <5>3. table'[s] = table[s] /\ s \in Taken(table', size)
          BY <1>3, <1>7, <5>2 DEF Taken
        <5> QED
          BY <5>1, <5>2, <5>3
      <4> QED
        BY <4>1, <4>2
    <3>11. FirstInv'
      <4> SUFFICES ASSUME NEW k \in Stored' PROVE Entry(k, first'[k]) # EMPTY
        BY DEF FirstInv
      <4>1. CASE k = key /\ first[key] = Nothing
        BY <2>5, <3>2, <4>1
      <4>2. CASE ~(k = key /\ first[key] = Nothing)
        BY <3>2, <4>2 DEF Inv, FirstInv, Stored
      <4> QED
        BY <4>1, <4>2
    <3>12. WholeInv' /\ CountInv'
      BY <1>1, <2>1, <3>5, <3>6, <3>8, <3>9, <3>10 DEF WholeInv, CountInv
    <3> QED
      BY <1>1, <1>2, <2>1, <3>7, <3>11, <3>12 DEF Inv, CallInv, ProbeInv, ResizeInv
  <2> QED
    BY <2>4, <2>5
<1>8. CASE table[x] # EMPTY /\ table[x].key = key /\ Return(table[x].value) /\ UNCHANGED <<table, elts>>
  <2>1. first[key] # Nothing /\ table[x].value \in Values
    BY <1>1, <1>8, OccupantIsFirst
  <2>2. /\ pc' = "ready" /\ key' = 0 /\ val' = 0 /\ j' = 0 /\ ret' \in Values /\ first' = first
    BY <1>6, <1>8, <2>1 DEF Return
  <2>3. Stored' = Stored /\ Kept' = Kept
    BY <1>1, <2>2 DEF Stored, Kept
  <2>4. TypeOK'
    BY <1>1, <1>2, <1>6, <1>8, <2>1, <2>2 DEF Inv, TypeOK
  <2>5. CountInv' /\ WholeInv'
    BY <1>1, <1>4, <1>5, <1>8, <2>2, <2>3 DEF CountInv, WholeInv
  <2> QED
    BY <1>1, <1>2, <2>2, <2>3, <2>4, <2>5 DEF Inv, FirstInv, CallInv, ProbeInv, ResizeInv
<1>9. CASE table[x] # EMPTY /\ table[x].key # key /\ j' = (j + 1) % size
           /\ UNCHANGED <<table, elts, pc, key, val, ret, first>>
  <2>1. j' = IF j + 1 = size THEN 0 ELSE j + 1
    <3>1. CASE j + 1 = size
      BY <1>9, <3>1
    <3>2. CASE j + 1 < size
      BY <1>9, <3>2
    <3> QED
      BY <3>1, <3>2
  <2>2. \A c \in 0..j' - 1 : table[SlotOf(key, c, size)] # EMPTY /\ table[SlotOf(key, c, size)].key # key
    <3>1. \A c \in 0..j - 1 : table[SlotOf(key, c, size)] # EMPTY /\ table[SlotOf(key, c, size)].key # key
      BY <1>1 DEF Inv, ProbeInv
    <3>2. \A c \in 0..j' - 1 : c \in 0..j - 1 \/ c = j
      BY <2>1
    <3> QED
      BY <1>9, <3>1, <3>2
  <2>3. TypeOK'
    BY <1>1, <1>9, <2>1 DEF Inv, TypeOK
  <2>4. Stored' = Stored /\ Kept' = Kept
    BY <1>1, <1>9 DEF Stored, Kept
  <2>5. CountInv' /\ WholeInv' /\ ProbeInv'
    BY <1>1, <1>9, <2>2, <2>4 DEF Inv, CountInv, WholeInv, ProbeInv, Bounded
  <2> QED
    BY <1>1, <1>9, <2>3, <2>4, <2>5 DEF Inv, FirstInv, CallInv, ResizeInv
<1> QED
  BY <1>1, <1>7, <1>8, <1>9 DEF Probe


----------------------------------------------------------------------------
(* The theorems *)

\* Every step keeps the invariant.
LEMMA InvNext == ASSUME Inv, [Next]_vars PROVE Inv'
<1>1. CASE UNCHANGED vars
  <2>1. Stored' = Stored /\ Copied' = Copied /\ Kept' = Kept
    BY <1>1 DEF Stored, Copied, Kept, vars, tableVars
  <2>2. TypeOK' /\ FirstInv' /\ CallInv' /\ CountInv'
    BY <1>1, <2>1 DEF Inv, TypeOK, FirstInv, CallInv, CountInv, Bounded, vars, tableVars
  <2>3. WholeInv' /\ ProbeInv' /\ ResizeInv'
    BY <1>1, <2>1 DEF Inv, WholeInv, ProbeInv, ResizeInv, vars, tableVars
  <2> QED
    BY <2>2, <2>3 DEF Inv
<1> QED
  BY <1>1, PutInv, ResizeStepInv, ResizedInv, ProbeStepInv DEF Next, Continue

\* What every step keeps.
LEMMA Invariance == Spec => []Inv
<1>1. Inv /\ [Next]_vars => Inv'
  BY InvNext
<1> QED
  BY <1>1, InitInv, PTL DEF Spec

\* The variables of the table have their types, and resize never makes a table with
\* four slots or more for each entry that was counted.
THEOREM TableTypeCorrect == Spec => []TypeOK
<1>1. Inv => TypeOK
  BY DEF Inv
<1> QED
  BY <1>1, Invariance, PTL

\* putIfEmpty and resize keep the entries apart and where the probes for their keys come
\* to them, for every hash, every order of the puts and every number of turns resize
\* has done; of the keys, a resize can only lose those first stored with the value 1, as
\* operator!= takes their entries for free slots.
THEOREM TableKeepsKeys == Spec => []KeysReachable
<1>1. ASSUME Inv, pc = "ready" PROVE
        /\ elts >= Cardinality(TakenSlots)
        /\ \A s \in TakenSlots : Meets(table[s].key, s)
        /\ \A r, s \in TakenSlots : table[r].key = table[s].key => r = s
        /\ \A k \in Kept : \E s \in TakenSlots : table[s] = Entry(k, first[k])
  <2>1. table \in Tables(size) /\ DOMAIN table = 0..size - 1
    BY <1>1 DEF Inv, TypeOK, Tables
  <2>2. TakenSlots = Taken(table, size)
    BY <2>1 DEF TakenSlots, Taken
  <2>3. elts >= Cardinality(Taken(table, size))
    BY <1>1, Numbers, TakenFinite DEF Inv, CountInv
  <2>4. FirstOnes(table, size, first, Kept) /\ AllReached(table, size) /\ Has(table, size, first, Kept)
    BY <1>1 DEF Inv, WholeInv
  <2>5. ASSUME NEW s \in Taken(table, size) PROVE Meets(table[s].key, s)
    <3>1. /\ table[s].key \in Keys /\ table[s] = Entry(table[s].key, table[s].value)
          /\ table[s] # EMPTY
      BY <1>1, <2>1, Numbers, SlotTyped DEF Taken
    <3>2. PICK d \in 0..size - 1 :
            /\ table[SlotOf(table[s].key, d, size)] = Entry(table[s].key, table[s].value)
            /\ \A c \in 0..d - 1 : table[SlotOf(table[s].key, c, size)] # EMPTY
      BY <2>4 DEF AllReached, Reached
    <3>3. SlotOf(table[s].key, d, size) \in Taken(table, size)
      BY <1>1, <3>1, <3>2, Numbers, SlotInTable DEF Taken
    <3>4. SlotOf(table[s].key, d, size) = s
      BY <2>4, <3>1, <3>2, <3>3 DEF FirstOnes
    <3> QED
      BY <3>2, <3>4 DEF Meets, SlotOf, Slot
  <2>6. ASSUME NEW k \in Kept PROVE \E s \in Taken(table, size) : table[s] = Entry(k, first[k])
    <3>1. PICK s \in Taken(table, size) : table[s].key = k /\ table[s].value = first[k]
      BY <2>4 DEF Has
    <3>2. table[s] = Entry(table[s].key, table[s].value)
      BY <1>1, <2>1, Numbers, SlotTyped DEF Taken
    <3> QED
      BY <3>1, <3>2
  <2> QED
    BY <2>2, <2>3, <2>4, <2>5, <2>6 DEF FirstOnes
<1>2. Inv => KeysReachable
  BY <1>1 DEF KeysReachable
<1> QED
  BY <1>2, Invariance, PTL

\* putIfEmpty returns the first value of a key that is stored and 0 for another one,
\* through every resize; only for a key first stored with the value 1 the answer is
\* left open once the table has been resized.
THEOREM PutIfEmptyAnswers == Spec => ReturnsOccupant
<1> DEFINE A == ret' # Nothing /\ ret = Nothing /\ (first[key] = Nothing \/ key \in Kept) =>
                  ret' = IF first[key] = Nothing THEN 0 ELSE first[key]
<1>1. ASSUME Inv, [Next]_vars PROVE A
  <2>1. CASE UNCHANGED ret \/ ret' = Nothing
    BY <2>1
  <2>2. CASE Probe
    <3>1. pc = "probe" /\ Slot(key, j) = SlotOf(key, j, size) /\ key \in Keys
      BY <1>1, <2>2 DEF Probe, Slot, SlotOf, Inv, CallInv
    <3>2. \/ table[SlotOf(key, j, size)] = EMPTY /\ ret' = 0
          \/ /\ table[SlotOf(key, j, size)] # EMPTY /\ table[SlotOf(key, j, size)].key = key
             /\ ret' = table[SlotOf(key, j, size)].value
          \/ UNCHANGED ret
      BY <2>2, <3>1 DEF Probe, Return
    <3>3. CASE table[SlotOf(key, j, size)] = EMPTY /\ ret' = 0
      <4>1. key \notin Kept
        BY <1>1, <3>1, <3>3, FreeSlotOfNewKey
      <4> QED
        BY <3>3, <4>1
    <3>4. CASE /\ table[SlotOf(key, j, size)] # EMPTY /\ table[SlotOf(key, j, size)].key = key
               /\ ret' = table[SlotOf(key, j, size)].value
      BY <1>1, <3>1, <3>4, OccupantIsFirst
    <3> QED
      BY <3>2, <3>3, <3>4
  <2> QED
    BY <1>1, <2>1, <2>2 DEF Next, Continue, PutIfEmpty, ResizeStep, Resized, vars
<1>2. [][A]_vars => ReturnsOccupant
  BY PTL DEF ReturnsOccupant
<1>3. ASSUME Inv PROVE [Next]_vars => [A]_vars
  BY <1>1, <1>3
<1> QED
  BY <1>2, <1>3, Invariance, PTL DEF Spec
=============================================================================
