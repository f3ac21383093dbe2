----------------------------- MODULE HashTable -----------------------------
(***************************************************************************)
(* HashTable, hashMap.hpp, as LSM::range uses it: putIfEmpty with linear   *)
(* probing, and the resize it does when the table is half full, one turn   *)
(* of their loops at a time.  Arrays are indexed from 0, as in the code.   *)
(***************************************************************************)
EXTENDS Integers, FiniteSets

CONSTANTS
  Keys,          \* the keys of the entries
  Values,        \* their values, numbers as operator!= counts with them
  Hash,          \* Hash[k]: the hash of key k, and of INT_MIN, the key of EMPTY
  InitialSize,   \* _size after the constructor
  IntMin,        \* INT_MIN
  Nothing,       \* no value
  MaxElts        \* bound: the count after which no put takes a slot without storing a key
                 \* that is new, as EMPTY does and a key that a resize has lost

ASSUME TableAssumption ==
  /\ Keys \subseteq Int /\ IsFiniteSet(Keys) /\ Values \subseteq Int
  /\ IntMin \in Int /\ IntMin < 0 /\ \A k \in Keys : k >= IntMin
  /\ Nothing \notin Values \union {0}
  /\ Hash \in [Keys \union {IntMin} -> Nat]
  /\ InitialSize \in Nat /\ InitialSize >= 2 /\ MaxElts \in Nat

VARIABLES
  table,
  size,          \* _size
  elts,          \* _elts
  pc,            \* where the call is; "ready" between two calls
  key, val,      \* its arguments
  i,             \* resize: the slot of table it is at
  j,             \* the loops that probe: how far from the key's slot, modulo size
  newTable,
  ret,           \* what the last call returned, until the next one
  first          \* history: the value each key was first stored with

tableVars == <<table, size, elts>>
vars == <<tableVars, pc, key, val, i, j, newTable, ret, first>>

Entry(k, v) == [key |-> k, value |-> v]

EMPTY == Entry(IntMin, IntMin)

Fill(n) == [s \in 0..n - 1 |-> EMPTY]

\* C++'s number for a condition.
Bit(p) == IF p THEN 1 ELSE 0

\* e != EMPTY.  Without parentheses operator!= compares from left to right, and
\* each time with the number for the comparison before.
Occupied(e) == Bit(Bit(EMPTY.key # e.key) # EMPTY.value) # e.value

\* hashFunc, and the slot at distance d from it.
Slot(k, d) == ((Hash[k] % size) + d) % size

----------------------------------------------------------------------------
Init ==
  /\ size = InitialSize /\ table = Fill(InitialSize) /\ elts = 0
  /\ pc = "ready" /\ key = 0 /\ val = 0 /\ i = 0 /\ j = 0 /\ newTable = << >>
  /\ ret = Nothing
  /\ first = [k \in Keys |-> Nothing]

\* Is the count bounded for this put?
Bounded(k, v) == Entry(k, v) = EMPTY \/ first[k] = 1

\* A bug for PutIfEmpty: the table is never resized.
PutIfEmptyAsIs(k, v) ==
  /\ pc = "ready" /\ (Bounded(k, v) => elts < MaxElts)
  /\ key' = k /\ val' = v /\ j' = 0 /\ ret' = Nothing
  /\ pc' = "probe"
  /\ UNCHANGED <<table, size, elts, i, newTable, first>>

\* putIfEmpty, and the head of resize.
PutIfEmpty(k, v) ==
  /\ pc = "ready" /\ (Bounded(k, v) => elts < MaxElts)
  /\ key' = k /\ val' = v /\ j' = 0 /\ ret' = Nothing
  /\ IF 2 * elts > size
       THEN pc' = "resize" /\ size' = 2 * size /\ newTable' = Fill(2 * size)
       ELSE pc' = "probe" /\ UNCHANGED <<size, newTable>>
  /\ UNCHANGED <<table, elts, i, first>>

\* A bug for NewSlot: with the hash of the smaller table.
NewSlotOld(k) == ((Hash[k] % (size \div 2)) + j) % size

\* The slot of the new table that resize's inner loop is at with key k.
NewSlot(k) == Slot(k, j)

\* A turn of the loops of resize: an entry with value 1, which is passed over, a free
\* slot for the entry or one that is taken.  EMPTY is looked for a slot as well, from
\* the hash of INT_MIN on, and is written over EMPTY.
ResizeStep ==
  /\ pc = "resize" /\ i < size \div 2
  /\ LET e == table[i]
         s == NewSlot(e.key)
     IN  \/ /\ ~Occupied(e)
            /\ i' = i + 1 /\ j' = 0
            /\ UNCHANGED newTable
         \/ /\ Occupied(e) /\ newTable[s] = EMPTY
            /\ newTable' = [newTable EXCEPT ![s] = e]
            /\ i' = i + 1 /\ j' = 0
         \/ /\ Occupied(e) /\ newTable[s] # EMPTY
            /\ j' = (j + 1) % size
            /\ UNCHANGED <<i, newTable>>
  /\ UNCHANGED <<tableVars, pc, key, val, ret, first>>

\* A bug for Resized: table = newTable is left out.
ResizedNot ==
  /\ pc = "resize" /\ i = size \div 2
  /\ newTable' = << >> /\ i' = 0
  /\ pc' = "probe"
  /\ UNCHANGED <<tableVars, key, val, j, ret, first>>

\* The end of resize.
Resized ==
  /\ pc = "resize" /\ i = size \div 2
  /\ table' = newTable /\ newTable' = << >> /\ i' = 0
  /\ pc' = "probe"
  /\ UNCHANGED <<size, elts, key, val, j, ret, first>>

\* The pair of INT_MIN and the tombstone is EMPTY, and storing it leaves no trace but
\* in _elts.
Return(v) ==
  /\ pc' = "ready" /\ key' = 0 /\ val' = 0 /\ j' = 0
  /\ ret' = v
  /\ first' = [first EXCEPT ![key] = IF @ = Nothing /\ Entry(key, val) # EMPTY THEN val ELSE @]

\* A bug for Probe: the key of the entry is not compared.
ProbeFirst ==
  /\ pc = "probe"
  /\ LET s == Slot(key, j)
     IN  \/ /\ table[s] = EMPTY
            /\ table' = [table EXCEPT ![s] = Entry(key, val)] /\ elts' = elts + 1
            /\ Return(0)
         \/ table[s] # EMPTY /\ Return(table[s].value) /\ UNCHANGED <<table, elts>>
  /\ UNCHANGED <<size, i, newTable>>

\* A turn of putIfEmpty's loop: a free slot, the key, or another key.
Probe ==
  /\ pc = "probe"
  /\ LET s == Slot(key, j)
     IN  \/ /\ table[s] = EMPTY
            /\ table' = [table EXCEPT ![s] = Entry(key, val)] /\ elts' = elts + 1
            /\ Return(0)
         \/ /\ table[s] # EMPTY /\ table[s].key = key
            /\ Return(table[s].value)
            /\ UNCHANGED <<table, elts>>
         \/ /\ table[s] # EMPTY /\ table[s].key # key
            /\ j' = (j + 1) % size
            /\ UNCHANGED <<table, elts, pc, key, val, ret, first>>
  /\ UNCHANGED <<size, i, newTable>>

Continue == ResizeStep \/ Resized \/ Probe

Next == (\E k \in Keys, v \in Values : PutIfEmpty(k, v)) \/ Continue

Spec == Init /\ [][Next]_vars

\* The thread that called runs.
FairSpec == Spec /\ WF_vars(Continue)

----------------------------------------------------------------------------
(* Properties *)

Tables(n) == [0..n - 1 -> [key : Keys, value : Values] \union {EMPTY}]

\* The table stays below four slots for each entry counted.
TypeOK ==
  /\ size \in Nat /\ InitialSize <= size /\ (size = InitialSize \/ size < 4 * elts)
  /\ table \in Tables(IF pc = "resize" THEN size \div 2 ELSE size)
  /\ elts \in 0..Cardinality(Keys) + MaxElts
  /\ pc \in {"ready", "resize", "probe"}
  /\ key \in Int /\ val \in Int /\ i \in 0..size \div 2 /\ j \in 0..size - 1
  /\ newTable \in IF pc = "resize" THEN Tables(size) ELSE {<< >>}
  /\ ret \in Values \union {0, Nothing}
  /\ first \in [Keys -> Values \union {Nothing}]

\* The keys that were stored and that no resize can have lost: it takes an entry
\* with value 1 for a free slot.
Kept == {k \in Keys : first[k] # Nothing /\ (first[k] # 1 \/ size = InitialSize)}

TakenSlots == {s \in DOMAIN table : table[s] # EMPTY}

\* No free slot comes before slot s where the probes look for key k.
Meets(k, s) ==
  \E d \in 0..size - 1 : Slot(k, d) = s /\ \A c \in 0..d - 1 : table[Slot(k, c)] # EMPTY

\* Between two calls every entry is where the probes for its key come to it, each key has
\* one at most, and every key that was stored and is not lost has one with the value it
\* was first stored with, in whatever order the keys came and the table grew, and also
\* when more was counted than is in the table.
KeysReachable ==
  pc = "ready" =>
    /\ elts >= Cardinality(TakenSlots)
    /\ \A s \in TakenSlots : Meets(table[s].key, s)
    /\ \A r, s \in TakenSlots : table[r].key = table[s].key => r = s
    /\ \A k \in Kept : \E s \in TakenSlots : table[s] = Entry(k, first[k])

\* putIfEmpty returns the "current occupant", which is the first value of the key, or
\* 0 for a key that is not stored, unless a resize lost the key.  Then 0 is also the
\* answer for a key whose first value is 0 and, as often as it is put, for the deleted
\* key INT_MIN.
ReturnsOccupant ==
  [][ret' # Nothing /\ ret = Nothing /\ (first[key] = Nothing \/ key \in Kept) =>
       ret' = IF first[key] = Nothing THEN 0 ELSE first[key]]_vars

\* The loops, which have no bound of their own, end: they always meet a free slot.
CallsReturn == pc # "ready" ~> pc = "ready"
=============================================================================
