--------------------------- MODULE SkipListProofs ---------------------------
(***************************************************************************)
(* The skip list of skipList.hpp, for every set of keys, every MAXLEVEL    *)
(* and every level that is drawn: no call follows a null pointer, each     *)
(* level stays a sorted list, and between two calls the list is the map    *)
(* that LSM takes a buffer run for, and answers like it.                   *)
(***************************************************************************)
EXTENDS SkipList, FiniteSetTheorems, SequenceTheorems, TLAPS

----------------------------------------------------------------------------
(* The inductive invariant *)

\* Every level is made of nodes of the lowest one.
NestedInv == \A l \in Levels : On(l) \subseteq On(1)

\* A node that is linked has a value.
ValuesInv == \A x \in On(1) \ {p_listHead} : value[x] \in Stored

\* Node x of level l comes before the key that is searched.
Left(l, x) == x \in On(l) /\ (x = p_listHead \/ x < key)

\* It is the last one on the level that does.
LastLeft(l, x) == Left(l, x) /\ NodeKey(forward[l][x]) >= key

\* The search is on the way to the key, and update has the last nodes before the key
\* on the levels it has come through.
SeekInv ==
  pc = "seek" =>
    /\ key \in Keys /\ op \in {"insert", "lookup"} /\ (op = "insert" => arg \in Stored)
    /\ level \in 0..cur_max_level
    /\ level > 0 => Left(level, curr)
    /\ \A l \in level + 1..cur_max_level : LastLeft(l, update[l])
    /\ level = 0 => curr = update[1]

\* The nodes of the lowest level in front of node c.
Passed(c) == {x \in On(1) \ {p_listHead} : c = p_listTail \/ x < c}

\* The scans have come to a node of the list; what they have left out is before the
\* range.
ScanInv ==
  /\ pc \in {"ready", "seek"} => vec = << >>
  /\ pc \in {"skip", "copy"} => curr \in (On(1) \ {p_listHead}) \union {p_listTail}
  /\ pc = "skip" => op = "range" /\ vec = << >> /\ \A x \in Passed(curr) : x < key
  /\ pc = "copy" => op \in {"range", "all"}
  /\ pc \in {"skip", "copy"} /\ op = "range" =>
       /\ key \in Bounds /\ arg \in Bounds /\ key < arg
       /\ ~(key > max \/ arg < min)

\* They have copied all entries of the range up to there.
CopyInv ==
  pc = "copy" =>
    /\ \A a, b \in DOMAIN vec : a < b => vec[a].key < vec[b].key
    /\ op = "range" => NodeKey(curr) >= key /\ \A x \in Passed(curr) : x < arg
    /\ ToSet(vec) = {Entry(x) : x \in {y \in Passed(curr) : op = "range" => key <= y}}

\* The counter: what a call of insert_key counts was not counted before.
CountInv == n <= inserts /\ (pc = "seek" /\ op = "insert" => n < inserts)

\* The runs of LSM's buffer, with any counter.
BufferRuns == [elts : [Keys -> Stored \union {Absent}], n : Int, min : Int, max : Int]

\* The list is the run, but for the entry that insert_key is about to write.
RunInv ==
  /\ run \in BufferRuns
  /\ min = run.min /\ max = run.max
  /\ pc = "seek" /\ op = "insert" =>
       /\ run.elts = [Listed EXCEPT ![key] = arg]
       /\ run.n = IF key \in On(1) THEN n ELSE n + 1
  /\ ~(pc = "seek" /\ op = "insert") => run.elts = Listed /\ run.n = n

\* What holds of every list.
ListInv ==
  /\ TypeOK /\ ListShape /\ NestedInv /\ ValuesInv /\ SeekInv /\ ScanInv /\ CountInv /\ NoNull

\* What holds without the key INT32_MAX.
Refined == RunInv /\ CopyInv /\ AnswersAsRun

----------------------------------------------------------------------------
(* The constants *)

\* What the assumptions say of the keys and of the nodes that are no keys.
LEMMA Facts ==
  /\ MaxLevel \in Nat /\ MaxLevel >= 3 /\ 1 \in Levels /\ Levels = 1..MaxLevel
  /\ MinKey \in Int /\ MaxKey \in Int /\ MinKey < MaxKey
  /\ Keys \subseteq Int /\ \A k \in Keys : MinKey <= k /\ k <= MaxKey
  /\ Bounds \subseteq Int /\ \A b \in Bounds : MinKey <= b /\ b <= MaxKey
  /\ p_listHead \notin Keys /\ p_listTail \notin Keys /\ Null \notin Keys
  /\ p_listHead # p_listTail /\ p_listHead # Null /\ p_listTail # Null
  /\ Nodes = Keys \union {p_listHead, p_listTail} /\ Null \notin Nodes
  /\ Absent \notin Stored /\ Stored = Values \union {Tombstone} /\ MaxInserts \in Nat
<1>1. p_listHead # p_listTail /\ p_listHead # Null /\ p_listTail # Null
  <2>1. ASSUME NEW a, NEW b PROVE Cardinality({a, b}) <= 2
    <3>1. {a, b} = {a} \union {b}
      OBVIOUS
    <3>2. IsFiniteSet({a}) /\ Cardinality({a}) = 1
      BY FS_Singleton
    <3>3. Cardinality({a} \union {b}) = IF b \in {a} THEN Cardinality({a}) ELSE Cardinality({a}) + 1
      BY <3>2, FS_AddElement
    <3> QED
      BY <3>1, <3>2, <3>3
  <2>2. Cardinality({p_listHead, p_listTail, Null}) = 3
    BY ListAssumption DEF ListAssumption
  <2>3. ASSUME p_listHead = p_listTail \/ p_listHead = Null \/ p_listTail = Null PROVE FALSE
    <3>1. \/ {p_listHead, p_listTail, Null} = {p_listHead, p_listTail}
          \/ {p_listHead, p_listTail, Null} = {p_listHead, Null}
      BY <2>3
    <3>2. Cardinality({p_listHead, p_listTail}) <= 2 /\ Cardinality({p_listHead, Null}) <= 2
      BY <2>1
    <3>3. 3 <= 2
      BY <2>2, <3>1, <3>2
    <3> QED
      BY <3>3
  <2> QED
    BY <2>3
<1> QED
  BY <1>1, ListAssumption DEF ListAssumption, Levels, Nodes, Stored

\* The keys of the nodes.
LEMMA NodeKeys ==
  /\ NodeKey(p_listHead) = MinKey /\ NodeKey(p_listTail) = MaxKey
  /\ \A k \in Keys : NodeKey(k) = k
<1>1. NodeKey(p_listHead) = MinKey
  <2>1. p_listHead # p_listTail
    BY Facts
  <2> QED
    BY <2>1, Zenon DEF NodeKey
<1>2. NodeKey(p_listTail) = MaxKey
  <2>1. p_listTail # p_listHead
    BY Facts
  <2> QED
    BY <2>1, Zenon DEF NodeKey
<1>3. ASSUME NEW k \in Keys PROVE NodeKey(k) = k
  <2>1. k # p_listTail /\ k # p_listHead
    BY Facts
  <2> QED
    BY <2>1, Zenon DEF NodeKey
<1> QED
  BY <1>1, <1>2, <1>3

----------------------------------------------------------------------------
(* One level *)

\* The nodes that pointers g link.
OnIn(g) == {x \in Nodes \ {p_listTail} : g[x] # Null}

\* y is the next node after x among the nodes of S.
NextIn(S, x, y) ==
  /\ y \in S \union {p_listTail} /\ y # p_listHead
  /\ x # p_listHead /\ y # p_listTail => x < y
  /\ \A z \in S \ {x, y, p_listHead} : x = p_listHead \/ z > x => y # p_listTail /\ z > y

SortedList(g) ==
  /\ p_listHead \in OnIn(g) /\ g[p_listTail] = Null
  /\ \A x \in OnIn(g) : NextIn(OnIn(g), x, g[x])

\* The shape of the list, level by level.
LEMMA ShapeByLevel ==
  ListShape <=> \A l \in Levels : /\ SortedList(forward[l])
                                  /\ l > cur_max_level => On(l) = {p_listHead}
                                  /\ l > 1 => On(l) \subseteq On(l - 1)
  BY DEF ListShape, SortedList, NextIn, On, OnIn

\* The pointers of a level with k between b and the node after it.
WithNode(g, k, b) == [g EXCEPT ![k] = g[b], ![b] = k]

\* A new node between a node and the one after it.
LEMMA LinkSorted ==
  ASSUME NEW g \in [Nodes -> Nodes \union {Null}], SortedList(g), NEW k \in Keys, k \notin OnIn(g),
         NEW b \in OnIn(g), b = p_listHead \/ b < k, g[b] = p_listTail \/ k < g[b]
  PROVE  /\ WithNode(g, k, b) \in [Nodes -> Nodes \union {Null}]
         /\ OnIn(WithNode(g, k, b)) = OnIn(g) \union {k}
         /\ SortedList(WithNode(g, k, b))
<1> DEFINE h == WithNode(g, k, b)
           S == OnIn(g)
           y == g[b]
<1>1. /\ k \in Nodes /\ b \in Nodes /\ k # b /\ k \in Int /\ k # p_listHead /\ k # p_listTail
      /\ S \subseteq Nodes /\ p_listTail \notin S /\ Null \notin Nodes /\ k # Null
      /\ \A x \in S : x = p_listHead \/ x \in Keys
      /\ \A x \in Keys : x \in Int
  BY Facts DEF OnIn
<1>2. /\ p_listHead \in S /\ g[p_listTail] = Null
      /\ \A x \in S : NextIn(S, x, g[x])
  BY DEF SortedList
<1>3. NextIn(S, b, y) /\ y # Null /\ y \in Nodes /\ y # k
  <2>1. NextIn(S, b, y)
    BY <1>2
  <2> QED
    BY <1>1, <2>1, Facts DEF NextIn
<1>4. h \in [Nodes -> Nodes \union {Null}]
  BY <1>1 DEF WithNode
<1>5. h[k] = y /\ h[b] = k /\ \A x \in Nodes : x # k /\ x # b => h[x] = g[x]
  BY <1>1 DEF WithNode
<1> HIDE DEF h
<1>6. OnIn(h) = S \union {k}
  BY <1>1, <1>3, <1>5 DEF OnIn
<1> DEFINE T == S \union {k}
<1>7. NextIn(T, k, y)
  <2>1. y \in S \union {p_listTail} /\ y # p_listHead
    BY <1>3 DEF NextIn
  <2>2. ASSUME NEW z \in T \ {k, y, p_listHead}, z > k PROVE y # p_listTail /\ z > y
    <3>1. z \in S /\ z \in Int /\ z # b
      BY <1>1, <2>2
    <3>2. b = p_listHead \/ z > b
      BY <1>1, <2>2, <3>1
    <3> QED
      BY <1>3, <2>2, <3>1, <3>2 DEF NextIn
  <2> QED
    BY <1>1, <2>1, <2>2 DEF NextIn
<1>8. NextIn(T, b, k)
  <2>1. ASSUME NEW z \in T \ {b, k, p_listHead}, b = p_listHead \/ z > b PROVE z > k
    <3>1. z \in S /\ z \in Int
      BY <1>1, <2>1
    <3>2. CASE z = y
      <4>1. y # p_listTail
        BY <1>1, <3>1, <3>2
      <4> QED
        BY <1>1, <3>1, <3>2, <4>1
    <3>3. CASE z # y
      <4>1. y # p_listTail /\ z > y
        BY <1>3, <2>1, <3>1, <3>3 DEF NextIn
      <4>2. y \in Int
        BY <1>1, <1>3, <4>1 DEF NextIn
      <4> QED
        BY <1>1, <3>1, <4>1, <4>2
    <3> QED
      BY <3>2, <3>3
  <2> QED
    BY <1>1, <2>1 DEF NextIn
<1>9. ASSUME NEW x \in S, x # b PROVE NextIn(T, x, g[x])
  <2> DEFINE w == g[x]
  <2>1. NextIn(S, x, w)
    BY <1>2
  <2>2. w \in S \union {p_listTail} /\ w # p_listHead /\ (x # p_listHead /\ w # p_listTail => x < w)
    BY <2>1 DEF NextIn
  <2>3. \A z \in S \ {x, w, p_listHead} : x = p_listHead \/ z > x => w # p_listTail /\ z > w
    BY <2>1 DEF NextIn
  <2>4. \A z \in S \ {b, y, p_listHead} : b = p_listHead \/ z > b => y # p_listTail /\ z > y
    BY <1>3 DEF NextIn
  <2> HIDE DEF w
  <2>5. ASSUME x = p_listHead \/ k > x PROVE w # p_listTail /\ k > w
    <3>1. b # p_listHead
      <4>1. ASSUME b = p_listHead PROVE FALSE
        <5>1. x # p_listHead /\ x \in Int /\ x < k
          BY <1>1, <1>9, <2>5, <4>1
        <5>2. x # y
          BY <1>1, <5>1
        <5>3. y # p_listTail /\ x > y
          BY <1>9, <2>4, <4>1, <5>1, <5>2
        <5>4. y \in Int /\ k < y
          BY <1>1, <1>3, <5>3 DEF NextIn
        <5> QED
          BY <1>1, <5>1, <5>3, <5>4
      <4> QED
        BY <4>1
    <3>2. b \in Int /\ b < k /\ b # p_listTail
      BY <1>1, <3>1
    <3>3. x = p_listHead \/ b > x
      <4>1. ASSUME x # p_listHead, ~(b > x) PROVE FALSE
        <5>1. x \in Int /\ x > b /\ k > x
          BY <1>1, <1>9, <2>5, <3>2, <4>1
        <5>2. x # y
          BY <1>1, <5>1
        <5>3. y # p_listTail /\ x > y
          BY <1>9, <2>4, <4>1, <5>1, <5>2
        <5>4. y \in Int /\ k < y
          BY <1>1, <1>3, <5>3 DEF NextIn
        <5> QED
          BY <1>1, <5>1, <5>3, <5>4
      <4> QED
        BY <4>1
    <3>4. CASE w = b
      BY <3>2, <3>4
    <3>5. CASE w # b
      <4>1. w # p_listTail /\ b > w
        BY <1>9, <2>3, <3>1, <3>3, <3>5
      <4>2. w \in Int
        BY <1>1, <2>2, <4>1
      <4> QED
        BY <1>1, <3>2, <4>1, <4>2
    <3> QED
      BY <3>4, <3>5
  <2> QED
    BY <1>1, <2>2, <2>3, <2>5 DEF NextIn, w
<1>10. SortedList(h)
  <2>1. p_listHead \in T /\ h[p_listTail] = Null
    BY <1>1, <1>2, <1>5, Facts
  <2>2. ASSUME NEW x \in T PROVE NextIn(T, x, h[x])
    BY <1>1, <1>5, <1>7, <1>8, <1>9
  <2> QED
    BY <1>6, <2>1, <2>2 DEF SortedList
<1> QED
  BY <1>4, <1>6, <1>10 DEF h

----------------------------------------------------------------------------
(* Going along the lowest level *)

\* What the shape says of a level.
LEMMA LevelFacts ==
  ASSUME TypeOK, ListShape, NEW l \in Levels
  PROVE  /\ forward[l] \in [Nodes -> Nodes \union {Null}] /\ SortedList(forward[l])
         /\ On(l) = OnIn(forward[l]) /\ p_listHead \in On(l) /\ On(l) \subseteq Keys \union {p_listHead}
         /\ \A x \in On(l) : /\ NextIn(On(l), x, forward[l][x]) /\ forward[l][x] # Null
                             /\ forward[l][x] \in (On(l) \ {p_listHead}) \union {p_listTail}
<1>1. forward[l] \in [Nodes -> Nodes \union {Null}] /\ SortedList(forward[l]) /\ On(l) = OnIn(forward[l])
  BY ShapeByLevel DEF TypeOK, On, OnIn
<1>2. On(l) \subseteq Keys \union {p_listHead}
  BY Facts DEF On
<1>3. p_listHead \in On(l) /\ \A x \in On(l) : NextIn(On(l), x, forward[l][x]) /\ forward[l][x] # Null
  BY <1>1 DEF SortedList, On
<1>4. \A x \in On(l) : forward[l][x] \in (On(l) \ {p_listHead}) \union {p_listTail}
  BY <1>3 DEF NextIn
<1> QED
  BY <1>1, <1>2, <1>3, <1>4

\* No node is in front of the first one.
LEMMA FirstPassed ==
  ASSUME TypeOK, ListShape
  PROVE  Passed(forward[1][p_listHead]) = {}
<1> DEFINE S == On(1)
           y == forward[1][p_listHead]
<1>1. S \subseteq Keys \union {p_listHead} /\ NextIn(S, p_listHead, y)
      /\ y \in (S \ {p_listHead}) \union {p_listTail} /\ Keys \subseteq Int /\ p_listTail \notin Keys
  BY Facts, LevelFacts
<1> HIDE DEF S, y
<1>2. ASSUME NEW x \in S \ {p_listHead}, y = p_listTail \/ x < y PROVE FALSE
  <2>1. x # y
    BY <1>1, <1>2
  <2>2. y # p_listTail /\ x > y
    BY <1>1, <1>2, <2>1 DEF NextIn
  <2> QED
    BY <1>1, <1>2, <2>2
<1> QED
  BY <1>2 DEF Passed, S, y

\* One node further one node more is passed.
LEMMA NextPassed ==
  ASSUME TypeOK, ListShape, NEW c \in On(1) \ {p_listHead}
  PROVE  Passed(forward[1][c]) = Passed(c) \union {c}
<1> DEFINE S == On(1)
           y == forward[1][c]
<1>1. S \subseteq Keys \union {p_listHead} /\ NextIn(S, c, y)
      /\ y \in (S \ {p_listHead}) \union {p_listTail} /\ Keys \subseteq Int /\ p_listTail \notin Keys
      /\ c \in S /\ c # p_listHead
  BY Facts, LevelFacts
<1>2. Passed(c) = {x \in S \ {p_listHead} : c = p_listTail \/ x < c}
      /\ Passed(y) = {x \in S \ {p_listHead} : y = p_listTail \/ x < y}
  BY DEF Passed
<1> HIDE DEF S, y
<1>3. c \in Int /\ c # p_listTail
  BY <1>1
<1>4. ASSUME NEW x \in S \ {p_listHead}
      PROVE  (y = p_listTail \/ x < y) <=> (x < c \/ x = c)
  <2>1. x \in Int
    BY <1>1
  <2>2. CASE y = p_listTail
    <3>1. x > c => x = y
      BY <1>1, <2>2 DEF NextIn
    <3>2. x # y
      BY <1>1, <2>2
    <3> QED
      BY <1>3, <2>1, <2>2, <3>1, <3>2
  <2>3. CASE y # p_listTail
    <3>1. y \in Int /\ c < y
      BY <1>1, <2>3 DEF NextIn
    <3>2. x > c /\ x # y => x > y
      BY <1>1 DEF NextIn
    <3> QED
      BY <1>3, <2>1, <2>3, <3>1, <3>2
  <2> QED
    BY <2>2, <2>3
<1> QED
  BY <1>1, <1>2, <1>3, <1>4 DEF y

----------------------------------------------------------------------------
(* The steps that leave the list alone *)

\* The list stays.
LEMMA ListFrame ==
  ASSUME ListShape, NestedInv, ValuesInv, UNCHANGED listVars
  PROVE  (ListShape /\ NestedInv /\ ValuesInv)'
  BY DEF ListShape, NestedInv, ValuesInv, On, listVars

\* Init
LEMMA InitList == Init => ListInv /\ Refined
<1> SUFFICES ASSUME Init PROVE ListInv /\ Refined
  OBVIOUS
<1>1. \A l \in Levels : On(l) = {p_listHead} /\ forward[l][p_listHead] = p_listTail /\ forward[l][p_listTail] = Null
  BY Facts DEF Init, On
<1>2. TypeOK
  BY Facts DEF Init, TypeOK, Stored
<1>3. ListShape
  <2>1. ASSUME NEW l \in Levels PROVE SortedList(forward[l])
    <3>1. OnIn(forward[l]) = {p_listHead}
      BY <1>1 DEF On, OnIn
    <3> QED
      BY <1>1, <3>1, Facts DEF SortedList, NextIn
  <2>2. \A l \in Levels : l > 1 => l - 1 \in Levels
    BY Facts
  <2> QED
    BY <1>1, <2>1, <2>2, ShapeByLevel
<1>4. NestedInv /\ ValuesInv
  BY <1>1, Facts DEF NestedInv, ValuesInv
<1>5. SeekInv /\ ScanInv /\ CountInv /\ NoNull /\ CopyInv
  BY DEF Init, SeekInv, ScanInv, CountInv, NoNull, CopyInv
<1>6. Listed = [k \in Keys |-> Absent]
  BY <1>1, Facts DEF Listed
<1>7. RunInv
  BY <1>6 DEF Init, RunInv, BufferRuns, EmptyRun
<1>8. AnswersAsRun
  BY DEF Init, AnswersAsRun, NoRet
<1> QED
  BY <1>2, <1>3, <1>4, <1>5, <1>7, <1>8 DEF ListInv, Refined

----------------------------------------------------------------------------
(* The search *)

\* The first node of a search.
LEMMA SearchStarts ==
  ASSUME ListInv, pc = "ready", NEW call \in {"insert", "lookup"}, NEW k \in Keys, NEW a,
         call = "insert" => a \in Stored, Seek(call, k, a), UNCHANGED <<forward, cur_max_level>>
  PROVE  SeekInv'
<1>1. /\ pc' = "seek" /\ op' = call /\ key' = k /\ arg' = a /\ level' = cur_max_level /\ curr' = p_listHead
      /\ UNCHANGED update
  BY DEF Seek
<1>2. cur_max_level \in 1..MaxLevel - 2 /\ cur_max_level \in Levels /\ cur_max_level + 1..cur_max_level = {}
  BY Facts DEF ListInv, TypeOK
<1>3. Left(cur_max_level, p_listHead)'
  BY <1>1, <1>2, LevelFacts DEF ListInv, Left, On
<1> QED
  BY <1>1, <1>2, <1>3 DEF SeekInv

\* insert_key up to the search.
LEMMA InsertList ==
  ASSUME ListInv, NEW k \in Keys, NEW v \in Stored, Insert(k, v)
  PROVE  ListInv'
<1>1. /\ pc = "ready" /\ inserts < MaxInserts /\ inserts' = inserts + 1
      /\ Seek("insert", k, v) /\ UNCHANGED <<forward, value, cur_max_level, n>>
      /\ max' = IF k > max THEN k ELSE max
      /\ min' = IF k <= max /\ k < min THEN k ELSE min
  BY DEF Insert
<1>2. TypeOK'
  BY <1>1, Facts DEF ListInv, TypeOK, Seek
<1>3. (ListShape /\ NestedInv /\ ValuesInv)'
  BY <1>1 DEF ListInv, ListShape, NestedInv, ValuesInv, On
<1>4. SeekInv'
  BY <1>1, SearchStarts
<1>5. (ScanInv /\ CountInv /\ NoNull)'
  BY <1>1 DEF ListInv, TypeOK, ScanInv, CountInv, NoNull, Seek
<1> QED
  BY <1>2, <1>3, <1>4, <1>5 DEF ListInv

\* lookup up to the search.
LEMMA LookupList ==
  ASSUME ListInv, NEW k \in Keys, Lookup(k)
  PROVE  ListInv'
<1>1. pc = "ready" /\ Seek("lookup", k, Absent) /\ UNCHANGED <<listVars, inserts>>
  BY DEF Lookup
<1>2. TypeOK'
  BY <1>1, Facts DEF ListInv, TypeOK, Seek, listVars
<1>3. (ListShape /\ NestedInv /\ ValuesInv)'
  BY <1>1, ListFrame DEF ListInv
<1>4. SeekInv'
  BY <1>1, SearchStarts DEF listVars
<1>5. (ScanInv /\ CountInv /\ NoNull)'
  BY <1>1 DEF ListInv, TypeOK, ScanInv, CountInv, NoNull, Seek, listVars
<1> QED
  BY <1>2, <1>3, <1>4, <1>5 DEF ListInv

\* A turn of the search goes on to the next node or one level down.
LEMMA SeekStepList ==
  ASSUME ListInv, SeekStep
  PROVE  ListInv'
<1> DEFINE next == forward[level][curr]
<1>1. /\ pc = "seek" /\ level > 0
      /\ UNCHANGED <<listVars, op, key, arg, vec, ret, inserts, run>>
      /\ \/ /\ next # Null /\ NodeKey(next) < key
            /\ curr' = next
            /\ UNCHANGED <<pc, level, update>>
         \/ /\ next # Null /\ NodeKey(next) >= key
            /\ update' = [update EXCEPT ![level] = curr]
            /\ level' = level - 1
            /\ UNCHANGED <<pc, curr>>
         \/ next = Null /\ pc' = "null" /\ UNCHANGED <<level, curr, update>>
  BY DEF SeekStep
<1>2. /\ key \in Keys /\ op \in {"insert", "lookup"} /\ (op = "insert" => arg \in Stored)
      /\ level \in 1..cur_max_level /\ level \in Levels /\ Left(level, curr)
      /\ \A l \in level + 1..cur_max_level : LastLeft(l, update[l])
      /\ cur_max_level \in 1..MaxLevel - 2 /\ MaxLevel \in Nat
  BY <1>1, Facts DEF ListInv, TypeOK, SeekInv
<1>3. /\ next # Null /\ next \in (On(level) \ {p_listHead}) \union {p_listTail}
      /\ On(level) \subseteq Keys \union {p_listHead} /\ next \in Nodes
  BY <1>2, LevelFacts, Facts DEF ListInv, Left
<1> HIDE DEF next
<1>4. (ListShape /\ NestedInv /\ ValuesInv)'
  BY <1>1, ListFrame DEF ListInv
<1>5. \A l, x : Left(l, x)' <=> Left(l, x)
  BY <1>1 DEF Left, On, listVars
<1>6. \A l, x : LastLeft(l, x)' <=> LastLeft(l, x)
  BY <1>1, <1>5 DEF LastLeft, listVars
<1>7. CASE NodeKey(next) < key /\ curr' = next /\ UNCHANGED <<pc, level, update>>
  <2>1. next # p_listTail
    BY <1>2, <1>7, Facts, NodeKeys
  <2>2. next \in On(level) /\ next \in Keys /\ next < key
    BY <1>3, <1>7, <2>1, NodeKeys
  <2>3. Left(level, next)
    BY <2>2 DEF Left
  <2>4. SeekInv'
    BY <1>1, <1>2, <1>5, <1>6, <1>7, <2>3 DEF SeekInv, listVars
  <2>5. TypeOK'
    BY <1>1, <1>3, <1>7 DEF ListInv, TypeOK, listVars
  <2>6. (ScanInv /\ CountInv /\ NoNull)'
    BY <1>1, <1>7 DEF ListInv, ScanInv, CountInv, NoNull, listVars
  <2> QED
    BY <1>4, <2>4, <2>5, <2>6 DEF ListInv
<1>8. CASE NodeKey(next) >= key /\ update' = [update EXCEPT ![level] = curr] /\ level' = level - 1
           /\ UNCHANGED <<pc, curr>>
  <2>1. update' \in [Levels -> Nodes \union {Null}] /\ update'[level] = curr
        /\ \A l \in Levels : l # level => update'[l] = update[l]
    BY <1>2, <1>8 DEF ListInv, TypeOK
  <2>2. LastLeft(level, curr)
    BY <1>2, <1>8 DEF LastLeft, next
  <2>3. ASSUME NEW l \in level..cur_max_level PROVE LastLeft(l, update'[l])
    <3>1. l \in Levels /\ (l = level \/ l \in level + 1..cur_max_level)
      BY <1>2, Facts
    <3> QED
      BY <1>2, <2>1, <2>2, <3>1
  <2>4. level - 1 > 0 => Left(level - 1, curr)
    BY <1>2, Facts DEF ListInv, ListShape, Left
  <2>5. level - 1 = 0 => curr = update'[1]
    BY <1>2, <2>1
  <2>6. (level - 1) + 1 = level /\ level - 1 \in 0..cur_max_level
    BY <1>2
  <2>7. SeekInv'
    <3>1. (\A l \in level + 1..cur_max_level : LastLeft(l, update[l]))'
      BY <1>1, <1>6, <1>8, <2>3, <2>6 DEF listVars
    <3>2. (level > 0 => Left(level, curr))'
      BY <1>5, <1>8, <2>4
    <3> QED
      BY <1>1, <1>2, <1>8, <2>5, <2>6, <3>1, <3>2 DEF SeekInv, listVars
  <2>8. TypeOK'
    BY <1>1, <1>2, <1>8, <2>1 DEF ListInv, TypeOK, listVars
  <2>9. (ScanInv /\ CountInv /\ NoNull)'
    BY <1>1, <1>8 DEF ListInv, ScanInv, CountInv, NoNull, listVars
  <2> QED
    BY <1>4, <2>7, <2>8, <2>9 DEF ListInv
<1> QED
  BY <1>1, <1>3, <1>7, <1>8

----------------------------------------------------------------------------
(* The end of a call *)

\* What a call leaves behind.
LEMMA ReturnFrame ==
  ASSUME TypeOK, CountInv, NEW r, Return(r), UNCHANGED inserts,
         (forward \in [Levels -> [Nodes -> Nodes \union {Null}]])', (value \in [Nodes -> Stored \union {Absent}])',
         (cur_max_level \in 1..MaxLevel - 2)', (n \in 0..inserts)', (min \in Int /\ max \in Int)'
  PROVE  (TypeOK /\ SeekInv /\ ScanInv /\ CountInv /\ NoNull /\ CopyInv)'
<1>1. (TypeOK /\ CountInv)'
  <2>1. /\ pc' = "ready" /\ op' = "none" /\ key' = 0 /\ arg' = Absent /\ level' = 0 /\ curr' = p_listHead
        /\ update' = [l \in Levels |-> Null] /\ vec' = << >>
    BY DEF Return
  <2>2. update' \in [Levels -> Nodes \union {Null}] /\ curr' \in Nodes \union {Null}
    BY <2>1, Facts
  <2>3. level' \in 0..MaxLevel - 2 /\ key' \in Int
    BY <2>1, Facts
  <2>4. vec' \in Seq([key : Keys, value : Stored])
    BY <2>1
  <2>5. inserts' \in 0..MaxInserts /\ n' \in 0..MaxInserts
    BY Facts DEF TypeOK
  <2> QED
    BY <2>1, <2>2, <2>3, <2>4, <2>5 DEF TypeOK, CountInv
<1>2. (SeekInv /\ ScanInv /\ NoNull /\ CopyInv)'
  <2>1. pc' = "ready" /\ vec' = << >>
    BY DEF Return
  <2>2. SeekInv' /\ CopyInv'
    BY <2>1 DEF SeekInv, CopyInv
  <2>3. ScanInv'
    BY <2>1 DEF ScanInv
  <2>4. NoNull'
    BY <2>1 DEF NoNull
  <2> QED
    BY <2>2, <2>3, <2>4
<1> QED
  BY <1>1, <1>2

\* Where the search ends: behind the last node before the key.
LEMMA SearchEnds ==
  ASSUME ListInv, pc = "seek", level = 0
  PROVE  /\ key \in Keys /\ (op = "insert" => arg \in Stored)
         /\ \A l \in 1..cur_max_level : LastLeft(l, update[l])
         /\ curr = update[1] /\ LastLeft(1, curr) /\ cur_max_level \in 1..MaxLevel - 2
         /\ Reached \in (On(1) \ {p_listHead}) \union {p_listTail} /\ Reached \in Nodes
         /\ NodeKey(Reached) # key => key \notin On(1)
         /\ NodeKey(Reached) = key /\ key # MaxKey => Reached = key /\ key \in On(1)
<1>1. /\ key \in Keys /\ (op = "insert" => arg \in Stored)
      /\ \A l \in 1..cur_max_level : LastLeft(l, update[l])
      /\ curr = update[1] /\ cur_max_level \in 1..MaxLevel - 2 /\ 1 \in 1..cur_max_level
  BY Facts DEF ListInv, SeekInv, TypeOK
<1>2. LastLeft(1, curr)
  BY <1>1
<1>3. /\ Reached \in (On(1) \ {p_listHead}) \union {p_listTail} /\ On(1) \subseteq Keys \union {p_listHead}
      /\ NextIn(On(1), curr, Reached)
  BY <1>2, LevelFacts, Facts DEF ListInv, LastLeft, Left, Reached
<1>4. NodeKey(Reached) >= key
  BY <1>2 DEF LastLeft, Reached
<1>5. Reached \in Nodes
  BY <1>3, Facts
<1> DEFINE y == Reached
<1> HIDE DEF y
<1>6. ASSUME NodeKey(y) # key, key \in On(1) PROVE FALSE
  <2>1. key \in Int /\ key # p_listHead /\ (curr = p_listHead \/ curr < key) /\ (curr # p_listHead => curr \in Int)
    BY <1>1, <1>2, <1>3, Facts DEF LastLeft, Left
  <2>2. key # y /\ key # curr
    BY <1>1, <1>6, <2>1, NodeKeys
  <2>3. y # p_listTail /\ key > y
    BY <1>3, <1>6, <2>1, <2>2 DEF NextIn, y
  <2>4. y \in Keys /\ NodeKey(y) = y
    BY <1>3, <2>3, NodeKeys DEF y
  <2> QED
    BY <1>4, <2>1, <2>3, <2>4, Facts DEF y
<1>7. ASSUME NodeKey(y) = key, key # MaxKey PROVE y = key /\ key \in On(1)
  <2>1. y # p_listTail
    BY <1>7, NodeKeys
  <2>2. y \in Keys /\ NodeKey(y) = y /\ y \in On(1)
    BY <1>3, <2>1, NodeKeys DEF y
  <2> QED
    BY <1>7, <2>2
<1> QED
  BY <1>1, <1>2, <1>3, <1>5, <1>6, <1>7 DEF y

\* insert_key of a key that is there.
LEMMA OverwriteList ==
  ASSUME ListInv, Overwrite
  PROVE  (ListInv /\ CopyInv)'
<1>1. /\ pc = "seek" /\ level = 0 /\ op = "insert" /\ NodeKey(Reached) = key
      /\ value' = [value EXCEPT ![Reached] = arg] /\ Return(NoRet)
      /\ UNCHANGED <<forward, cur_max_level, n, min, max, inserts, run>>
  BY DEF Overwrite
<1>2. arg \in Stored /\ Reached \in Nodes
  BY <1>1, SearchEnds
<1>3. value' \in [Nodes -> Stored \union {Absent}]
  BY <1>1, <1>2 DEF ListInv, TypeOK
<1>4. (TypeOK /\ SeekInv /\ ScanInv /\ CountInv /\ NoNull /\ CopyInv)'
  <2>1. TypeOK /\ CountInv /\ n \in 0..inserts
    BY DEF ListInv, TypeOK, CountInv
  <2>2. /\ forward' \in [Levels -> [Nodes -> Nodes \union {Null}]] /\ cur_max_level' \in 1..MaxLevel - 2
        /\ n' \in 0..inserts' /\ min' \in Int /\ max' \in Int /\ UNCHANGED inserts
    BY <1>1, <2>1 DEF TypeOK
  <2> QED
    BY <1>1, <1>3, <2>1, <2>2, ReturnFrame
<1>5. (ListShape /\ NestedInv)'
  BY <1>1 DEF ListInv, ListShape, NestedInv, On
<1>6. ValuesInv'
  <2>1. \A x \in Nodes : value'[x] = arg \/ value'[x] = value[x]
    BY <1>1 DEF ListInv, TypeOK
  <2> QED
    BY <1>1, <1>2, <2>1 DEF ListInv, ValuesInv, On
<1> QED
  BY <1>4, <1>5, <1>6 DEF ListInv

\* insert_key of a new key: the levels below the new cur_max_level get the node.
LEMMA LinkLevel ==
  ASSUME ListInv, NEW lv \in -1..MaxLevel - 1, Link(lv), NEW l \in 1..RaisedTo(lv)
  PROVE  /\ l \in Levels /\ key \notin On(l) /\ Before(l) \in On(l) /\ LastLeft(l, Before(l))
         /\ (l > cur_max_level => Before(l) = p_listHead)
         /\ forward'[l] = [forward[l] EXCEPT ![key] = forward[l][Before(l)], ![Before(l)] = key]
<1>1. /\ pc = "seek" /\ level = 0 /\ op = "insert" /\ NodeKey(Reached) # key
      /\ forward' = Linked(lv)
  BY DEF Link
<1>2. /\ key \in Keys /\ (\A m \in 1..cur_max_level : LastLeft(m, update[m]))
      /\ cur_max_level \in 1..MaxLevel - 2 /\ key \notin On(1)
  BY <1>1, SearchEnds
<1>3. l \in Levels /\ ~(l > RaisedTo(lv))
  BY <1>2, Facts DEF RaisedTo
<1>4. key \notin On(l)
  BY <1>2, <1>3 DEF ListInv, NestedInv
<1>5. LastLeft(l, Before(l)) /\ (l > cur_max_level => Before(l) = p_listHead)
  <2>1. CASE l > cur_max_level
    <3>1. On(l) = {p_listHead}
      BY <1>3, <2>1 DEF ListInv, ListShape
    <3>2. p_listHead \in On(l) /\ forward[l][p_listHead] = p_listTail
      BY <1>3, <3>1, LevelFacts DEF ListInv
    <3> QED
      BY <1>2, <2>1, <3>2, Facts, NodeKeys DEF Before, LastLeft, Left
  <2>2. CASE ~(l > cur_max_level)
    <3>1. l \in 1..cur_max_level
      BY <1>2, <1>3, <2>2, Facts
    <3> QED
      BY <1>2, <2>2, <3>1 DEF Before
  <2> QED
    BY <2>1, <2>2
<1>6. forward'[l] = [forward[l] EXCEPT ![key] = forward[l][Before(l)], ![Before(l)] = key]
  BY <1>1, <1>3 DEF Linked
<1> QED
  BY <1>3, <1>4, <1>5, <1>6 DEF LastLeft, Left

\* On every level that there is the new node comes to its place; the levels above stay.
LEMMA LinkList ==
  ASSUME ListInv, NEW lv \in -1..MaxLevel - 1, Link(lv)
  PROVE  /\ (ListInv /\ CopyInv)'
         /\ On(1)' = On(1) \union {key} /\ key \notin On(1)
<1>1. /\ pc = "seek" /\ level = 0 /\ op = "insert" /\ NodeKey(Reached) # key
      /\ cur_max_level' = RaisedTo(lv) /\ forward' = Linked(lv)
      /\ value' = [value EXCEPT ![key] = arg] /\ n' = n + 1 /\ Return(NoRet)
      /\ UNCHANGED <<min, max, inserts, run>>
  BY DEF Link
<1>2. /\ key \in Keys /\ arg \in Stored /\ cur_max_level \in 1..MaxLevel - 2 /\ key \notin On(1)
      /\ MaxLevel \in Nat /\ Levels = 1..MaxLevel /\ 1 \in Levels /\ key \in Nodes /\ Keys \subseteq Int
  BY <1>1, SearchEnds, Facts
<1>3. cur_max_level' \in 1..MaxLevel - 2 /\ cur_max_level <= cur_max_level'
  BY <1>1, <1>2 DEF RaisedTo
<1>4. forward \in [Levels -> [Nodes -> Nodes \union {Null}]] /\ DOMAIN forward' = Levels
  BY <1>1 DEF ListInv, TypeOK, Linked
<1>5. ASSUME NEW l \in 1..cur_max_level'
      PROVE  /\ l \in Levels /\ forward'[l] \in [Nodes -> Nodes \union {Null}]
             /\ SortedList(forward'[l]) /\ OnIn(forward'[l]) = On(l) \union {key}
  <2> DEFINE g == forward[l]
             b == Before(l)
  <2>1. /\ l \in Levels /\ key \notin On(l) /\ b \in On(l) /\ LastLeft(l, b)
        /\ forward'[l] = WithNode(g, key, b)
    BY <1>1, <1>5, LinkLevel DEF WithNode
  <2>2. /\ g \in [Nodes -> Nodes \union {Null}] /\ SortedList(g) /\ On(l) = OnIn(g)
        /\ On(l) \subseteq Keys \union {p_listHead} /\ g[b] \in (On(l) \ {p_listHead}) \union {p_listTail}
    BY <2>1, LevelFacts DEF ListInv
  <2>3. (b = p_listHead \/ b < key) /\ NodeKey(g[b]) >= key
    BY <2>1 DEF LastLeft, Left
  <2> HIDE DEF g, b
  <2>4. g[b] = p_listTail \/ key < g[b]
    <3>1. CASE g[b] # p_listTail
      <4>1. g[b] \in Keys /\ g[b] # key
        BY <2>1, <2>2, <3>1
      <4>2. g[b] \in Int /\ key \in Int /\ g[b] >= key
        BY <1>2, <2>3, <4>1, NodeKeys
      <4> QED
        BY <4>1, <4>2
    <3> QED
      BY <3>1
  <2>5. key \notin OnIn(g) /\ b \in OnIn(g)
    BY <2>1, <2>2
  <2>6. /\ forward'[l] \in [Nodes -> Nodes \union {Null}] /\ OnIn(forward'[l]) = OnIn(g) \union {key}
        /\ SortedList(forward'[l])
    BY <1>2, <2>1, <2>2, <2>3, <2>4, <2>5, LinkSorted
  <2> QED
    BY <2>1, <2>2, <2>6
<1>6. ASSUME NEW l \in Levels, l > cur_max_level'
      PROVE  forward'[l] = forward[l] /\ On(l)' = On(l) /\ On(l) = {p_listHead} /\ SortedList(forward'[l])
  <2>1. forward'[l] = forward[l]
    BY <1>1, <1>6 DEF Linked
  <2>2. l > cur_max_level
    BY <1>2, <1>3, <1>6
  <2>3. On(l) = {p_listHead} /\ SortedList(forward[l])
    BY <2>2, ShapeByLevel DEF ListInv
  <2> QED
    BY <2>1, <2>3 DEF On
<1>7. \A l \in 1..cur_max_level' : l \in Levels /\ On(l)' = On(l) \union {key}
  BY <1>5 DEF On, OnIn
<1>8. forward' \in [Levels -> [Nodes -> Nodes \union {Null}]]
  <2>1. ASSUME NEW l \in Levels PROVE forward'[l] \in [Nodes -> Nodes \union {Null}]
    <3>1. l \in 1..cur_max_level' \/ l > cur_max_level'
      BY <1>2, <1>3
    <3> QED
      BY <1>4, <1>5, <1>6, <3>1
  <2>2. forward' = [l \in Levels |-> forward'[l]]
    BY <1>1 DEF Linked
  <2> QED
    BY <2>1, <2>2
<1>9. ListShape'
  <2>1. ASSUME NEW l \in Levels
        PROVE  /\ SortedList(forward'[l]) /\ (l > cur_max_level' => On(l)' = {p_listHead})
               /\ (l > 1 => On(l)' \subseteq On(l - 1)')
    <3>1. CASE l \in 1..cur_max_level'
      <4>1. l > 1 => l - 1 \in 1..cur_max_level' /\ On(l) \subseteq On(l - 1)
        BY <1>3, <3>1 DEF ListInv, ListShape
      <4>2. ~(l > cur_max_level')
        BY <1>3, <3>1
      <4> QED
        BY <1>5, <1>7, <3>1, <4>1, <4>2
    <3>2. CASE l > cur_max_level'
      <4>1. l > 1 => l - 1 \in Levels /\ On(l) \subseteq On(l - 1)
        BY <1>2, <3>2 DEF ListInv, ListShape
      <4>2. l > 1 => l - 1 \in 1..cur_max_level' \/ l - 1 > cur_max_level'
        BY <1>2, <1>3, <3>2
      <4>3. l > 1 => On(l - 1) \subseteq On(l - 1)'
        BY <1>6, <1>7, <4>1, <4>2
      <4> QED
        BY <1>6, <3>2, <4>1, <4>3
    <3> QED
      BY <1>2, <1>3, <3>1, <3>2
  <2>2. (\A l \in Levels : /\ SortedList(forward[l])
                           /\ l > cur_max_level => On(l) = {p_listHead}
                           /\ l > 1 => On(l) \subseteq On(l - 1))'
    BY <2>1 DEF SortedList, OnIn
  <2>3. (ListShape <=> \A l \in Levels : /\ SortedList(forward[l])
                                         /\ l > cur_max_level => On(l) = {p_listHead}
                                         /\ l > 1 => On(l) \subseteq On(l - 1))'
    BY ShapeByLevel, PTL
  <2> QED
    BY <2>2, <2>3
<1>10. On(1)' = On(1) \union {key}
  BY <1>3, <1>7
<1>11. NestedInv'
  <2>1. ASSUME NEW l \in Levels PROVE On(l)' \subseteq On(1)'
    <3>1. On(l) \subseteq On(1)
      BY DEF ListInv, NestedInv
    <3>2. l \in 1..cur_max_level' \/ l > cur_max_level'
      BY <1>2, <1>3
    <3> QED
      BY <1>6, <1>7, <1>10, <3>1, <3>2
  <2> QED
    BY <2>1 DEF NestedInv
<1>12. value' \in [Nodes -> Stored \union {Absent}] /\ value'[key] = arg
       /\ \A x \in Nodes : x # key => value'[x] = value[x]
  BY <1>1, <1>2 DEF ListInv, TypeOK
<1>13. ValuesInv'
  <2>1. \A x \in On(1) \ {p_listHead} : x \in Nodes /\ value[x] \in Stored
    BY DEF ListInv, ValuesInv, On
  <2> QED
    BY <1>2, <1>10, <1>12, <2>1 DEF ValuesInv
<1>14. (TypeOK /\ SeekInv /\ ScanInv /\ CountInv /\ NoNull /\ CopyInv)'
  <2>1. TypeOK /\ CountInv /\ n + 1 \in 0..inserts
    BY <1>1 DEF ListInv, TypeOK, CountInv
  <2>2. n' \in 0..inserts' /\ min' \in Int /\ max' \in Int /\ UNCHANGED inserts
    BY <1>1, <2>1 DEF TypeOK
  <2> QED
    BY <1>1, <1>3, <1>8, <1>12, <2>1, <2>2, ReturnFrame
<1> QED
  BY <1>2, <1>9, <1>10, <1>11, <1>13, <1>14 DEF ListInv

\* The end of lookup.
LEMMA FoundList ==
  ASSUME ListInv, Found
  PROVE  (ListInv /\ CopyInv)'
<1>1. UNCHANGED <<listVars, inserts, run>> /\ \E r : Return(r)
  BY DEF Found
<1>2. (ListShape /\ NestedInv /\ ValuesInv)'
  BY <1>1, ListFrame DEF ListInv
<1>3. (TypeOK /\ SeekInv /\ ScanInv /\ CountInv /\ NoNull /\ CopyInv)'
  <2>1. TypeOK /\ CountInv /\ n \in 0..inserts
    BY DEF ListInv, TypeOK, CountInv
  <2>2. /\ forward' \in [Levels -> [Nodes -> Nodes \union {Null}]] /\ value' \in [Nodes -> Stored \union {Absent}]
        /\ cur_max_level' \in 1..MaxLevel - 2
        /\ n' \in 0..inserts' /\ min' \in Int /\ max' \in Int /\ UNCHANGED inserts
    BY <1>1, <2>1 DEF TypeOK, listVars
  <2> QED
    BY <1>1, <2>1, <2>2, ReturnFrame
<1> QED
  BY <1>2, <1>3 DEF ListInv

----------------------------------------------------------------------------
(* The scans *)

\* The node after a node of the lowest level.
LEMMA NextNode ==
  ASSUME ListInv, NEW c \in On(1)
  PROVE  forward[1][c] \in (On(1) \ {p_listHead}) \union {p_listTail} /\ forward[1][c] # Null
         /\ forward[1][c] \in Nodes
  BY LevelFacts, Facts DEF ListInv

\* The node a scan is at.
LEMMA ScanNode ==
  ASSUME ListInv, pc \in {"skip", "copy"}
  PROVE  /\ curr \in (On(1) \ {p_listHead}) \union {p_listTail} /\ curr # Null
         /\ curr # p_listTail => /\ curr \in Keys /\ curr \in On(1) \ {p_listHead} /\ NodeKey(curr) = curr
                                 /\ value[curr] \in Stored /\ Entry(curr) = [key |-> curr, value |-> value[curr]]
         /\ op = "range" => /\ key \in Bounds /\ arg \in Bounds /\ key < arg /\ key \in Int /\ arg \in Int
                            /\ key <= MaxKey /\ arg <= MaxKey
<1>1. curr \in (On(1) \ {p_listHead}) \union {p_listTail}
  BY DEF ListInv, ScanInv
<1>2. On(1) \subseteq Keys \union {p_listHead}
  BY LevelFacts, Facts DEF ListInv
<1>3. curr # Null
  BY <1>1, <1>2, Facts
<1>4. ASSUME curr # p_listTail
      PROVE  /\ curr \in Keys /\ curr \in On(1) \ {p_listHead} /\ NodeKey(curr) = curr
             /\ value[curr] \in Stored /\ Entry(curr) = [key |-> curr, value |-> value[curr]]
  <2>1. curr \in Keys /\ curr \in On(1) \ {p_listHead}
    BY <1>1, <1>2, <1>4
  <2>2. NodeKey(curr) = curr
    BY <2>1, NodeKeys
  <2> QED
    BY <2>1, <2>2 DEF ListInv, ValuesInv, Entry
<1>5. op = "range" => key \in Bounds /\ arg \in Bounds /\ key < arg
  BY DEF ListInv, ScanInv
<1> QED
  BY <1>1, <1>3, <1>4, <1>5, Facts

\* get_all_in_range up to its loops, and the calls that end at once.
LEMMA GetAllInRangeList ==
  ASSUME ListInv, NEW key1 \in Bounds, NEW key2 \in Bounds, GetAllInRange(key1, key2)
  PROVE  (ListInv /\ CopyInv)'
<1>1. /\ pc = "ready" /\ key1 < key2 /\ UNCHANGED <<listVars, inserts, run>>
      /\ \/ \E r : Return(r)
         \/ /\ ~(key1 > max \/ key2 < min)
            /\ pc' = "skip" /\ op' = "range" /\ key' = key1 /\ arg' = key2
            /\ curr' = forward[1][p_listHead] /\ ret' = NoRet
            /\ UNCHANGED <<level, update, vec>>
  BY DEF GetAllInRange
<1>2. (ListShape /\ NestedInv /\ ValuesInv)'
  BY <1>1, ListFrame DEF ListInv
<1>3. CASE \E r : Return(r)
  <2>1. TypeOK /\ CountInv /\ n \in 0..inserts
    BY DEF ListInv, TypeOK, CountInv
  <2>2. /\ forward' \in [Levels -> [Nodes -> Nodes \union {Null}]] /\ value' \in [Nodes -> Stored \union {Absent}]
        /\ cur_max_level' \in 1..MaxLevel - 2
        /\ n' \in 0..inserts' /\ min' \in Int /\ max' \in Int /\ UNCHANGED inserts
    BY <1>1, <2>1 DEF TypeOK, listVars
  <2>3. (TypeOK /\ SeekInv /\ ScanInv /\ CountInv /\ NoNull /\ CopyInv)'
    BY <1>3, <2>1, <2>2, ReturnFrame
  <2> QED
    BY <1>2, <2>3 DEF ListInv
<1>4. CASE /\ ~(key1 > max \/ key2 < min)
           /\ pc' = "skip" /\ op' = "range" /\ key' = key1 /\ arg' = key2
           /\ curr' = forward[1][p_listHead]
           /\ UNCHANGED <<level, update, vec>>
  <2>1. p_listHead \in On(1) /\ forward[1][p_listHead] \in (On(1) \ {p_listHead}) \union {p_listTail}
        /\ forward[1][p_listHead] \in Nodes
    BY LevelFacts, NextNode, Facts DEF ListInv
  <2>2. TypeOK'
    BY <1>1, <1>4, <2>1, Facts DEF ListInv, TypeOK, listVars
  <2>3. ScanInv'
    <3>1. Passed(forward[1][p_listHead]) = {}
      BY FirstPassed DEF ListInv
    <3>2. On(1)' = On(1)
      BY <1>1 DEF On, listVars
    <3>3. Passed(curr)' = {}
      BY <1>4, <3>1, <3>2 DEF Passed
    <3>4. vec = << >>
      BY <1>1 DEF ListInv, ScanInv
    <3> QED
      BY <1>1, <1>4, <2>1, <3>2, <3>3, <3>4 DEF ScanInv, listVars
  <2>4. (SeekInv /\ CountInv /\ NoNull /\ CopyInv)'
    BY <1>1, <1>4 DEF ListInv, SeekInv, CountInv, NoNull, CopyInv, listVars
  <2> QED
    BY <1>2, <2>2, <2>3, <2>4 DEF ListInv
<1> QED
  BY <1>1, <1>3, <1>4

\* get_all up to its loop.
LEMMA GetAllList ==
  ASSUME ListInv, GetAll
  PROVE  (ListInv /\ CopyInv)'
<1>1. /\ pc = "ready" /\ pc' = "copy" /\ op' = "all" /\ curr' = forward[1][p_listHead] /\ ret' = NoRet
      /\ UNCHANGED <<listVars, key, arg, level, update, vec, inserts, run>>
  BY DEF GetAll
<1>2. (ListShape /\ NestedInv /\ ValuesInv)'
  BY <1>1, ListFrame DEF ListInv
<1>3. p_listHead \in On(1) /\ forward[1][p_listHead] \in (On(1) \ {p_listHead}) \union {p_listTail}
      /\ forward[1][p_listHead] \in Nodes /\ Passed(forward[1][p_listHead]) = {} /\ vec = << >>
  BY <1>1, LevelFacts, NextNode, FirstPassed, Facts DEF ListInv, ScanInv
<1>4. TypeOK'
  BY <1>1, <1>3 DEF ListInv, TypeOK, listVars
<1>5. On(1)' = On(1)
  BY <1>1 DEF On, listVars
<1>6. Passed(curr)' = {}
  BY <1>1, <1>3, <1>5 DEF Passed
<1>7. ScanInv'
  BY <1>1, <1>3, <1>5 DEF ScanInv
<1>8. CopyInv'
  BY <1>1, <1>3, <1>6 DEF CopyInv, ToSet
<1>9. (SeekInv /\ CountInv /\ NoNull)'
  BY <1>1 DEF ListInv, SeekInv, CountInv, NoNull, listVars
<1> QED
  BY <1>2, <1>4, <1>7, <1>8, <1>9 DEF ListInv

\* The loop over the nodes before the range.
LEMMA SkipScan ==
  ASSUME ListInv, Skip
  PROVE  (ListInv /\ CopyInv)'
<1>1. /\ pc = "skip" /\ UNCHANGED <<listVars, op, key, arg, level, update, vec, ret, inserts, run>>
      /\ \/ curr = Null
         \/ curr # Null /\ NodeKey(curr) < key /\ curr' = forward[1][curr] /\ UNCHANGED pc
         \/ curr # Null /\ NodeKey(curr) >= key /\ pc' = "copy" /\ UNCHANGED curr
  BY DEF Skip
<1>2. /\ curr \in (On(1) \ {p_listHead}) \union {p_listTail} /\ curr # Null
      /\ curr # p_listTail => curr \in Keys /\ curr \in On(1) \ {p_listHead} /\ NodeKey(curr) = curr
  BY <1>1, ScanNode
<1>3. op = "range" /\ vec = << >> /\ (\A x \in Passed(curr) : x < key) /\ key \in Int /\ key <= MaxKey
      /\ arg \in Int /\ key < arg
  BY <1>1, ScanNode DEF ListInv, ScanInv
<1>4. (ListShape /\ NestedInv /\ ValuesInv)'
  BY <1>1, ListFrame DEF ListInv
<1>5. On(1)' = On(1) /\ \A x : Passed(x)' = Passed(x)
  BY <1>1 DEF On, Passed, listVars
<1>6. (SeekInv /\ CountInv /\ NoNull)'
  BY <1>1, <1>2 DEF ListInv, SeekInv, CountInv, NoNull, listVars
<1>7. CASE NodeKey(curr) < key /\ curr' = forward[1][curr] /\ UNCHANGED pc
  <2>1. curr # p_listTail
    BY <1>3, <1>7, NodeKeys, Facts
  <2>2. curr \in On(1) \ {p_listHead} /\ curr < key
    BY <1>2, <1>7, <2>1
  <2>3. forward[1][curr] \in (On(1) \ {p_listHead}) \union {p_listTail} /\ forward[1][curr] \in Nodes
        /\ Passed(forward[1][curr]) = Passed(curr) \union {curr}
    BY <2>2, NextNode, NextPassed DEF ListInv
  <2>4. TypeOK'
    BY <1>1, <1>7, <2>3 DEF ListInv, TypeOK, listVars
  <2>5. Passed(curr)' = Passed(curr) \union {curr}
    BY <1>5, <1>7, <2>3 DEF Passed
  <2>6. ScanInv'
    BY <1>1, <1>3, <1>5, <1>7, <2>2, <2>3, <2>5 DEF ListInv, ScanInv, listVars
  <2>7. CopyInv'
    BY <1>1, <1>7 DEF CopyInv
  <2> QED
    BY <1>4, <1>6, <2>4, <2>6, <2>7 DEF ListInv
<1>8. CASE NodeKey(curr) >= key /\ pc' = "copy" /\ UNCHANGED curr
  <2>1. TypeOK'
    BY <1>1, <1>8 DEF ListInv, TypeOK, listVars
  <2>2. ScanInv'
    BY <1>1, <1>3, <1>5, <1>8 DEF ListInv, ScanInv, listVars
  <2>3. \A x \in Passed(curr) : x \in Int /\ x < arg /\ ~(key <= x)
    <3>1. Passed(curr) \subseteq Int
      BY LevelFacts, Facts DEF ListInv, Passed
    <3> QED
      BY <1>3, <3>1
  <2>4. CopyInv'
    <3>1. Passed(curr)' = Passed(curr)
      BY <1>5, <1>8 DEF Passed
    <3>2. NodeKey(curr)' = NodeKey(curr)
      BY <1>8 DEF NodeKey
    <3>3. {y \in Passed(curr) : op = "range" => key <= y} = {}
      BY <1>3, <2>3
    <3>4. ToSet(vec) = {}
      BY <1>3 DEF ToSet
    <3>5. ToSet(vec)' = {} /\ {y \in Passed(curr) : op = "range" => key <= y}' = {}
      BY <1>1, <3>1, <3>3, <3>4
    <3> QED
      BY <1>1, <1>3, <1>8, <2>3, <3>1, <3>2, <3>5 DEF CopyInv
  <2> QED
    BY <1>4, <1>6, <2>1, <2>2, <2>4 DEF ListInv
<1> QED
  BY <1>1, <1>2, <1>7, <1>8

\* The nodes in front of one, and their keys.
LEMMA PassedKeys ==
  ASSUME ListInv, NEW c
  PROVE  /\ Passed(c) \subseteq Keys /\ Passed(c) \subseteq Int /\ Passed(c) \subseteq On(1) \ {p_listHead}
         /\ \A x \in Passed(c) : Entry(x) = [key |-> x, value |-> value[x]] /\ Entry(x).key = x
         /\ c # p_listTail => \A x \in Passed(c) : x < c
<1>1. Passed(c) \subseteq Keys /\ Passed(c) \subseteq On(1) \ {p_listHead} /\ Keys \subseteq Int
  BY LevelFacts, Facts DEF ListInv, Passed
<1>2. \A x \in Passed(c) : NodeKey(x) = x
  BY <1>1, NodeKeys
<1> QED
  BY <1>1, <1>2 DEF Entry, Passed

\* A turn of the loops that copy: the entry of the next node.
LEMMA CopyList ==
  ASSUME ListInv, CopyInv, Copy
  PROVE  (ListInv /\ CopyInv)'
<1>1. /\ pc = "copy" /\ UNCHANGED <<listVars, op, key, arg, level, update, ret, inserts, run>>
      /\ \/ /\ curr # Null /\ InScan
            /\ vec' = Append(vec, Entry(curr))
            /\ curr' = forward[1][curr]
            /\ UNCHANGED pc
         \/ curr = Null
  BY DEF Copy
<1>2. /\ curr \in (On(1) \ {p_listHead}) \union {p_listTail} /\ curr # Null
      /\ curr # p_listTail => /\ curr \in Keys /\ curr \in On(1) \ {p_listHead} /\ NodeKey(curr) = curr
                              /\ value[curr] \in Stored /\ Entry(curr) = [key |-> curr, value |-> value[curr]]
      /\ op = "range" => arg \in Int /\ arg <= MaxKey /\ key \in Int /\ key <= MaxKey
  BY <1>1, ScanNode
<1>3. /\ InScan /\ vec' = Append(vec, Entry(curr)) /\ curr' = forward[1][curr] /\ UNCHANGED pc
  BY <1>1, <1>2
<1>4. curr # p_listTail /\ (op = "range" => curr < arg)
  <2>1. op \in {"range", "all"}
    BY <1>1 DEF ListInv, ScanInv
  <2>2. CASE op = "all"
    BY <1>3, <2>2 DEF InScan
  <2>3. CASE op = "range"
    <3>1. NodeKey(curr) < arg
      BY <1>3, <2>3 DEF InScan
    <3>2. curr # p_listTail
      BY <1>2, <2>3, <3>1, NodeKeys, Facts
    <3> QED
      BY <1>2, <3>1, <3>2
  <2> QED
    BY <2>1, <2>2, <2>3
<1>5. /\ curr \in Keys /\ curr \in Int /\ curr \in On(1) \ {p_listHead} /\ NodeKey(curr) = curr
      /\ Entry(curr) = [key |-> curr, value |-> value[curr]] /\ value[curr] \in Stored
  BY <1>2, <1>4, Facts
<1>6. /\ forward[1][curr] \in (On(1) \ {p_listHead}) \union {p_listTail} /\ forward[1][curr] \in Nodes
      /\ Passed(forward[1][curr]) = Passed(curr) \union {curr}
  BY <1>5, NextNode, NextPassed DEF ListInv
<1>7. (ListShape /\ NestedInv /\ ValuesInv)'
  BY <1>1, ListFrame DEF ListInv
<1>8. On(1)' = On(1)
  BY <1>1 DEF On, listVars
<1>9. Passed(curr)' = Passed(curr) \union {curr}
  BY <1>3, <1>6, <1>8 DEF Passed
<1>10. vec \in Seq([key : Keys, value : Stored]) /\ Entry(curr) \in [key : Keys, value : Stored]
  BY <1>5 DEF ListInv, TypeOK
<1>11. TypeOK'
  BY <1>1, <1>3, <1>6, <1>10 DEF ListInv, TypeOK, listVars
<1>12. (SeekInv /\ ScanInv /\ CountInv /\ NoNull)'
  BY <1>1, <1>3, <1>6, <1>8 DEF ListInv, SeekInv, ScanInv, CountInv, NoNull, listVars
<1>13. /\ Len(vec) \in Nat /\ DOMAIN vec = 1..Len(vec) /\ DOMAIN vec' = 1..Len(vec) + 1
       /\ vec'[Len(vec) + 1] = Entry(curr) /\ \A a \in 1..Len(vec) : vec'[a] = vec[a]
  BY <1>3, <1>10
<1>14. ASSUME NEW a \in 1..Len(vec) PROVE vec[a].key < curr /\ vec[a].key \in Int
  <2>1. vec[a] \in ToSet(vec)
    BY <1>13 DEF ToSet
  <2>2. PICK x \in Passed(curr) : vec[a] = Entry(x)
    BY <1>1, <2>1 DEF CopyInv
  <2> QED
    BY <1>4, <2>2, PassedKeys
<1>15. (\A a, b \in DOMAIN vec : a < b => vec[a].key < vec[b].key)'
  <2>1. ASSUME NEW a \in 1..Len(vec) + 1, NEW b \in 1..Len(vec) + 1, a < b
        PROVE  vec'[a].key < vec'[b].key
    <3>1. a \in 1..Len(vec) /\ vec'[a] = vec[a]
      BY <1>13, <2>1
    <3>2. CASE b = Len(vec) + 1
      <4>1. vec'[b].key = curr
        BY <1>5, <1>13, <3>2
      <4> QED
        BY <1>14, <3>1, <4>1
    <3>3. CASE b # Len(vec) + 1
      <4>1. b \in 1..Len(vec) /\ vec'[b] = vec[b]
        BY <1>13, <3>3
      <4> QED
        BY <1>1, <1>13, <2>1, <3>1, <4>1 DEF CopyInv
    <3> QED
      BY <3>2, <3>3
  <2> QED
    BY <1>13, <2>1
<1>16. (op = "range" => NodeKey(curr) >= key /\ \A x \in Passed(curr) : x < arg)'
  <2> SUFFICES ASSUME op = "range"
               PROVE  NodeKey(forward[1][curr]) >= key /\ \A x \in Passed(curr) \union {curr} : x < arg
    BY <1>1, <1>3, <1>9 DEF NodeKey
  <2>1. key <= curr /\ \A x \in Passed(curr) : x < arg
    BY <1>1, <1>2, <1>5, Facts DEF CopyInv
  <2> DEFINE y == forward[1][curr]
  <2>2. CASE y = p_listTail
    BY <1>2, <1>4, <2>1, <2>2, NodeKeys, Facts
  <2>3. CASE y # p_listTail
    <3>1. y \in Keys /\ NodeKey(y) = y
      BY <1>6, <2>3, LevelFacts, NodeKeys, Facts DEF ListInv
    <3>2. curr < y
      BY <1>5, <2>3, LevelFacts, Facts DEF ListInv, NextIn
    <3>3. y \in Int /\ key \in Int /\ curr \in Int
      BY <1>2, <1>5, <3>1, Facts
    <3> HIDE DEF y
    <3>4. y >= key
      BY <2>1, <3>2, <3>3
    <3> QED
      BY <1>4, <2>1, <3>1, <3>4 DEF y
  <2> QED
    BY <2>2, <2>3
<1>17. (ToSet(vec) = {Entry(x) : x \in {y \in Passed(curr) : op = "range" => key <= y}})'
  <2> DEFINE W == {y \in Passed(curr) : op = "range" => key <= y}
  <2>1. op = "range" => key <= curr
    BY <1>1, <1>2, <1>5, Facts DEF CopyInv
  <2>2. {y \in Passed(curr) : op = "range" => key <= y}' = W \union {curr}
    BY <1>1, <1>9, <2>1
  <2>3. \A x : Entry(x)' = Entry(x)
    BY <1>1 DEF Entry, NodeKey, listVars
  <2>4. ToSet(vec) = {Entry(x) : x \in W}
    BY <1>1 DEF CopyInv
  <2> HIDE DEF W
  <2>5. ToSet(vec)' = ToSet(vec) \union {Entry(curr)}
    BY <1>13 DEF ToSet
  <2>6. {Entry(x) : x \in W} \union {Entry(curr)} = {Entry(x) : x \in W \union {curr}}
    OBVIOUS
  <2>7. {Entry(x) : x \in {y \in Passed(curr) : op = "range" => key <= y}}' = {Entry(x) : x \in W \union {curr}}
    BY <2>2, <2>3
  <2> QED
    BY <2>4, <2>5, <2>6, <2>7
<1> QED
  BY <1>7, <1>11, <1>12, <1>15, <1>16, <1>17 DEF ListInv, CopyInv

\* The end of a scan.
LEMMA CopiedList ==
  ASSUME ListInv, Copied
  PROVE  (ListInv /\ CopyInv)'
<1>1. UNCHANGED <<listVars, inserts, run>> /\ \E r : Return(r)
  BY DEF Copied
<1>2. (ListShape /\ NestedInv /\ ValuesInv)'
  BY <1>1, ListFrame DEF ListInv
<1>3. (TypeOK /\ SeekInv /\ ScanInv /\ CountInv /\ NoNull /\ CopyInv)'
  <2>1. TypeOK /\ CountInv /\ n \in 0..inserts
    BY DEF ListInv, TypeOK, CountInv
  <2>2. /\ forward' \in [Levels -> [Nodes -> Nodes \union {Null}]] /\ value' \in [Nodes -> Stored \union {Absent}]
        /\ cur_max_level' \in 1..MaxLevel - 2
        /\ n' \in 0..inserts' /\ min' \in Int /\ max' \in Int /\ UNCHANGED inserts
    BY <1>1, <2>1 DEF TypeOK, listVars
  <2> QED
    BY <1>1, <2>1, <2>2, ReturnFrame
<1> QED
  BY <1>2, <1>3 DEF ListInv

----------------------------------------------------------------------------
(* All steps *)

\* Every step keeps the shape of the list, and what the call that goes on has found.
LEMMA ListNext == ListInv /\ CopyInv /\ [Next]_vars => ListInv' /\ CopyInv'
<1> SUFFICES ASSUME ListInv, CopyInv, [Next]_vars PROVE (ListInv /\ CopyInv)'
  OBVIOUS
<1>1. ASSUME NEW k \in Keys, NEW v \in Values \union {Tombstone}, Insert(k, v) PROVE (ListInv /\ CopyInv)'
  <2>1. v \in Stored
    BY DEF Stored
  <2> QED
    BY <1>1, <2>1, InsertList DEF CopyInv, Insert, Seek
<1>2. ASSUME NEW k \in Keys, Lookup(k) PROVE (ListInv /\ CopyInv)'
  BY <1>2, LookupList DEF CopyInv, Lookup, Seek
<1>3. CASE Call
  BY <1>1, <1>2, <1>3, GetAllInRangeList, GetAllList DEF Call
<1>4. ASSUME SeekStep PROVE (ListInv /\ CopyInv)'
  <2>1. CopyInv'
    BY <1>4 DEF CopyInv, SeekStep
  <2> QED
    BY <1>4, <2>1, SeekStepList
<1>5. CASE Continue
  BY <1>4, <1>5, OverwriteList, LinkList, FoundList, SkipScan, CopyList, CopiedList DEF Continue
<1>6. CASE UNCHANGED vars
  <2>1. (ListShape /\ NestedInv /\ ValuesInv)'
    BY <1>6, ListFrame DEF ListInv, vars
  <2>2. (TypeOK /\ CountInv /\ NoNull)'
    BY <1>6 DEF ListInv, TypeOK, CountInv, NoNull, vars, listVars, callVars
  <2>3. (SeekInv /\ ScanInv /\ CopyInv)'
    BY <1>6 DEF ListInv, SeekInv, ScanInv, CopyInv, Left, LastLeft, Passed, On, Entry, NodeKey, vars, listVars, callVars
  <2> QED
    BY <2>1, <2>2, <2>3 DEF ListInv
<1> QED
  BY <1>3, <1>5, <1>6 DEF Next

----------------------------------------------------------------------------
(* The run that LSM takes the list for *)

\* Steps that neither write nor change the call.
LEMMA RunFrame ==
  ASSUME RunInv, UNCHANGED <<listVars, run>>,
         ~(pc = "seek" /\ op = "insert"), ~(pc' = "seek" /\ op' = "insert")
  PROVE  RunInv'
<1>1. Listed' = Listed
  BY DEF Listed, On, listVars
<1> QED
  BY <1>1 DEF RunInv, BufferRuns, listVars

\* insert_key has set the bounds before it searches.
LEMMA InsertRun ==
  ASSUME ListInv, RunInv, NEW k \in Keys, NEW v \in Stored, Insert(k, v)
  PROVE  RunInv'
<1>1. /\ pc = "ready" /\ pc' = "seek" /\ op' = "insert" /\ key' = k /\ arg' = v
      /\ max' = IF k > max THEN k ELSE max
      /\ min' = IF k <= max /\ k < min THEN k ELSE min
      /\ run' = SkipInsert(run, k, v)
      /\ UNCHANGED <<forward, value, n>>
  BY DEF Insert, Seek
<1>2. run \in BufferRuns /\ min = run.min /\ max = run.max /\ run.elts = Listed /\ run.n = n
  BY <1>1 DEF RunInv
<1>3. Listed' = Listed /\ On(1)' = On(1)
  BY <1>1 DEF Listed, On
<1>4. k \in On(1) <=> Listed[k] # Absent
  BY Facts DEF ListInv, ValuesInv, Listed
<1>5. /\ run'.elts = [run.elts EXCEPT ![k] = v]
      /\ run'.n = IF run.elts[k] = Absent THEN run.n + 1 ELSE run.n
      /\ run'.min = min' /\ run'.max = max'
  BY <1>1, <1>2 DEF SkipInsert
<1>6. run' \in BufferRuns
  BY <1>1, <1>2, Facts DEF SkipInsert, BufferRuns
<1> QED
  BY <1>1, <1>2, <1>3, <1>4, <1>5, <1>6 DEF RunInv

\* The entry is written where the search for it ends.
LEMMA OverwriteRun ==
  ASSUME MaxKey \notin Keys, ListInv, RunInv, Overwrite
  PROVE  RunInv'
<1>1. /\ pc = "seek" /\ level = 0 /\ op = "insert" /\ NodeKey(Reached) = key
      /\ value' = [value EXCEPT ![Reached] = arg] /\ pc' = "ready"
      /\ UNCHANGED <<forward, n, min, max, run>>
  BY DEF Overwrite, Return
<1>2. key \in Keys /\ Reached = key /\ key \in On(1)
  BY <1>1, SearchEnds
<1>3. On(1)' = On(1)
  BY <1>1 DEF On
<1>4. value' = [value EXCEPT ![key] = arg] /\ value \in [Nodes -> Stored \union {Absent}] /\ Keys \subseteq Nodes
  BY <1>1, <1>2, Facts DEF ListInv, TypeOK
<1>5. Listed' = [Listed EXCEPT ![key] = arg]
  BY <1>2, <1>3, <1>4 DEF Listed
<1> QED
  BY <1>1, <1>2, <1>5 DEF RunInv, BufferRuns

\* The same with a new node.
LEMMA LinkRun ==
  ASSUME ListInv, RunInv, NEW lv \in -1..MaxLevel - 1, Link(lv)
  PROVE  RunInv'
<1>1. /\ pc = "seek" /\ level = 0 /\ op = "insert"
      /\ value' = [value EXCEPT ![key] = arg] /\ pc' = "ready" /\ n' = n + 1
      /\ UNCHANGED <<min, max, run>>
  BY DEF Link, Return
<1>2. On(1)' = On(1) \union {key} /\ key \notin On(1) /\ key \in Keys
  BY <1>1, LinkList, SearchEnds
<1>3. value \in [Nodes -> Stored \union {Absent}] /\ Keys \subseteq Nodes
  BY Facts DEF ListInv, TypeOK
<1>4. Listed' = [Listed EXCEPT ![key] = arg]
  BY <1>1, <1>2, <1>3 DEF Listed
<1> QED
  BY <1>1, <1>2, <1>4 DEF RunInv, BufferRuns

\* lookup answers with the run's value of the key.
LEMMA FoundAnswers ==
  ASSUME MaxKey \notin Keys, ListInv, RunInv, Found
  PROVE  AnswersAsRun'
<1>1. /\ pc = "seek" /\ level = 0 /\ op = "lookup" /\ UNCHANGED run
      /\ ret' = [op |-> "lookup", key |-> key,
                 value |-> IF NodeKey(Reached) = key THEN value[Reached] ELSE Absent]
  BY DEF Found, Return
<1>2. /\ key \in Keys /\ (NodeKey(Reached) # key => key \notin On(1))
      /\ (NodeKey(Reached) = key => Reached = key /\ key \in On(1))
  BY <1>1, SearchEnds
<1>3. run.elts = Listed
  BY <1>1 DEF RunInv
<1>4. ret'.value = run.elts[key] /\ ret'.key = key /\ ret'.op = "lookup"
  BY <1>1, <1>2, <1>3 DEF Listed
<1> QED
  BY <1>1, <1>4 DEF AnswersAsRun

\* get_all_in_range outside of the bounds answers with nothing, which is in the run.
LEMMA OutsideAnswers ==
  ASSUME RunInv, NEW key1 \in Bounds, NEW key2 \in Bounds, key1 > max \/ key2 < min, UNCHANGED run,
         ret' = [op |-> "range", from |-> key1, to |-> key2, all |-> << >>]
  PROVE  AnswersAsRun'
<1>1. \A k \in Keys : EntriesInRange(run, k, key1, key2) = << >>
  BY DEF RunInv, EntriesInRange
<1>2. ToSet(<< >>) = {}
  BY DEF ToSet
<1>3. ret'.op = "range" /\ ret'.from = key1 /\ ret'.to = key2 /\ ret'.all = << >>
  OBVIOUS
<1>4. UNION {{[key |-> k, value |-> v] : v \in ToSet(EntriesInRange(run, k, key1, key2))} : k \in Keys} = {}
  BY <1>1, <1>2
<1>5. ToSet(ret.all)' = {}
  BY <1>2, <1>3
<1> QED
  BY <1>3, <1>4, <1>5 DEF AnswersAsRun

\* The keys of the run are the nodes of the list.
LEMMA ListedKeys ==
  ASSUME ListInv, run.elts = Listed
  PROVE  /\ RunKeys(run) = On(1) \ {p_listHead} /\ On(1) \ {p_listHead} \subseteq Keys
         /\ \A k \in On(1) \ {p_listHead} : run.elts[k] = value[k] /\ value[k] # Absent
         /\ \A k \in Keys : k \notin On(1) => run.elts[k] = Absent
<1>1. On(1) \ {p_listHead} \subseteq Keys /\ p_listHead \notin Keys
  BY LevelFacts, Facts DEF ListInv
<1>2. \A k \in On(1) \ {p_listHead} : value[k] # Absent
  BY Facts DEF ListInv, ValuesInv
<1>3. \A k \in On(1) \ {p_listHead} : run.elts[k] = value[k]
  BY <1>1 DEF Listed
<1>4. \A k \in Keys : k \notin On(1) => run.elts[k] = Absent
  BY DEF Listed
<1> QED
  BY <1>1, <1>2, <1>3, <1>4 DEF RunKeys

\* The scans answer with the entries of the run, in the order of the keys.
LEMMA CopiedAnswers ==
  ASSUME ListInv, CopyInv, RunInv, Copied
  PROVE  AnswersAsRun'
<1>1. /\ pc = "copy" /\ ~InScan /\ UNCHANGED run
      /\ ret' = [op |-> op, from |-> key, to |-> arg, all |-> vec]
  BY DEF Copied, Return
<1>2. op \in {"range", "all"} /\ run.elts = Listed
  BY <1>1 DEF ListInv, ScanInv, RunInv
<1> DEFINE S == On(1) \ {p_listHead}
           W == {y \in Passed(curr) : op = "range" => key <= y}
<1>3. /\ RunKeys(run) = S /\ S \subseteq Keys /\ Keys \subseteq Int
      /\ \A k \in S : run.elts[k] = value[k] /\ value[k] # Absent /\ Entry(k) = [key |-> k, value |-> run.elts[k]]
      /\ \A k \in Keys : k \notin S => run.elts[k] = Absent
  BY <1>2, ListedKeys, Facts, NodeKeys DEF Entry
<1>4. (\A a, b \in DOMAIN vec : a < b => vec[a].key < vec[b].key) /\ ToSet(vec) = {Entry(x) : x \in W}
  BY <1>1 DEF CopyInv
<1>5. W \subseteq S
  BY DEF Passed
<1>6. (\A a, b \in DOMAIN ret.all : a < b => ret.all[a].key < ret.all[b].key)'
  BY <1>1, <1>4
<1>7. CASE op = "all"
  <2>1. curr = p_listTail
    BY <1>1, <1>7 DEF InScan
  <2>2. W = S
    BY <1>7, <2>1 DEF Passed
  <2> HIDE DEF S, W
  <2>3. {Entry(x) : x \in S} = {[key |-> k, value |-> run.elts[k]] : k \in S}
    BY <1>3
  <2>4. ToSet(ret.all)' = ToSet(vec)
    BY <1>1 DEF ToSet
  <2>5. ToSet(vec) = {[key |-> k, value |-> run.elts[k]] : k \in RunKeys(run)}
    BY <1>3, <1>4, <2>2, <2>3
  <2>6. {[key |-> k, value |-> run.elts[k]] : k \in RunKeys(run)}'
          = {[key |-> k, value |-> run.elts[k]] : k \in RunKeys(run)}
    BY <1>1 DEF RunKeys
  <2>7. ret'.op = "all"
    BY <1>1, <1>7
  <2> QED
    BY <1>6, <2>4, <2>5, <2>6, <2>7 DEF AnswersAsRun
<1>8. CASE op = "range"
  <2> DEFINE Of(k) == {[key |-> k, value |-> v] : v \in ToSet(EntriesInRange(run, k, key, arg))}
  <2>1. /\ ~(key > run.max \/ arg < run.min) /\ key \in Int /\ arg \in Int
        /\ \A x \in Passed(curr) : x < arg
    BY <1>1, <1>8, ScanNode DEF ListInv, ScanInv, RunInv, CopyInv
  <2>2. \A k \in S : k < arg => k \in Passed(curr)
    <3>1. CASE curr = p_listTail
      BY <3>1 DEF Passed
    <3>2. CASE curr # p_listTail
      <4>1. curr \in Int /\ ~(curr < arg)
        BY <1>1, <1>3, <1>8, <3>2, ScanNode DEF InScan
      <4>2. \A k \in Int : k < arg => k < curr
        BY <2>1, <4>1
      <4>3. \A k \in S : k < arg => k < curr
        BY <1>3, <4>2
      <4> QED
        BY <4>3 DEF Passed
    <3> QED
      BY <3>1, <3>2
  <2>3. \A k \in S : k \in W <=> key <= k /\ k < arg
    BY <1>8, <2>1, <2>2
  <2> HIDE DEF S, W
  <2>4. ASSUME NEW k \in Keys PROVE Of(k) = IF k \in W THEN {Entry(k)} ELSE {}
    <3>1. CASE k \in W
      <4>1. k \in S /\ key <= k /\ k < arg
        BY <1>5, <2>3, <3>1
      <4>2. EntriesInRange(run, k, key, arg) = << run.elts[k] >>
        BY <1>3, <2>1, <4>1 DEF EntriesInRange
      <4>3. ToSet(<< run.elts[k] >>) = {run.elts[k]}
        BY DEF ToSet
      <4> QED
        BY <1>3, <3>1, <4>1, <4>2, <4>3
    <3>2. CASE k \notin W
      <4>1. k \notin S \/ ~(key <= k) \/ ~(k < arg)
        BY <2>3, <3>2
      <4>2. EntriesInRange(run, k, key, arg) = << >>
        BY <1>3, <2>1, <4>1 DEF EntriesInRange
      <4>3. ToSet(<< >>) = {}
        BY DEF ToSet
      <4> QED
        BY <3>2, <4>2, <4>3
    <3> QED
      BY <3>1, <3>2
  <2> HIDE DEF Of
  <2>5. UNION {Of(k) : k \in Keys} = {Entry(x) : x \in W}
    BY <1>3, <1>5, <2>4
  <2>6. ToSet(ret.all)' = ToSet(vec)
    BY <1>1 DEF ToSet
  <2>7. ret'.op = "range" /\ ret'.from = key /\ ret'.to = arg
    BY <1>1, <1>8
  <2>8. UNION {{[key |-> k, value |-> v] : v \in ToSet(EntriesInRange(run, k, ret.from, ret.to))} : k \in Keys}'
          = UNION {Of(k) : k \in Keys}
    BY <1>1, <2>7 DEF Of
  <2> QED
    BY <1>4, <1>6, <2>5, <2>6, <2>7, <2>8 DEF AnswersAsRun
<1> QED
  BY <1>2, <1>7, <1>8

\* Every step keeps the list a map, if INT32_MAX is no key.
LEMMA RefinedNext ==
  ASSUME MaxKey \notin Keys, ListInv, Refined, [Next]_vars
  PROVE  Refined'
<1> USE DEF Refined
<1>1. CopyInv'
  BY ListNext
<1>2. ASSUME ret'.op = "none" PROVE AnswersAsRun'
  BY <1>2 DEF AnswersAsRun
<1>3. ASSUME UNCHANGED <<ret, run>> PROVE AnswersAsRun'
  BY <1>3 DEF AnswersAsRun, RunKeys, EntriesInRange
<1>4. NoRet.op = "none"
  BY DEF NoRet
<1>5. ASSUME NEW k \in Keys, NEW v \in Values \union {Tombstone}, Insert(k, v) PROVE (RunInv /\ AnswersAsRun)'
  <2>1. v \in Stored /\ ret' = NoRet
    BY <1>5 DEF Stored, Insert, Seek
  <2> QED
    BY <1>2, <1>4, <1>5, <2>1, InsertRun
<1>6. ASSUME NEW k \in Keys, Lookup(k) PROVE (RunInv /\ AnswersAsRun)'
  <2>1. pc = "ready" /\ op' = "lookup" /\ UNCHANGED <<listVars, run>> /\ ret' = NoRet
    BY <1>6 DEF Lookup, Seek
  <2> QED
    BY <1>2, <1>4, <2>1, RunFrame
<1>7. ASSUME NEW key1 \in Bounds, NEW key2 \in Bounds, GetAllInRange(key1, key2) PROVE (RunInv /\ AnswersAsRun)'
  <2>1. pc = "ready" /\ UNCHANGED <<listVars, run>> /\ pc' \in {"ready", "skip"}
    BY <1>7 DEF GetAllInRange, Return
  <2>2. RunInv'
    BY <2>1, RunFrame
  <2>3. ret' = NoRet \/ ((key1 > max \/ key2 < min) /\ ret' = [op |-> "range", from |-> key1, to |-> key2, all |-> << >>])
    BY <1>7 DEF GetAllInRange, Return
  <2> QED
    BY <1>2, <1>4, <2>1, <2>2, <2>3, OutsideAnswers
<1>8. ASSUME GetAll PROVE (RunInv /\ AnswersAsRun)'
  <2>1. pc = "ready" /\ pc' = "copy" /\ UNCHANGED <<listVars, run>> /\ ret' = NoRet
    BY <1>8 DEF GetAll
  <2> QED
    BY <1>2, <1>4, <2>1, RunFrame
<1>9. ASSUME SeekStep PROVE (RunInv /\ AnswersAsRun)'
  <2>1. pc = "seek" /\ pc' \in {"seek", "null"} /\ UNCHANGED <<listVars, op, key, arg, ret, run>>
    BY <1>9 DEF SeekStep
  <2>2. pc' = "seek"
    BY <1>9, <2>1, SeekStepList DEF ListInv, NoNull
  <2>3. Listed' = Listed /\ On(1)' = On(1)
    BY <2>1 DEF Listed, On, listVars
  <2> QED
    BY <1>3, <2>1, <2>2, <2>3 DEF RunInv, BufferRuns, listVars
<1>10. ASSUME Overwrite PROVE (RunInv /\ AnswersAsRun)'
  BY <1>2, <1>4, <1>10, OverwriteRun DEF Overwrite, Return
<1>11. ASSUME NEW lv \in -1..MaxLevel - 1, Link(lv) PROVE (RunInv /\ AnswersAsRun)'
  BY <1>2, <1>4, <1>11, LinkRun DEF Link, Return
<1>12. ASSUME Found PROVE (RunInv /\ AnswersAsRun)'
  <2>1. op = "lookup" /\ pc' = "ready" /\ UNCHANGED <<listVars, run>>
    BY <1>12 DEF Found, Return
  <2> QED
    BY <1>12, <2>1, RunFrame, FoundAnswers
<1>13. ASSUME Skip \/ Copy PROVE (RunInv /\ AnswersAsRun)'
  <2>1. pc \in {"skip", "copy"} /\ pc' \in {"skip", "copy", "null"} /\ UNCHANGED <<listVars, ret, run>>
    BY <1>13 DEF Skip, Copy
  <2> QED
    BY <1>3, <2>1, RunFrame
<1>14. ASSUME Copied PROVE (RunInv /\ AnswersAsRun)'
  <2>1. pc = "copy" /\ pc' = "ready" /\ UNCHANGED <<listVars, run>>
    BY <1>14 DEF Copied, Return
  <2> QED
    BY <1>14, <2>1, RunFrame, CopiedAnswers
<1>15. CASE UNCHANGED vars
  <2>1. Listed' = Listed /\ On(1)' = On(1)
    BY <1>15 DEF Listed, On, vars, listVars
  <2>2. UNCHANGED <<n, min, max, pc, op, key, arg, ret, run>>
    BY <1>15 DEF vars, listVars, callVars
  <2>3. RunInv'
    BY <2>1, <2>2 DEF RunInv, BufferRuns
  <2> QED
    BY <1>1, <1>3, <2>2, <2>3
<1> QED
  BY <1>1, <1>5, <1>6, <1>7, <1>8, <1>9, <1>10, <1>11, <1>12, <1>13, <1>14, <1>15 DEF Next, Call, Continue

----------------------------------------------------------------------------
(* The theorems *)

\* What every step keeps, for every set of keys.
LEMMA ListInvariance == Spec => []ListInv
<1>1. Init => ListInv /\ CopyInv
  BY InitList DEF Refined
<1> QED
  BY <1>1, ListNext, PTL DEF Spec

\* The variables of the skip list have their types; the level never comes near MAXLEVEL.
THEOREM ListTypeCorrect == Spec => []TypeOK
  BY ListInvariance, PTL DEF ListInv

\* No loop of insert_key, lookup, get_all_in_range or get_all follows a null pointer.
THEOREM PointersLead == Spec => []NoNull
  BY ListInvariance, PTL DEF ListInv

\* insert_key keeps every level a sorted list from the head to the tail and a part of
\* the level below, whatever levels generateNodeLevel draws.
THEOREM LevelsAreLists == Spec => []ListShape
  BY ListInvariance, PTL DEF ListInv

\* What holds when INT32_MAX, the key of the tail, is not used.
LEMMA MapInvariance == ASSUME MaxKey \notin Keys PROVE Spec => [](ListInv /\ Refined)
<1>1. Init => ListInv /\ Refined
  BY InitList
<1>2. ListInv /\ Refined /\ [Next]_vars => ListInv' /\ Refined'
  BY ListNext, RefinedNext DEF Refined
<1> QED
  BY <1>1, <1>2, PTL DEF Spec

\* Between two calls the list is the run LSM takes it for: the nodes, the counter and the
\* two bounds, if INT32_MAX is not a key.
THEOREM ListIsARun ==
  ASSUME MaxKey \notin Keys
  PROVE  Spec => []IsBufferRun
<1>1. ListInv /\ Refined => IsBufferRun
  BY DEF Refined, RunInv, BufferRuns, IsBufferRun
<1> QED
  BY <1>1, MapInvariance, PTL

\* lookup, get_all_in_range and get_all answer with the entries of that run, in the order
\* of their keys.
THEOREM ListAnswers ==
  ASSUME MaxKey \notin Keys
  PROVE  Spec => []AnswersAsRun
<1>1. ListInv /\ Refined => AnswersAsRun
  BY DEF Refined
<1> QED
  BY <1>1, MapInvariance, PTL

\* Every key that was inserted has a node, as the comment in insert_key says; the finding
\* of the run last is a counterexample for the key that is left out here.
THEOREM InsertedKeysHaveNodes ==
  ASSUME MaxKey \notin Keys
  PROVE  Spec => []NewKeysGetNodes
<1>1. IsBufferRun => NewKeysGetNodes
  <2> SUFFICES ASSUME IsBufferRun, pc = "ready", NEW k \in RunKeys(run) PROVE k \in On(1)
    BY DEF NewKeysGetNodes
  <2>1. k \in Keys /\ run.elts[k] # Absent
    BY DEF RunKeys
  <2>2. run.elts = Listed
    BY DEF IsBufferRun
  <2> QED
    BY <2>1, <2>2 DEF Listed
<1> QED
  BY <1>1, ListIsARun, PTL
=============================================================================
