------------------------------ MODULE SkipList ------------------------------
(***************************************************************************)
(* SkipList, skipList.hpp: the nodes and the forward pointers of a buffer  *)
(* run, and insert_key, lookup, get_all_in_range and get_all one step of   *)
(* their loops at a time.  LSM takes each of these calls for one step of a *)
(* run that is just a map from keys to values; run follows it here.        *)
(*                                                                         *)
(* A key has at most one node, so that the key stands for its node.        *)
(***************************************************************************)
EXTENDS RunData

CONSTANTS
  Values,        \* the values of keys that are not deleted
  MaxLevel,      \* MAXLEVEL
  p_listHead,    \* the nodes before and behind the list
  p_listTail,
  Null,          \* NULL
  MinKey,        \* INT32_MIN, the key of the head
  MaxKey,        \* INT32_MAX, the key of the tail
  Bounds,        \* the ends of the ranges
  MaxInserts     \* bound: calls of insert_key

ASSUME ListAssumption ==
  /\ MinKey \in Int /\ MaxKey \in Int /\ MinKey < MaxKey
  /\ Keys \subseteq MinKey..MaxKey /\ Bounds \subseteq MinKey..MaxKey
  /\ MaxLevel \in Nat /\ MaxLevel >= 3
  /\ {p_listHead, p_listTail, Null} \cap Keys = {} /\ Cardinality({p_listHead, p_listTail, Null}) = 3
  /\ Absent \notin Values \union {Tombstone}
  /\ MaxInserts \in Nat

VARIABLES
  forward,       \* forward[l][x]: _forward[l] of node x, Null also if there is no such node
  value,         \* the values of the nodes
  cur_max_level,
  n,             \* _n
  min, max,
  pc,            \* where the call is; "ready" between two calls
  op,            \* which call it is
  key,           \* the key of insert_key and lookup, key1 of get_all_in_range
  arg,           \* the value of insert_key, key2 of get_all_in_range
  level,         \* the level of the search
  curr,          \* currNode, and node of the scans
  update,        \* update[l]: the last node before the key on level l
  vec,           \* the entries that a scan has copied
  ret,           \* what the last lookup or scan returned, until the next call
  inserts,       \* calls of insert_key so far
  run            \* history: the run as LSM sees it

listVars == <<forward, value, cur_max_level, n, min, max>>
callVars == <<op, key, arg, level, curr, update, vec>>
vars == <<listVars, pc, callVars, ret, inserts, run>>

Levels == 1..MaxLevel

Nodes == Keys \union {p_listHead, p_listTail}

NodeKey(x) == CASE x = p_listHead -> MinKey [] x = p_listTail -> MaxKey [] OTHER -> x

Entry(x) == [key |-> NodeKey(x), value |-> value[x]]

NoRet == [op |-> "none"]

Init ==
  /\ forward = [l \in Levels |-> [x \in Nodes |-> IF x = p_listHead THEN p_listTail ELSE Null]]
  /\ value = [x \in Nodes |-> Absent]
  /\ cur_max_level = 1 /\ n = 0 /\ min = 0 /\ max = 0
  /\ pc = "ready" /\ op = "none" /\ key = 0 /\ arg = Absent
  /\ level = 0 /\ curr = p_listHead /\ update = [l \in Levels |-> Null] /\ vec = << >>
  /\ ret = NoRet /\ inserts = 0 /\ run = EmptyRun

\* The call ends and its variables with it.
Return(r) ==
  /\ pc' = "ready" /\ op' = "none" /\ key' = 0 /\ arg' = Absent
  /\ level' = 0 /\ curr' = p_listHead /\ update' = [l \in Levels |-> Null] /\ vec' = << >>
  /\ ret' = r

----------------------------------------------------------------------------
(* The search, from the highest level down *)

Seek(call, k, a) ==
  /\ pc' = "seek" /\ op' = call /\ key' = k /\ arg' = a
  /\ level' = cur_max_level /\ curr' = p_listHead
  /\ ret' = NoRet
  /\ UNCHANGED <<update, vec>>

\* insert_key up to the search, with its bounds of the keys.
Insert(k, v) ==
  /\ pc = "ready" /\ inserts < MaxInserts
  /\ max' = IF k > max THEN k ELSE max
  /\ min' = IF k <= max /\ k < min THEN k ELSE min
  /\ Seek("insert", k, v)
  /\ inserts' = inserts + 1
  /\ run' = SkipInsert(run, k, v)
  /\ UNCHANGED <<forward, value, cur_max_level, n>>

Lookup(k) ==
  /\ pc = "ready"
  /\ Seek("lookup", k, Absent)
  /\ UNCHANGED <<listVars, inserts, run>>

\* A turn of the inner loop, a turn of the outer one, or a null pointer.
SeekStep ==
  /\ pc = "seek" /\ level > 0
  /\ LET next == forward[level][curr]
     IN  \/ /\ next # Null /\ NodeKey(next) < key
            /\ curr' = next
            /\ UNCHANGED <<pc, level, update>>
         \/ /\ next # Null /\ NodeKey(next) >= key
            /\ update' = [update EXCEPT ![level] = curr]
            /\ level' = level - 1
            /\ UNCHANGED <<pc, curr>>
         \/ next = Null /\ pc' = "null" /\ UNCHANGED <<level, curr, update>>
  /\ UNCHANGED <<listVars, op, key, arg, vec, ret, inserts, run>>

\* The node after the search.
Reached == forward[1][curr]

\* A bug for Overwrite: the key is counted again.
OverwriteCounted ==
  /\ pc = "seek" /\ level = 0 /\ op = "insert" /\ NodeKey(Reached) = key
  /\ value' = [value EXCEPT ![Reached] = arg]
  /\ n' = n + 1
  /\ Return(NoRet)
  /\ UNCHANGED <<forward, cur_max_level, min, max, inserts, run>>

\* insert_key of a key that is there.
Overwrite ==
  /\ pc = "seek" /\ level = 0 /\ op = "insert" /\ NodeKey(Reached) = key
  /\ value' = [value EXCEPT ![Reached] = arg]
  /\ Return(NoRet)
  /\ UNCHANGED <<forward, cur_max_level, n, min, max, inserts, run>>

\* A bug for RaisedTo: the second half of the test is left out.
RaisedToAny(lv) == IF lv > cur_max_level THEN lv ELSE cur_max_level

\* cur_max_level after generateNodeLevel has drawn lv.
RaisedTo(lv) == IF lv > cur_max_level /\ lv < MaxLevel - 1 THEN lv ELSE cur_max_level

\* A bug for Before: on a new level too the last node of the search comes before.
BeforeIsCurr(l) == IF l > cur_max_level THEN curr ELSE update[l]

\* The node before the new one on level l.
Before(l) == IF l > cur_max_level THEN p_listHead ELSE update[l]

\* A bug for Linked: the new node gets pointers up to its own level only.
LinkedToOwn(lv) ==
  [l \in Levels |->
    IF l > RaisedTo(lv) THEN forward[l]
    ELSE [forward[l] EXCEPT ![key] = IF l <= lv THEN forward[l][Before(l)] ELSE Null,
                            ![Before(l)] = key]]

\* The pointers with a node for key on every level that there is, whatever level was
\* drawn.
Linked(lv) ==
  [l \in Levels |->
    IF l > RaisedTo(lv) THEN forward[l]
    ELSE [forward[l] EXCEPT ![key] = forward[l][Before(l)], ![Before(l)] = key]]

\* insert_key of a new key.
Link(lv) ==
  /\ pc = "seek" /\ level = 0 /\ op = "insert" /\ NodeKey(Reached) # key
  /\ cur_max_level' = RaisedTo(lv)
  /\ forward' = Linked(lv)
  /\ value' = [value EXCEPT ![key] = arg]
  /\ n' = n + 1
  /\ Return(NoRet)
  /\ UNCHANGED <<min, max, inserts, run>>

\* The end of lookup.
Found ==
  /\ pc = "seek" /\ level = 0 /\ op = "lookup"
  /\ Return([op |-> "lookup", key |-> key,
             value |-> IF NodeKey(Reached) = key THEN value[Reached] ELSE Absent])
  /\ UNCHANGED <<listVars, inserts, run>>

----------------------------------------------------------------------------
(* The scans *)

\* get_all_in_range, up to its loops.
GetAllInRange(key1, key2) ==
  /\ pc = "ready" /\ key1 < key2
  /\ \/ /\ key1 > max \/ key2 < min
        /\ Return([op |-> "range", from |-> key1, to |-> key2, all |-> << >>])
     \/ /\ ~(key1 > max \/ key2 < min)
        /\ pc' = "skip" /\ op' = "range" /\ key' = key1 /\ arg' = key2
        /\ curr' = forward[1][p_listHead] /\ ret' = NoRet
        /\ UNCHANGED <<level, update, vec>>
  /\ UNCHANGED <<listVars, inserts, run>>

GetAll ==
  /\ pc = "ready"
  /\ pc' = "copy" /\ op' = "all"
  /\ curr' = forward[1][p_listHead] /\ ret' = NoRet
  /\ UNCHANGED <<listVars, key, arg, level, update, vec, inserts, run>>

\* The loop of get_all_in_range over the keys before the range.
Skip ==
  /\ pc = "skip"
  /\ \/ curr = Null /\ pc' = "null" /\ UNCHANGED curr
     \/ curr # Null /\ NodeKey(curr) < key /\ curr' = forward[1][curr] /\ UNCHANGED pc
     \/ curr # Null /\ NodeKey(curr) >= key /\ pc' = "copy" /\ UNCHANGED curr
  /\ UNCHANGED <<listVars, op, key, arg, level, update, vec, ret, inserts, run>>

\* A bug for InScan: the end of the range is taken in.
InScanClosed == (op = "range" /\ NodeKey(curr) <= arg) \/ (op = "all" /\ curr # p_listTail)

\* The conditions of the loops that copy.
InScan == (op = "range" /\ NodeKey(curr) < arg) \/ (op = "all" /\ curr # p_listTail)

\* A bug for Copy: node = node->_forward[1] is left out.
CopyStays ==
  /\ pc = "copy" /\ InScan
  /\ vec' = IF vec = << >> THEN << Entry(curr) >> ELSE vec
  /\ UNCHANGED <<listVars, pc, op, key, arg, level, curr, update, ret, inserts, run>>

\* A turn of one of them.
Copy ==
  /\ pc = "copy"
  /\ \/ /\ curr # Null /\ InScan
        /\ vec' = Append(vec, Entry(curr))
        /\ curr' = forward[1][curr]
        /\ UNCHANGED pc
     \/ curr = Null /\ pc' = "null" /\ UNCHANGED <<vec, curr>>
  /\ UNCHANGED <<listVars, op, key, arg, level, update, ret, inserts, run>>

\* The end of the scan.
Copied ==
  /\ pc = "copy" /\ curr # Null /\ ~InScan
  /\ Return([op |-> op, from |-> key, to |-> arg, all |-> vec])
  /\ UNCHANGED <<listVars, inserts, run>>

----------------------------------------------------------------------------
Call ==
  \/ \E k \in Keys, v \in Values \union {Tombstone} : Insert(k, v)
  \/ \E k \in Keys : Lookup(k)
  \/ \E key1, key2 \in Bounds : GetAllInRange(key1, key2)
  \/ GetAll

\* generateNodeLevel draws from -1 to MAXLEVEL - 1.
Continue ==
  \/ SeekStep \/ Overwrite \/ (\E lv \in -1..MaxLevel - 1 : Link(lv)) \/ Found
  \/ Skip \/ Copy \/ Copied

Next == Call \/ Continue

Spec == Init /\ [][Next]_vars

\* The thread that called runs.
FairSpec == Spec /\ WF_vars(Continue)

----------------------------------------------------------------------------
(* Properties *)

Stored == Values \union {Tombstone}

TypeOK ==
  /\ forward \in [Levels -> [Nodes -> Nodes \union {Null}]]
  /\ value \in [Nodes -> Stored \union {Absent}]
  /\ cur_max_level \in 1..MaxLevel - 2
  /\ n \in 0..MaxInserts /\ min \in Int /\ max \in Int
  /\ pc \in {"ready", "seek", "skip", "copy", "null"}
  /\ op \in {"none", "insert", "lookup", "range", "all"}
  /\ key \in Int /\ arg \in Stored \union {Absent} \union Bounds
  /\ level \in 0..MaxLevel - 2 /\ curr \in Nodes \union {Null}
  /\ update \in [Levels -> Nodes \union {Null}]
  /\ vec \in Seq([key : Keys, value : Stored])
  /\ inserts \in 0..MaxInserts

\* No call follows a null pointer, though most nodes have null pointers on the levels
\* that came up after them: a node is met on those levels only that it is linked on.
NoNull == pc # "null"

\* The nodes that are linked on a level.
On(l) == {x \in Nodes \ {p_listTail} : forward[l][x] # Null}

\* Each level is a list from the head to the tail, in the order of the keys and
\* without a node left out, of nodes that are on the level below too.
ListShape ==
  \A l \in Levels :
    /\ p_listHead \in On(l) /\ forward[l][p_listTail] = Null
    /\ l > cur_max_level => On(l) = {p_listHead}
    /\ l > 1 => On(l) \subseteq On(l - 1)
    /\ \A x \in On(l) :
         LET y == forward[l][x]
         IN  /\ y \in On(l) \union {p_listTail} /\ y # p_listHead
             /\ x # p_listHead /\ y # p_listTail => x < y
             /\ \A z \in On(l) \ {x, y, p_listHead} : x = p_listHead \/ z > x => y # p_listTail /\ z > y

Listed == [k \in Keys |-> IF k \in On(1) THEN value[k] ELSE Absent]

\* Between two calls the list is the run that LSM takes it to be: the same entries,
\* as many of them, and the same bounds of the keys.
IsBufferRun ==
  pc = "ready" => [elts |-> Listed, n |-> n, min |-> min, max |-> max] = run

\* The calls answer as LSM takes them to: a lookup with the value of the key, the
\* scans with all entries of the range, or of the list, in the order of the keys.
AnswersAsRun ==
  /\ ret.op = "lookup" => ret.value = run.elts[ret.key]
  /\ ret.op \in {"range", "all"} =>
       \A i, j \in DOMAIN ret.all : i < j => ret.all[i].key < ret.all[j].key
  /\ ret.op = "range" =>
       ToSet(ret.all) = UNION {{[key |-> k, value |-> v] :
                                  v \in ToSet(EntriesInRange(run, k, ret.from, ret.to))} : k \in Keys}
  /\ ret.op = "all" => ToSet(ret.all) = {[key |-> k, value |-> run.elts[k]] : k \in RunKeys(run)}

\* The loops end.
CallsReturn == pc # "ready" ~> pc = "ready"

\* "if key isn't in the list, insert a new node!"
NewKeysGetNodes == pc = "ready" => RunKeys(run) \subseteq On(1)
=============================================================================
