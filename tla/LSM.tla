-------------------------------- MODULE LSM --------------------------------
(***************************************************************************)
(* The LSM tree of lsm.hpp: a buffer C_0 of skip lists, the disk levels,   *)
(* the client thread that inserts, deletes and looks up, and the merge     *)
(* thread that do_merge() starts and that moves the oldest buffer runs to  *)
(* disk while the client goes on.                                          *)
(*                                                                         *)
(* Sequences are indexed from 1, the code's vectors from 0.                *)
(*                                                                         *)
(* A buffer run is what SkipList keeps of it: the value of every key, the  *)
(* element counter, the smallest and the largest key.  A disk run is the   *)
(* sorted array of the run, grouped by key: run[k] lists the values of the *)
(* entries with key k in the order of the array.  The array has more than  *)
(* one entry for a key when the key was in several of the buffer runs that *)
(* were merged together.                                                   *)
(***************************************************************************)
EXTENDS RunReads, RunData

CONSTANTS
  Values,            \* the values the client stores with insert_key
  Zero,              \* the value 0, which need not be in Values
  IntMin,            \* INT_MIN, which need not be in Keys
  NumRuns,           \* _num_runs, skip lists in the buffer
  EltsPerRun,        \* _eltsPerRun, keys that fill a skip list
  NumToMerge,        \* _num_to_merge = ceil(merged_frac * NumRuns)
  DiskRunsPerLevel,  \* _diskRunsPerLevel, runs that fill a disk level
  MergeSize,         \* _mergeSize = ceil(merged_frac * DiskRunsPerLevel)
  FilterBits,        \* FilterBits[k]: the Bloom filter bits the hashes of k name
  Bounds,            \* the ends of the ranges the client asks for
  RewriteBuffered,   \* may the client write a key that is still in the buffer?
  MaxInserts         \* bound: calls of insert_key and delete_key

ASSUME ParamAssumption ==
  /\ NumRuns \in Nat \ {0} /\ EltsPerRun \in Nat \ {0}
  /\ DiskRunsPerLevel \in Nat \ {0}
  /\ NumToMerge \in 1..NumRuns /\ MergeSize \in 1..DiskRunsPerLevel
  /\ MaxInserts \in Nat

ASSUME DataAssumption ==
  /\ Keys \subseteq Int /\ Keys # {}
  /\ Tombstone \notin Values /\ Absent \notin Values /\ Tombstone # Absent
  /\ Zero # Tombstone
  /\ IntMin \in Int /\ \A k \in Keys : IntMin <= k
  /\ Bounds \subseteq Int
  /\ \A k \in Keys : FilterBits[k] \subseteq Nat
  /\ RewriteBuffered \in BOOLEAN

VARIABLES
  C_0,               \* the buffer's skip lists, oldest first
  filters,           \* their Bloom filters: the bits that are set
  activeRun,         \* index of the run that takes insertions
  levels,            \* levels[l]: the active runs of disk level l, oldest first
  mergeLock,         \* is the mutex held?
  mtPC,              \* where the merge thread is; "idle" when not joinable
  runsToMerge,       \* merge_runs' argument: the buffer runs it owns
  collected,         \* how many of them it has copied to to_merge
  toMerge,           \* to_merge, grouped by key
  toMergeSize,       \* to_merge.size()
  depth,             \* the argument of the innermost mergeRunsToLevel call
  pc,                \* where the client is; "ready" between two calls
  arg,               \* the arguments of that call, and what range found so far
  ret,               \* what the last lookup or range answered, until the next call
  inserts,           \* calls of insert_key and delete_key so far
  latest             \* history: the binding the client expects of every key

bufferVars == <<C_0, filters, activeRun>>
mergeVars  == <<mtPC, mergeLock, runsToMerge, collected, toMerge, toMergeSize, depth>>
clientVars == <<pc, arg, ret, inserts, latest>>
vars == <<bufferVars, levels, mergeVars, clientVars>>

----------------------------------------------------------------------------
(* Data *)

Stored == Values \union {Tombstone}

SkipRuns == [elts : [Keys -> Stored \union {Absent}], n : Nat, min : Int, max : Int]

DiskRuns == [Keys -> Seq(Stored)]

NoRet == [key |-> Absent, value |-> Absent]

NoArg == [key |-> Absent, value |-> Absent]

\* A bug for DropFirst: the last elements go.
DropLast(s, n) == SubSeq(s, 1, Len(s) - n)

\* vector::erase of the first n elements, and m times push_back of e after it.
DropFirst(s, n) == SubSeq(s, n + 1, Len(s))

Renew(s, n, m, e) == DropFirst(s, n) \o [i \in 1..m |-> e]

----------------------------------------------------------------------------
(* The buffer *)

\* The same, to run i of the buffer.
WriteTo(runs, i, k, v) == [runs EXCEPT ![i] = SkipInsert(@, k, v)]

\* The tests that make lookup search run i: key range and Bloom filter.
MayHold(i, k) ==
  /\ C_0[i].min <= k /\ k <= C_0[i].max
  /\ MayContain(filters[i], FilterBits[k])

\* The buffer runs in which lookup finds k.
BufferHits(k) == {i \in 1..activeRun : MayHold(i, k) /\ C_0[i].elts[k] # Absent}

\* What range() sees of key k in the buffer, newest run first.
BufferEntries(k, lo, hi) ==
  FlattenSeq(Reverse([i \in 1..activeRun |-> EntriesInRange(C_0[i], k, lo, hi)]))

----------------------------------------------------------------------------
(* The disk *)

\* Bugs for SearchOrder: the runs of a level oldest first, the levels bottom up.
OldestRunFirst(lvls) == FlattenSeq(lvls)

DeepestLevelFirst(lvls) == FlattenSeq(Reverse([l \in DOMAIN lvls |-> Reverse(lvls[l])]))

\* The runs of a set of levels in the order lookup() and range() search them.
SearchOrder(lvls) == FlattenSeq([l \in DOMAIN lvls |-> Reverse(lvls[l])])

\* What the first of some runs that holds k can answer.  A run whose largest key is
\* INT_MIN is left out: lookup takes that for the mark of a run without an index.  The
\* tests of the smallest and largest key and of the Bloom filter, which spare searches
\* that find nothing, are in DiskRun's Lookup; LookupIsExact says that they do.
Answers(runs, k) ==
  LET hits == {i \in DOMAIN runs : runs[i][k] # << >> /\ KeysOf(runs[i]) # {IntMin}}
  IN  IF hits = {} THEN {Absent} ELSE Found(runs[Min(hits)][k])

\* What range() can see of key k on disk, in the order it goes through the runs.
DiskEntries(runs, k, lo, hi) ==
  LET upTo[i \in 0..Len(runs)] ==
        IF i = 0 THEN {<< >>}
        ELSE {s \o t : s \in upTo[i - 1], t \in Slices(runs[i][k], k, lo, hi)}
  IN  upTo[Len(runs)]

\* What putIfEmpty keeps of a key's entries: the pair INT_MIN with V_TOMBSTONE is its
\* mark of a free slot.
Remembered(k, entries) ==
  IF k = IntMin THEN SelectSeq(entries, LAMBDA v : v # Tombstone) ELSE entries

\* The entries of a key that range() returns, of those it sees in that order.
\* putIfEmpty keeps the first value and answers every later call with it, and
\* range takes the answer 0 for "there was none".
Kept(k, entries) ==
  LET put == Remembered(k, entries)
  IN  CASE put = << >> -> << >>
        [] put # << >> /\ put[1] = Zero -> SelectSeq(put, LAMBDA v : v # Tombstone)
        [] OTHER -> IF put[1] = Tombstone THEN << >> ELSE << put[1] >>

\* A bug for Visible: the comparison with V_TOMBSTONE is left out.
ShownAsStored(v) == v

\* A tombstone is an answer of "not found".
Visible(v) == IF v = Tombstone THEN Absent ELSE v

\* DiskLevel's constructor: all its runs are blank files, none is active.
NewLevel == << >>

LevelFull(l) == Len(levels[l]) = DiskRunsPerLevel

----------------------------------------------------------------------------
(* The client *)

\* mergeThread.join() returns, or there is no thread to join.
Joined == mtPC \in {"idle", "done"}

\* A bug for NextRun: one key too many before the next run.
NextRunLate == IF C_0[activeRun].n > EltsPerRun THEN activeRun + 1 ELSE activeRun

\* The run insert_key is about to use.
NextRun == IF C_0[activeRun].n >= EltsPerRun THEN activeRun + 1 ELSE activeRun

\* The write of insert_key to run i of the buffer held in runs and bits.
Write(runs, bits, i, k, v) ==
  /\ C_0' = WriteTo(runs, i, k, v)
  /\ filters' = [bits EXCEPT ![i] = BloomAdd(@, FilterBits[k])]
  /\ latest' = [latest EXCEPT ![k] = Visible(v)]

MayWrite(k) ==
  /\ inserts < MaxInserts
  /\ RewriteBuffered \/ \A i \in DOMAIN C_0 : C_0[i].elts[k] = Absent

\* insert_key, and delete_key with v = V_TOMBSTONE, when the buffer has room.
Insert(k, v) ==
  /\ pc = "ready" /\ MayWrite(k)
  /\ NextRun <= NumRuns
  /\ activeRun' = NextRun
  /\ Write(C_0, filters, NextRun, k, v)
  /\ inserts' = inserts + 1
  /\ ret' = NoRet
  /\ UNCHANGED <<levels, mergeVars, pc, arg>>

\* The same calls when every run is full: do_merge, up to the join.
InsertFull(k, v) ==
  /\ pc = "ready" /\ MayWrite(k)
  /\ NextRun > NumRuns
  /\ activeRun' = NextRun
  /\ inserts' = inserts + 1
  /\ arg' = [key |-> k, value |-> v]
  /\ pc' = "insert_join"
  /\ ret' = NoRet
  /\ UNCHANGED <<C_0, filters, levels, mergeVars, latest>>

\* The rest of do_merge: the oldest runs go to a new merge thread, fresh ones
\* take their places, and insert_key writes its entry.
DoMerge ==
  /\ pc = "insert_join" /\ Joined
  /\ runsToMerge' = SubSeq(C_0, 1, NumToMerge)
  /\ mtPC' = "collect"
  /\ activeRun' = activeRun - NumToMerge
  /\ LET fresh == NumRuns - activeRun' + 1
     IN  Write(Renew(C_0, NumToMerge, fresh, EmptyRun), Renew(filters, NumToMerge, fresh, {}),
               activeRun', arg.key, arg.value)
  /\ pc' = "ready" /\ arg' = NoArg
  /\ UNCHANGED <<levels, mergeLock, collected, toMerge, toMergeSize, depth, ret, inserts>>

\* lookup that finds the key in the buffer.
LookupBuffer(k) ==
  /\ pc = "ready" /\ BufferHits(k) # {}
  /\ ret' = [key |-> k, value |-> Visible(C_0[Max(BufferHits(k))].elts[k])]
  /\ UNCHANGED <<bufferVars, levels, mergeVars, pc, arg, inserts, latest>>

\* lookup that does not, up to the join.
LookupMiss(k) ==
  /\ pc = "ready" /\ BufferHits(k) = {}
  /\ pc' = "lookup_join"
  /\ arg' = [key |-> k, value |-> Absent]
  /\ ret' = NoRet
  /\ UNCHANGED <<bufferVars, levels, mergeVars, inserts, latest>>

\* A bug for LookupDisk: no join before the disk is searched.
LookupDiskUnjoined ==
  /\ pc = "lookup_join"
  /\ \E v \in Answers(SearchOrder(levels), arg.key) :
       ret' = [key |-> arg.key, value |-> Visible(v)]
  /\ pc' = "ready" /\ arg' = NoArg
  /\ UNCHANGED <<bufferVars, levels, mergeVars, inserts, latest>>

\* The rest of lookup: the disk levels.
LookupDisk ==
  /\ pc = "lookup_join" /\ Joined
  /\ mtPC' = "idle"
  /\ \E v \in Answers(SearchOrder(levels), arg.key) :
       ret' = [key |-> arg.key, value |-> Visible(v)]
  /\ pc' = "ready" /\ arg' = NoArg
  /\ UNCHANGED <<bufferVars, levels, mergeLock, runsToMerge, collected, toMerge,
                 toMergeSize, depth, inserts, latest>>

\* range of no keys returns before it looks anywhere.
RangeNone(lo, hi) ==
  /\ pc = "ready" /\ hi <= lo
  /\ ret' = [from |-> lo, to |-> hi, found |-> EmptyArray]
  /\ UNCHANGED <<bufferVars, levels, mergeVars, pc, arg, inserts, latest>>

\* range up to the join: what it finds in the buffer.  size() is range over all
\* keys.
RangeBuffer(lo, hi) ==
  /\ pc = "ready" /\ lo < hi
  /\ pc' = "range_join"
  /\ arg' = [from |-> lo, to |-> hi, found |-> [k \in Keys |-> BufferEntries(k, lo, hi)]]
  /\ ret' = NoRet
  /\ UNCHANGED <<bufferVars, levels, mergeVars, inserts, latest>>

\* The rest of range: what it finds on disk.
RangeDisk ==
  /\ pc = "range_join" /\ Joined
  /\ mtPC' = "idle"
  /\ LET choices == [k \in Keys |-> DiskEntries(SearchOrder(levels), k, arg.from, arg.to)]
     IN  \E seen \in [Keys -> UNION {choices[k] : k \in Keys}] :
           /\ \A k \in Keys : seen[k] \in choices[k]
           /\ ret' = [from |-> arg.from, to |-> arg.to,
                      found |-> [k \in Keys |-> Kept(k, arg.found[k] \o seen[k])]]
  /\ pc' = "ready" /\ arg' = NoArg
  /\ UNCHANGED <<bufferVars, levels, mergeLock, runsToMerge, collected, toMerge,
                 toMergeSize, depth, inserts, latest>>

\* printElts and num_buffer join the merge thread too, and change nothing else.
Report ==
  /\ pc = "ready"
  /\ pc' = "report_join"
  /\ ret' = NoRet
  /\ UNCHANGED <<bufferVars, levels, mergeVars, arg, inserts, latest>>

ReportJoined ==
  /\ pc = "report_join" /\ Joined
  /\ mtPC' = "idle"
  /\ pc' = "ready"
  /\ UNCHANGED <<bufferVars, levels, mergeLock, runsToMerge, collected, toMerge,
                 toMergeSize, depth, arg, ret, inserts, latest>>

\* The destructor, up to the join.
Destroy ==
  /\ pc = "ready"
  /\ pc' = "destroy_join"
  /\ ret' = NoRet
  /\ UNCHANGED <<bufferVars, levels, mergeVars, arg, inserts, latest>>

\* The rest of it: the lock, the buffer and the levels are freed.
Destroyed ==
  /\ pc = "destroy_join" /\ Joined
  /\ mtPC' = "idle"
  /\ C_0' = << >> /\ filters' = << >> /\ levels' = << >>
  /\ pc' = "destroyed"
  /\ UNCHANGED <<activeRun, mergeLock, runsToMerge, collected, toMerge, toMergeSize,
                 depth, arg, ret, inserts, latest>>

\* Nothing is left to do once the tree is gone.
Gone == pc = "destroyed" /\ UNCHANGED vars

----------------------------------------------------------------------------
(* The merge thread: merge_runs, and mergeRunsToLevel below it *)

\* One turn of the loop that copies a run in front of to_merge and deletes it.
Collect ==
  /\ mtPC = "collect" /\ collected < Len(runsToMerge)
  /\ LET run == runsToMerge[collected + 1]
     IN  /\ toMerge' = [k \in Keys |-> IF run.elts[k] = Absent THEN toMerge[k]
                                       ELSE << run.elts[k] >> \o toMerge[k]]
         /\ toMergeSize' = toMergeSize + Cardinality(RunKeys(run))
  /\ collected' = collected + 1
  /\ UNCHANGED <<bufferVars, levels, mtPC, mergeLock, runsToMerge, depth, clientVars>>

\* std::sort by key only, which may leave equal keys in any order.
Sort ==
  /\ mtPC = "collect" /\ collected = Len(runsToMerge)
  /\ mtPC' = "lock"
  /\ LET orders == [k \in Keys |-> {[i \in DOMAIN toMerge[k] |-> toMerge[k][p[i]]] :
                                      p \in Bijection(DOMAIN toMerge[k], DOMAIN toMerge[k])}]
     IN  \E sorted \in [Keys -> UNION {orders[k] : k \in Keys}] :
           /\ \A k \in Keys : sorted[k] \in orders[k]
           /\ toMerge' = sorted
  /\ UNCHANGED <<bufferVars, levels, mergeLock, runsToMerge, collected, toMergeSize,
                 depth, clientVars>>

\* The lock, and the test that calls mergeRunsToLevel(1).
Lock ==
  /\ mtPC = "lock" /\ ~mergeLock
  /\ mergeLock' = TRUE
  /\ IF LevelFull(1) THEN mtPC' = "descend" /\ depth' = 1
                     ELSE mtPC' = "add" /\ UNCHANGED depth
  /\ UNCHANGED <<bufferVars, levels, runsToMerge, collected, toMerge, toMergeSize, clientVars>>

\* A bug for Descend: the next level is taken to have room.
DescendOnce ==
  /\ mtPC = "descend"
  /\ levels' = IF depth = Len(levels) THEN Append(levels, NewLevel) ELSE levels
  /\ mtPC' = "add_runs"
  /\ UNCHANGED <<bufferVars, mergeLock, runsToMerge, collected, toMerge, toMergeSize, depth,
                 clientVars>>

\* mergeRunsToLevel(depth) up to its recursive call, or past the test for it.
Descend ==
  /\ mtPC = "descend"
  /\ levels' = IF depth = Len(levels) THEN Append(levels, NewLevel) ELSE levels
  /\ IF Len(levels'[depth + 1]) = DiskRunsPerLevel
       THEN depth' = depth + 1 /\ UNCHANGED mtPC
       ELSE mtPC' = "add_runs" /\ UNCHANGED depth
  /\ UNCHANGED <<bufferVars, mergeLock, runsToMerge, collected, toMerge, toMergeSize, clientVars>>

\* A bug for MergedRun: all the runs of the level are merged, not the oldest ones.
WholeLevelMerged ==
  LET isLast == depth + 1 = Len(levels) /\ levels[depth + 1] = << >>
      merged == HeapMerge(levels[depth])
  IN  IF isLast THEN DropLastTombstone(merged) ELSE merged

\* What addRuns leaves of the oldest runs of level depth.
MergedRun ==
  LET isLast == depth + 1 = Len(levels) /\ levels[depth + 1] = << >>
      merged == HeapMerge(SubSeq(levels[depth], 1, MergeSize))
  IN  IF isLast THEN DropLastTombstone(merged) ELSE merged

\* addRuns.  With no run left in the level it writes past the vector of runs; with
\* no entry left in the result constructIndex reads map[-1].
AddRuns ==
  /\ mtPC = "add_runs"
  /\ \/ LevelFull(depth + 1) /\ mtPC' = "overrun" /\ UNCHANGED levels
     \/ ~LevelFull(depth + 1) /\ KeysOf(MergedRun) = {}
        /\ mtPC' = "index_underflow" /\ UNCHANGED levels
     \/ ~LevelFull(depth + 1) /\ KeysOf(MergedRun) # {}
        /\ mtPC' = "free"
        /\ levels' = [levels EXCEPT ![depth + 1] = Append(@, MergedRun)]
  /\ UNCHANGED <<bufferVars, mergeLock, runsToMerge, collected, toMerge, toMergeSize,
                 depth, clientVars>>

\* A bug for Free: the runs stay in the level.
FreeNothing ==
  /\ mtPC = "free"
  /\ mtPC' = IF depth > 1 THEN "add_runs" ELSE "add"
  /\ depth' = depth - 1
  /\ UNCHANGED <<bufferVars, levels, mergeLock, runsToMerge, collected, toMerge, toMergeSize,
                 clientVars>>

\* freeMergedRuns, and the return from mergeRunsToLevel(depth).  It asserts that it was
\* given MergeSize runs of this level, which are the ones getRunsToMerge has listed.
Free ==
  /\ mtPC = "free"
  /\ levels' = [levels EXCEPT ![depth] = DropFirst(@, MergeSize)]
  /\ mtPC' = IF depth > 1 THEN "add_runs" ELSE "add"
  /\ depth' = depth - 1
  /\ UNCHANGED <<bufferVars, mergeLock, runsToMerge, collected, toMerge, toMergeSize, clientVars>>

\* addRunByArray with its two assertions.
Add ==
  /\ mtPC = "add"
  /\ IF LevelFull(1) \/ toMergeSize # NumToMerge * EltsPerRun
       THEN mtPC' = "aborted" /\ UNCHANGED levels
       ELSE mtPC' = "unlock" /\ levels' = [levels EXCEPT ![1] = Append(@, toMerge)]
  /\ UNCHANGED <<bufferVars, mergeLock, runsToMerge, collected, toMerge, toMergeSize,
                 depth, clientVars>>

\* A bug for Unlock: the mutex stays locked.
UnlockForgotten ==
  /\ mtPC = "unlock"
  /\ mtPC' = "done"
  /\ runsToMerge' = << >> /\ collected' = 0
  /\ toMerge' = EmptyArray /\ toMergeSize' = 0
  /\ UNCHANGED <<bufferVars, levels, mergeLock, depth, clientVars>>

\* The unlock and the return from merge_runs, which ends its variables.
Unlock ==
  /\ mtPC = "unlock"
  /\ mtPC' = "done" /\ mergeLock' = FALSE
  /\ runsToMerge' = << >> /\ collected' = 0
  /\ toMerge' = EmptyArray /\ toMergeSize' = 0
  /\ UNCHANGED <<bufferVars, levels, depth, clientVars>>

----------------------------------------------------------------------------
Init ==
  /\ C_0 = [i \in 1..NumRuns |-> EmptyRun]
  /\ filters = [i \in 1..NumRuns |-> {}]
  /\ activeRun = 1
  /\ levels = << NewLevel >>
  /\ mtPC = "idle" /\ mergeLock = FALSE
  /\ runsToMerge = << >> /\ collected = 0
  /\ toMerge = EmptyArray /\ toMergeSize = 0 /\ depth = 0
  /\ pc = "ready" /\ arg = NoArg /\ ret = NoRet /\ inserts = 0
  /\ latest = [k \in Keys |-> Absent]

Call ==
  \/ \E k \in Keys, v \in Stored : Insert(k, v) \/ InsertFull(k, v)
  \/ \E k \in Keys : LookupBuffer(k) \/ LookupMiss(k)
  \/ \E lo, hi \in Bounds : RangeNone(lo, hi) \/ RangeBuffer(lo, hi)
  \/ Report
  \/ Destroy

\* The rest of a call, after the join.
Resume == DoMerge \/ LookupDisk \/ RangeDisk \/ ReportJoined \/ Destroyed

MergeThread == Collect \/ Sort \/ Lock \/ Descend \/ AddRuns \/ Free \/ Add \/ Unlock

Next == Call \/ Resume \/ MergeThread \/ Gone

Spec == Init /\ [][Next]_vars

\* Both threads are scheduled; the client may stop calling between two calls.
Fairness == WF_vars(Resume) /\ WF_vars(MergeThread)

FairSpec == Spec /\ Fairness

----------------------------------------------------------------------------
(* Properties *)

ArgOK ==
  /\ pc \in {"ready", "report_join", "destroy_join", "destroyed"} => arg = NoArg
  /\ pc = "insert_join" => arg \in [key : Keys, value : Stored]
  /\ pc = "lookup_join" => arg \in [key : Keys, value : {Absent}]
  /\ pc = "range_join" => arg.from \in Bounds /\ arg.to \in Bounds

\* The types of the variables, and what the client's position says of arg.
TypeOK ==
  /\ C_0 \in Seq(SkipRuns)
  /\ filters \in Seq(SUBSET Nat)
  /\ activeRun \in 1..NumRuns + 1
  /\ levels \in Seq(Seq(DiskRuns))
  /\ mergeLock \in BOOLEAN
  /\ mtPC \in {"idle", "collect", "lock", "descend", "add_runs", "free", "add", "unlock",
               "done", "aborted", "overrun", "index_underflow"}
  /\ runsToMerge \in Seq(SkipRuns)
  /\ collected \in Nat /\ toMerge \in DiskRuns /\ toMergeSize \in Nat /\ depth \in Nat
  /\ pc \in {"ready", "insert_join", "lookup_join", "range_join", "report_join",
             "destroy_join", "destroyed"}
  /\ ArgOK
  /\ inserts \in 0..MaxInserts
  /\ latest \in [Keys -> Values \union {Absent}]

\* addRunByArray's assertions hold: whatever the client did to the runs that are
\* merged, the array has exactly the entries of a level-1 run and, when it is
\* added, the merges below have made room for it.
AssertionsHold == mtPC # "aborted"

\* addRuns never finds its level full, which it does not test: the levels below
\* are merged down in time.
RoomForMerge == mtPC # "overrun"

\* The buffer: the runs before the active one are full and those after it are
\* empty, full means as many keys as the counter says, and the index is one past
\* the end only inside insert_key.
BufferShape ==
  /\ pc # "destroyed" =>
       /\ Len(C_0) = NumRuns /\ Len(filters) = NumRuns
       /\ \A i \in 1..NumRuns :
            /\ C_0[i].n = Cardinality(RunKeys(C_0[i]))
            /\ i < activeRun => C_0[i].n = EltsPerRun
            /\ i = activeRun => C_0[i].n <= EltsPerRun
            /\ i > activeRun => C_0[i].n = 0
  /\ pc = "insert_join" <=> activeRun = NumRuns + 1

\* What the merge thread owns: full runs only, of which it has copied some.
MergeShape ==
  /\ pc = "destroyed" => mtPC = "idle"
  /\ mtPC \in {"idle", "done"} => runsToMerge = << >> /\ collected = 0 /\ toMergeSize = 0
  /\ mtPC = "collect" =>
       /\ Len(runsToMerge) = NumToMerge /\ collected <= NumToMerge
       /\ \A i \in 1..NumToMerge : Cardinality(RunKeys(runsToMerge[i])) = EltsPerRun
       /\ toMergeSize = collected * EltsPerRun
  /\ mtPC \in {"lock", "descend", "add_runs", "free", "add"} =>
       toMergeSize = NumToMerge * EltsPerRun

\* The levels: while mergeRunsToLevel goes down, the levels it came through are
\* full and on the way back the level below has room.
LevelShape ==
  /\ pc # "destroyed" => levels # << >>
  /\ \A l \in DOMAIN levels : Len(levels[l]) <= DiskRunsPerLevel
  /\ mtPC \in {"descend", "add_runs", "free"} =>
       /\ depth \in 1..Len(levels)
       /\ \A l \in 1..depth : Len(levels[l]) = DiskRunsPerLevel
  /\ mtPC \in {"add_runs", "free"} => depth < Len(levels)
  /\ mtPC = "add_runs" => Len(levels[depth + 1]) < DiskRunsPerLevel
  /\ mtPC = "add" => Len(levels[1]) < DiskRunsPerLevel

\* The counters of the buffer, the merge thread and the levels fit together in
\* such a way that no merge is started with the wrong number of entries or
\* reaches a level without room.
ShapeInv == BufferShape /\ MergeShape /\ LevelShape /\ AssertionsHold /\ RoomForMerge

\* The entries a search could find for k in the order of their age: in the buffer,
\* then in what the merge thread has taken out of it, then on disk.
BufferNewest(runs, k) ==
  LET holders == {i \in DOMAIN runs : runs[i].elts[k] # Absent}
  IN  IF holders = {} THEN Absent ELSE runs[Max(holders)].elts[k]

Surviving(k) ==
  IF BufferNewest(C_0, k) # Absent THEN {BufferNewest(C_0, k)}
  ELSE IF mtPC = "collect" /\ BufferNewest(runsToMerge, k) # Absent
    THEN {BufferNewest(runsToMerge, k)}
  ELSE IF toMerge[k] # << >> THEN ToSet(toMerge[k])
  ELSE Answers(SearchOrder(levels), k)

\* At every moment, in the middle of a merge too, the newest entry of each key
\* that is left in the buffer, with the merge thread or on disk is the one the
\* client wrote last: nothing is lost, nothing older comes back.
NewestSurvives ==
  pc # "destroyed" => \A k \in Keys : {Visible(v) : v \in Surviving(k)} = {latest[k]}

\* A key that is in a buffer run passes the tests that come before the search of
\* the run: its Bloom filter and its smallest and largest key leave no key out.
NoFalseNegatives ==
  \A i \in DOMAIN C_0, k \in Keys : C_0[i].elts[k] # Absent => MayHold(i, k)

\* The run that level l's constructor maps has room for this many entries.
RunSize[l \in Nat \ {0}] ==
  IF l = 1 THEN NumToMerge * EltsPerRun ELSE MergeSize * RunSize[l - 1]

\* The places of the entries of a run, and their number.
PlacesOf(array) == UNION {{k} \X DOMAIN array[k] : k \in Keys}

Entries(array) == Cardinality(PlacesOf(array))

\* No merge writes past the end of the file mapped for its result, though it
\* only counts entries as it goes, and no level has more runs than it has room
\* for.
RunsFit ==
  \A l \in DOMAIN levels :
    /\ Len(levels[l]) <= DiskRunsPerLevel
    /\ \A r \in DOMAIN levels[l] : Entries(levels[l][r]) \in 1..RunSize[l]

\* The dictionary of KVStore, as the client has built it and as it sees it.
KV == INSTANCE KVStore WITH dict <- latest

\* The tree answers every lookup and every range like a dictionary, whatever the
\* merge thread is doing and wherever the entries are.
ActsAsDictionary == KV!KVSpec

\* A lookup answers with the value that was written last.
LookupsAreCurrent ==
  ret # NoRet /\ "key" \in DOMAIN ret => ret.value = latest[ret.key]

\* A range has every bound key of the range once, with the last value written.
RangesAreCurrent ==
  "found" \in DOMAIN ret =>
    \A k \in Keys : ret.found[k] = IF ret.from <= k /\ k < ret.to /\ latest[k] # Absent
                                   THEN << latest[k] >> ELSE << >>

\* A call that waits for the merge thread gets its turn: the merge it waits for
\* ends, however many levels it goes down.
CallsReturn == pc # "ready" ~> pc \in {"ready", "destroyed"}

\* A merge that was started ends, with no help from the client.
MergesEnd == mtPC = "collect" ~> mtPC \in {"done", "idle"}
=============================================================================
