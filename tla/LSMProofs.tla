----------------------------- MODULE LSMProofs -----------------------------
(***************************************************************************)
(* Invariants of LSM for every size of the tree, every set of keys and     *)
(* values and every number of calls.                                       *)
(***************************************************************************)
EXTENDS LSM, FlattenLemmas, FiniteSetTheorems, SequenceTheorems, WellFoundedInduction, TLAPS

----------------------------------------------------------------------------
(* Operators *)

\* What the assumptions on the constants say, in the form the leaves use.
LEMMA Facts ==
  /\ NumRuns \in Nat \ {0} /\ EltsPerRun \in Nat \ {0} /\ DiskRunsPerLevel \in Nat \ {0}
  /\ NumToMerge \in 1..NumRuns /\ MergeSize \in 1..DiskRunsPerLevel
  /\ MaxInserts \in Nat
  /\ Keys \subseteq Int /\ Bounds \subseteq Int
  /\ \A k \in Keys : FilterBits[k] \in SUBSET Nat
  /\ Stored = Values \union {Tombstone}
  /\ Absent \notin Stored
  BY ParamAssumption, DataAssumption DEF ParamAssumption, DataAssumption, Stored

\* A skip list as its constructor leaves it.
LEMMA EmptyRunType == EmptyRun \in SkipRuns
  BY DEF EmptyRun, SkipRuns

\* An array without entries.
LEMMA EmptyArrayType == EmptyArray \in DiskRuns
  BY DEF EmptyArray, DiskRuns

\* The largest element of a non-empty subset of 1..n.
LEMMA MaxOfIndices ==
  ASSUME NEW n \in Nat, NEW S \in SUBSET (1..n), S # {}
  PROVE  Max(S) \in S /\ \A i \in S : i <= Max(S)
<1> DEFINE T == {n - i : i \in S}
<1>1. T \subseteq Nat /\ T # {}
  <2>1. \A i \in S : n - i \in Nat
    OBVIOUS
  <2> QED
    BY <2>1
<1>2. PICK x \in T : \A y \in T : ~ (<<y, x>> \in OpToRel(<, Nat))
  BY <1>1, NatLessThanWellFounded, WFMin
<1>3. PICK m \in S : x = n - m
  OBVIOUS
<1>4. \A i \in S : i <= m
  <2> SUFFICES ASSUME NEW i \in S, ~(i <= m) PROVE FALSE
    OBVIOUS
  <2>1. n - i \in T /\ n - i < x /\ n - i \in Nat /\ x \in Nat
    BY <1>3
  <2> QED
    BY <2>1, <1>2 DEF OpToRel
<1> QED
  BY <1>3, <1>4 DEF Max

\* SkipList::insert_key keeps the type of the run.
LEMMA SkipInsertType ==
  ASSUME NEW run \in SkipRuns, NEW k \in Keys, NEW v \in Stored
  PROVE  SkipInsert(run, k, v) \in SkipRuns
  BY Facts DEF SkipRuns, SkipInsert

\* Erasing from the front.
LEMMA DropFirstType ==
  ASSUME NEW S, NEW s \in Seq(S), NEW n \in 0..Len(s)
  PROVE  /\ DropFirst(s, n) \in Seq(S)
         /\ Len(DropFirst(s, n)) = Len(s) - n
         /\ \A i \in 1..Len(s) - n : DropFirst(s, n)[i] = s[i + n]
  BY DEF DropFirst

\* Several runs merge to a run.
LEMMA HeapMergeType ==
  ASSUME NEW runs \in Seq(DiskRuns)
  PROVE  HeapMerge(runs) \in DiskRuns
<1> SUFFICES ASSUME NEW k \in Keys
             PROVE  LET holders == {i \in DOMAIN runs : runs[i][k] # << >>}
                    IN  (IF holders = {} THEN << >> ELSE << runs[Max(holders)][k][1] >>)
                          \in Seq(Stored)
  BY DEF HeapMerge, DiskRuns
<1> DEFINE holders == {i \in DOMAIN runs : runs[i][k] # << >>}
<1>1. CASE holders = {}
  BY <1>1
<1>2. CASE holders # {}
  <2>1. Max(holders) \in holders
    BY <1>2, MaxOfIndices, DOMAIN runs = 1..Len(runs), Len(runs) \in Nat
  <2>2. runs[Max(holders)][k] \in Seq(Stored) /\ runs[Max(holders)][k] # << >>
    BY <2>1 DEF DiskRuns
  <2> HIDE DEF holders
  <2>3. runs[Max(holders)][k][1] \in Stored
    BY <2>2
  <2> QED
    BY <1>2, <2>3 DEF holders
<1> QED
  BY <1>1, <1>2

\* An array without the entries of a key.
LEMMA DropEntryType ==
  ASSUME NEW array \in DiskRuns, NEW k
  PROVE  [array EXCEPT ![k] = << >>] \in DiskRuns
<1> << >> \in Seq(Stored)
  OBVIOUS
<1> QED
  BY DEF DiskRuns

\* What addRuns makes of some runs of a level is a run.
LEMMA MergedRunType ==
  ASSUME levels \in Seq(Seq(DiskRuns)), depth \in 1..Len(levels),
         MergeSize <= Len(levels[depth])
  PROVE  MergedRun \in DiskRuns
<1> DEFINE oldest == SubSeq(levels[depth], 1, MergeSize)
<1>1. oldest \in Seq(DiskRuns)
  BY Facts
<1>2. HeapMerge(oldest) \in DiskRuns
  BY <1>1, HeapMergeType
<1>3. \A array \in DiskRuns : DropLastTombstone(array) \in DiskRuns
  BY DropEntryType DEF DropLastTombstone
<1> QED
  BY <1>2, <1>3 DEF MergedRun

----------------------------------------------------------------------------
(* Cardinality of what a buffer run holds *)

CountedRun(run) == run \in SkipRuns /\ IsFiniteSet(RunKeys(run)) /\ run.n = Cardinality(RunKeys(run))

\* The counter of a fresh skip list is right.
LEMMA EmptyRunCounted == CountedRun(EmptyRun) /\ EmptyRun.n = 0
<1>1. RunKeys(EmptyRun) = {}
  BY DEF RunKeys, EmptyRun
<1> QED
  BY <1>1, EmptyRunType, FS_EmptySet DEF CountedRun, EmptyRun

\* The counter of a skip list keeps up with its keys.
LEMMA SkipInsertCounted ==
  ASSUME NEW run, CountedRun(run), NEW k \in Keys, NEW v \in Stored
  PROVE  /\ CountedRun(SkipInsert(run, k, v))
         /\ SkipInsert(run, k, v).n \in {run.n, run.n + 1}
<1> DEFINE after == SkipInsert(run, k, v)
<1>1. after \in SkipRuns
  BY SkipInsertType DEF CountedRun
<1>2. RunKeys(after) = RunKeys(run) \union {k}
  BY Facts DEF RunKeys, SkipInsert, CountedRun, SkipRuns
<1>3. run.elts[k] = Absent <=> k \notin RunKeys(run)
  BY DEF RunKeys
<1>4. after.n = IF k \in RunKeys(run) THEN run.n ELSE run.n + 1
  BY <1>3 DEF SkipInsert
<1>5. /\ IsFiniteSet(RunKeys(run) \union {k})
      /\ Cardinality(RunKeys(run) \union {k}) =
           IF k \in RunKeys(run) THEN Cardinality(RunKeys(run)) ELSE Cardinality(RunKeys(run)) + 1
  BY FS_AddElement DEF CountedRun
<1> QED
  BY <1>1, <1>2, <1>4, <1>5 DEF CountedRun

\* The fresh elements, as a sequence.
LEMMA ConstantSeq ==
  ASSUME NEW S, NEW m \in Nat, NEW e \in S
  PROVE  /\ [i \in 1..m |-> e] \in Seq(S)
         /\ Len([i \in 1..m |-> e]) = m
         /\ \A j \in 1..m : [i \in 1..m |-> e][j] = e
  OBVIOUS

\* As many fresh elements as were erased: the length stays.
LEMMA RenewType ==
  ASSUME NEW S, NEW N \in Nat, NEW s \in Seq(S), Len(s) = N, NEW n \in 0..N, NEW e \in S
  PROVE  /\ Renew(s, n, n, e) \in Seq(S)
         /\ Len(Renew(s, n, n, e)) = N
         /\ \A j \in 1..N - n : Renew(s, n, n, e)[j] = s[j + n]
<1> DEFINE t == DropFirst(s, n)
           u == [i \in 1..n |-> e]
<1>1. t \in Seq(S) /\ Len(t) = Len(s) - n /\ \A i \in 1..Len(s) - n : t[i] = s[i + n]
  BY DropFirstType
<1>2. u \in Seq(S) /\ Len(u) = n /\ \A i \in 1..n : u[i] = e
  BY ConstantSeq
<1> HIDE DEF t, u
<1>3. /\ t \o u \in Seq(S) /\ Len(t \o u) = Len(t) + Len(u)
      /\ \A i \in 1..Len(t) + Len(u) : (t \o u)[i] = IF i <= Len(t) THEN t[i] ELSE u[i - Len(t)]
  BY <1>1, <1>2, ConcatProperties
<1>4. Renew(s, n, n, e) = t \o u /\ Len(t) + Len(u) = Len(s)
  BY <1>1, <1>2 DEF t, u, Renew
<1>5. ASSUME NEW j \in 1..Len(s) - n PROVE (t \o u)[j] = s[j + n]
  BY <1>1, <1>2, <1>3
<1> QED
  BY <1>3, <1>4, <1>5

\* After do_merge's push_backs the fresh elements are the last ones.
LEMMA RenewLast ==
  ASSUME NEW S, NEW s \in Seq(S), NEW n \in 0..Len(s), NEW e \in S,
         NEW j \in Len(s) - n + 1..Len(s)
  PROVE  Renew(s, n, n, e)[j] = e
<1> DEFINE t == DropFirst(s, n)
           u == [i \in 1..n |-> e]
<1>1. t \in Seq(S) /\ Len(t) = Len(s) - n
  BY DropFirstType
<1>2. u \in Seq(S) /\ Len(u) = n /\ \A i \in 1..n : u[i] = e
  BY ConstantSeq
<1> HIDE DEF t, u
<1>3. j \in 1..Len(t) + Len(u) /\ ~(j <= Len(t)) /\ j - Len(t) \in 1..n
  BY <1>1, <1>2
<1>4. (t \o u)[j] = u[j - Len(t)]
  BY <1>1, <1>2, <1>3, ConcatProperties
<1> QED
  BY <1>2, <1>3, <1>4 DEF t, u, Renew

----------------------------------------------------------------------------
(* The inductive invariant *)

FiniteRuns == \A i \in DOMAIN C_0 : IsFiniteSet(RunKeys(C_0[i]))

Inv == TypeOK /\ ShapeInv /\ FiniteRuns

\* The invariant holds of a tree just constructed.
LEMMA InvInit == Init => Inv
<1> SUFFICES ASSUME Init PROVE Inv
  OBVIOUS
<1>1. C_0 \in Seq(SkipRuns) /\ Len(C_0) = NumRuns /\ \A i \in 1..NumRuns : C_0[i] = EmptyRun
  <2>1. C_0 = [i \in 1..NumRuns |-> EmptyRun] /\ NumRuns \in Nat
    BY Facts DEF Init
  <2> QED
    BY <2>1, EmptyRunType, ConstantSeq
<1>2. filters \in Seq(SUBSET Nat) /\ Len(filters) = NumRuns
  <2>1. filters = [i \in 1..NumRuns |-> {}] /\ NumRuns \in Nat /\ {} \in SUBSET Nat
    BY Facts DEF Init
  <2> QED
    BY <2>1, ConstantSeq
<1>3. levels \in Seq(Seq(DiskRuns)) /\ Len(levels) = 1 /\ levels[1] = << >>
  BY DEF Init, NewLevel
<1>4. TypeOK
  <2>1. activeRun \in 1..NumRuns + 1 /\ inserts \in 0..MaxInserts
    BY Facts DEF Init
  <2>2. toMerge \in DiskRuns
    BY EmptyArrayType DEF Init
  <2>3. ArgOK /\ latest \in [Keys -> Values \union {Absent}]
    BY DEF Init, ArgOK
  <2>4. /\ mergeLock \in BOOLEAN /\ mtPC = "idle" /\ pc = "ready"
        /\ runsToMerge = << >> /\ collected = 0 /\ toMergeSize = 0 /\ depth = 0
    BY DEF Init
  <2> QED
    BY <1>1, <1>2, <1>3, <2>1, <2>2, <2>3, <2>4 DEF TypeOK
<1>5. BufferShape
  <2>1. pc = "ready" /\ activeRun = 1 /\ activeRun # NumRuns + 1 /\ EltsPerRun >= 0
    BY Facts DEF Init
  <2>2. \A i \in 1..NumRuns : C_0[i].n = 0 /\ Cardinality(RunKeys(C_0[i])) = 0
    BY <1>1, EmptyRunCounted DEF CountedRun
  <2>3. \A i \in 1..NumRuns : ~(i < 1)
    OBVIOUS
  <2> QED
    BY <1>1, <1>2, <2>1, <2>2, <2>3 DEF BufferShape
<1>6. MergeShape
  BY DEF Init, MergeShape
<1>7. LevelShape
  BY <1>3, Facts DEF Init, NewLevel, LevelShape
<1>8. FiniteRuns
  BY <1>1, EmptyRunCounted DEF FiniteRuns, CountedRun
<1> QED
  BY <1>4, <1>5, <1>6, <1>7, <1>8 DEF Inv, ShapeInv, Init, AssertionsHold, RoomForMerge

\* A lookup that ends in the buffer changes only the answer.
LEMMA LookupBufferInv == ASSUME Inv, NEW k \in Keys, LookupBuffer(k) PROVE Inv'
  BY Facts DEF Inv, TypeOK, ArgOK, ShapeInv, BufferShape, MergeShape, LevelShape,
      AssertionsHold, RoomForMerge, FiniteRuns, bufferVars, mergeVars, LookupBuffer

\* lookup up to the join.
LEMMA LookupMissInv == ASSUME Inv, NEW k \in Keys, LookupMiss(k) PROVE Inv'
  BY Facts DEF Inv, TypeOK, ArgOK, ShapeInv, BufferShape, MergeShape, LevelShape,
      AssertionsHold, RoomForMerge, FiniteRuns, bufferVars, mergeVars, LookupMiss

\* The rest of lookup.
LEMMA LookupDiskInv == ASSUME Inv, LookupDisk PROVE Inv'
  BY Facts DEF Inv, TypeOK, ArgOK, ShapeInv, BufferShape, MergeShape, LevelShape,
      AssertionsHold, RoomForMerge, FiniteRuns, bufferVars, mergeVars, LookupDisk, Joined, NoArg

\* range of no keys changes only the answer.
LEMMA RangeNoneInv == ASSUME Inv, NEW lo \in Bounds, NEW hi \in Bounds, RangeNone(lo, hi) PROVE Inv'
  BY Facts DEF Inv, TypeOK, ArgOK, ShapeInv, BufferShape, MergeShape, LevelShape,
      AssertionsHold, RoomForMerge, FiniteRuns, bufferVars, mergeVars, RangeNone

\* range up to the join.
LEMMA RangeBufferInv == ASSUME Inv, NEW lo \in Bounds, NEW hi \in Bounds, RangeBuffer(lo, hi) PROVE Inv'
  BY Facts DEF Inv, TypeOK, ArgOK, ShapeInv, BufferShape, MergeShape, LevelShape,
      AssertionsHold, RoomForMerge, FiniteRuns, bufferVars, mergeVars, RangeBuffer

\* The rest of range.
LEMMA RangeDiskInv == ASSUME Inv, RangeDisk PROVE Inv'
  BY Facts DEF Inv, TypeOK, ArgOK, ShapeInv, BufferShape, MergeShape, LevelShape,
      AssertionsHold, RoomForMerge, FiniteRuns, bufferVars, mergeVars, RangeDisk, Joined, NoArg

\* printElts and num_buffer up to the join.
LEMMA ReportInv == ASSUME Inv, Report PROVE Inv'
  BY Facts DEF Inv, TypeOK, ArgOK, ShapeInv, BufferShape, MergeShape, LevelShape,
      AssertionsHold, RoomForMerge, FiniteRuns, bufferVars, mergeVars, Report

\* The rest of them.
LEMMA ReportJoinedInv == ASSUME Inv, ReportJoined PROVE Inv'
  BY Facts DEF Inv, TypeOK, ArgOK, ShapeInv, BufferShape, MergeShape, LevelShape,
      AssertionsHold, RoomForMerge, FiniteRuns, bufferVars, mergeVars, ReportJoined, Joined

\* The destructor up to the join.
LEMMA DestroyInv == ASSUME Inv, Destroy PROVE Inv'
  BY Facts DEF Inv, TypeOK, ArgOK, ShapeInv, BufferShape, MergeShape, LevelShape,
      AssertionsHold, RoomForMerge, FiniteRuns, bufferVars, mergeVars, Destroy

\* The rest of the destructor.
LEMMA DestroyedInv == ASSUME Inv, Destroyed PROVE Inv'
  BY Facts DEF Inv, TypeOK, ArgOK, ShapeInv, BufferShape, MergeShape, LevelShape,
      AssertionsHold, RoomForMerge, FiniteRuns, bufferVars, mergeVars, Destroyed, Joined

\* An insertion that finds every run full: the index is one past the end.
LEMMA InsertFullInv == ASSUME Inv, NEW k \in Keys, NEW v \in Stored, InsertFull(k, v) PROVE Inv'
<1>1. activeRun = NumRuns /\ C_0[NumRuns].n = EltsPerRun
  <2>1. pc = "ready" /\ activeRun \in 1..NumRuns + 1 /\ activeRun # NumRuns + 1 /\ NumRuns \in Nat
    BY Facts DEF Inv, TypeOK, ShapeInv, BufferShape, InsertFull
  <2>2. C_0[activeRun].n >= EltsPerRun /\ activeRun + 1 > NumRuns
    BY <2>1 DEF InsertFull, NextRun
  <2>3. activeRun = NumRuns
    BY <2>1, <2>2
  <2>4. C_0[NumRuns] \in SkipRuns /\ C_0[NumRuns].n <= EltsPerRun
    BY <2>1, <2>3 DEF Inv, TypeOK, ShapeInv, BufferShape
  <2>5. C_0[NumRuns].n \in Nat
    BY <2>4 DEF SkipRuns
  <2> QED
    BY <2>2, <2>3, <2>4, <2>5, Facts
<1>2. inserts' \in 0..MaxInserts
  BY Facts DEF Inv, TypeOK, InsertFull, MayWrite
<1>3. TypeOK'
  BY <1>1, <1>2, Facts DEF Inv, TypeOK, ArgOK, InsertFull, NextRun, mergeVars
<1>4. BufferShape'
  BY <1>1, Facts DEF Inv, ShapeInv, BufferShape, InsertFull, NextRun
<1>5. (MergeShape /\ LevelShape /\ AssertionsHold /\ RoomForMerge /\ FiniteRuns)'
  BY DEF Inv, ShapeInv, MergeShape, LevelShape, AssertionsHold, RoomForMerge, FiniteRuns,
         InsertFull, mergeVars
<1> QED
  BY <1>3, <1>4, <1>5 DEF Inv, ShapeInv

\* The lock: level 1 is full when the thread goes down, and has room otherwise.
LEMMA LockInv == ASSUME Inv, Lock PROVE Inv'
  BY Facts DEF Inv, TypeOK, ArgOK, ShapeInv, BufferShape, MergeShape, LevelShape,
      AssertionsHold, RoomForMerge, FiniteRuns, bufferVars, mergeVars, Lock, LevelFull, clientVars

\* On the way down only full levels are passed.
LEMMA DescendInv == ASSUME Inv, Descend PROVE Inv'
<1>F. (BufferShape /\ FiniteRuns)' /\ UNCHANGED <<bufferVars, clientVars, runsToMerge, collected, toMerge, toMergeSize>>
  BY DEF Inv, ShapeInv, BufferShape, FiniteRuns, Descend, bufferVars, clientVars
<1>1. /\ levels \in Seq(Seq(DiskRuns)) /\ depth \in 1..Len(levels)
      /\ \A l \in 1..depth : Len(levels[l]) = DiskRunsPerLevel
      /\ \A l \in 1..Len(levels) : Len(levels[l]) <= DiskRunsPerLevel
  BY DEF Inv, TypeOK, ShapeInv, LevelShape, Descend, NewLevel
<1>2. /\ levels' \in Seq(Seq(DiskRuns)) /\ Len(levels') >= depth + 1
      /\ \A l \in 1..depth : levels'[l] = levels[l]
      /\ \A l \in 1..Len(levels') : Len(levels'[l]) <= DiskRunsPerLevel
  <2>1. CASE depth = Len(levels)
    <3>1. levels' = Append(levels, << >>) /\ << >> \in Seq(DiskRuns) /\ Len(<< >>) = 0
      BY <2>1 DEF Descend, NewLevel
    <3> QED
      BY <1>1, <2>1, <3>1, AppendProperties, Facts
  <2>2. CASE depth # Len(levels)
    BY <1>1, <2>2 DEF Descend, NewLevel
  <2> QED
    BY <2>1, <2>2
<1>3. TypeOK'
  BY <1>F, <1>1, <1>2 DEF Inv, TypeOK, ArgOK, Descend, clientVars, bufferVars
<1>4. LevelShape'
  <2>1. CASE Len(levels'[depth + 1]) = DiskRunsPerLevel
    <3>1. depth' = depth + 1 /\ mtPC' = "descend"
      BY <2>1 DEF Descend, NewLevel
    <3>2. \A l \in 1..depth' : Len(levels'[l]) = DiskRunsPerLevel
      <4>1. \A l \in 1..depth' : l \in 1..depth \/ l = depth + 1
        BY <1>1, <3>1
      <4>2. \A l \in 1..depth : Len(levels'[l]) = DiskRunsPerLevel
        BY <1>1, <1>2
      <4> QED
        BY <2>1, <4>1, <4>2
    <3> QED
      BY <1>1, <1>2, <3>1, <3>2 DEF LevelShape
  <2>2. CASE Len(levels'[depth + 1]) # DiskRunsPerLevel
    <3>1. depth' = depth /\ mtPC' = "add_runs"
      BY <2>2 DEF Descend, NewLevel
    <3>2. Len(levels'[depth + 1]) < DiskRunsPerLevel
      BY <1>1, <1>2, <2>2, Facts
    <3>3. \A l \in 1..depth' : Len(levels'[l]) = DiskRunsPerLevel
      BY <1>1, <1>2, <3>1
    <3> QED
      BY <1>1, <1>2, <3>1, <3>2, <3>3 DEF LevelShape
  <2> QED
    BY <2>1, <2>2
<1>5. (MergeShape /\ AssertionsHold /\ RoomForMerge)'
  BY <1>F DEF Inv, ShapeInv, MergeShape, AssertionsHold, RoomForMerge, Descend, clientVars
<1> QED
  BY <1>F, <1>3, <1>4, <1>5 DEF Inv, ShapeInv

\* freeMergedRuns makes room in the level that the next merge writes to.
LEMMA FreeInv == ASSUME Inv, Free PROVE Inv'
<1>F. (BufferShape /\ FiniteRuns)' /\ UNCHANGED <<bufferVars, clientVars, runsToMerge, collected, toMerge, toMergeSize>>
  BY DEF Inv, ShapeInv, BufferShape, FiniteRuns, Free, bufferVars, clientVars
<1>1. /\ levels \in Seq(Seq(DiskRuns)) /\ depth \in 1..Len(levels) /\ depth < Len(levels)
      /\ \A l \in 1..depth : Len(levels[l]) = DiskRunsPerLevel
      /\ \A l \in 1..Len(levels) : Len(levels[l]) <= DiskRunsPerLevel
      /\ MergeSize \in 1..DiskRunsPerLevel /\ DiskRunsPerLevel \in Nat
  BY Facts DEF Inv, TypeOK, ShapeInv, LevelShape, Free
<1>2. /\ DropFirst(levels[depth], MergeSize) \in Seq(DiskRuns)
      /\ Len(DropFirst(levels[depth], MergeSize)) = DiskRunsPerLevel - MergeSize
  <2>1. levels[depth] \in Seq(DiskRuns) /\ MergeSize \in 0..Len(levels[depth])
    BY <1>1
  <2>2. /\ DropFirst(levels[depth], MergeSize) \in Seq(DiskRuns)
        /\ Len(DropFirst(levels[depth], MergeSize)) = Len(levels[depth]) - MergeSize
    BY <2>1, DropFirstType
  <2> QED
    BY <1>1, <2>2
<1>3. /\ levels' \in Seq(Seq(DiskRuns)) /\ Len(levels') = Len(levels)
      /\ Len(levels'[depth]) = DiskRunsPerLevel - MergeSize
      /\ \A l \in 1..Len(levels) : l # depth => levels'[l] = levels[l]
  <2>1. levels' = [levels EXCEPT ![depth] = DropFirst(levels[depth], MergeSize)]
    BY DEF Free
  <2>2. /\ levels' \in Seq(Seq(DiskRuns)) /\ Len(levels') = Len(levels)
        /\ \A l \in 1..Len(levels) :
             levels'[l] = IF l = depth THEN DropFirst(levels[depth], MergeSize) ELSE levels[l]
    BY <1>1, <1>2, <2>1, ExceptSeq
  <2> QED
    BY <1>1, <1>2, <2>2
<1>4. TypeOK'
  BY <1>F, <1>1, <1>3 DEF Inv, TypeOK, ArgOK, Free, clientVars, bufferVars
<1>5. LevelShape'
  <2>1. /\ levels' # << >>
        /\ \A l \in DOMAIN levels' : Len(levels'[l]) <= DiskRunsPerLevel
    <3>1. ASSUME NEW l \in 1..Len(levels) PROVE Len(levels'[l]) <= DiskRunsPerLevel
      <4>1. CASE l = depth
        BY <1>1, <1>3, <4>1
      <4>2. CASE l # depth
        BY <1>1, <1>3, <4>2
      <4> QED
        BY <4>1, <4>2
    <3> QED
      BY <1>1, <1>3, <3>1
  <2>2. CASE depth > 1
    <3>1. depth' = depth - 1 /\ mtPC' = "add_runs"
      BY <2>2 DEF Free
    <3>2. \A l \in 1..depth' : Len(levels'[l]) = DiskRunsPerLevel
      BY <1>1, <1>3, <3>1
    <3>3. Len(levels'[depth' + 1]) < DiskRunsPerLevel /\ depth' \in 1..Len(levels')
      BY <1>1, <1>3, <2>2, <3>1
    <3> QED
      BY <1>1, <1>3, <2>1, <3>1, <3>2, <3>3 DEF LevelShape
  <2>3. CASE ~(depth > 1)
    BY <1>1, <1>3, <2>1, <2>3 DEF LevelShape, Free
  <2> QED
    BY <2>2, <2>3
<1>6. (MergeShape /\ AssertionsHold /\ RoomForMerge)'
  BY <1>F DEF Inv, ShapeInv, MergeShape, AssertionsHold, RoomForMerge, Free, clientVars
<1> QED
  BY <1>F, <1>4, <1>5, <1>6 DEF Inv, ShapeInv

\* addRunByArray finds an array of the right length and a free run.
LEMMA AddInv == ASSUME Inv, Add PROVE Inv'
<1>F. (BufferShape /\ FiniteRuns)' /\ UNCHANGED <<bufferVars, clientVars, runsToMerge, collected, toMerge, toMergeSize>>
  BY DEF Inv, ShapeInv, BufferShape, FiniteRuns, Add, bufferVars, clientVars
<1>1. /\ levels \in Seq(Seq(DiskRuns)) /\ toMerge \in DiskRuns
      /\ \A l \in 1..Len(levels) : Len(levels[l]) <= DiskRunsPerLevel
      /\ DiskRunsPerLevel \in Nat /\ pc # "destroyed" /\ Len(levels) >= 1
      /\ Len(levels[1]) < DiskRunsPerLevel
  BY Facts DEF Inv, TypeOK, ShapeInv, MergeShape, LevelShape, Add
<1>2. mtPC' = "unlock" /\ levels' = [levels EXCEPT ![1] = Append(@, toMerge)]
  BY <1>1 DEF Inv, ShapeInv, MergeShape, Add, LevelFull
<1>3. /\ levels' \in Seq(Seq(DiskRuns)) /\ Len(levels') = Len(levels)
      /\ \A l \in 1..Len(levels) : Len(levels'[l]) <= DiskRunsPerLevel
  <2>1. Append(levels[1], toMerge) \in Seq(DiskRuns) /\ Len(Append(levels[1], toMerge)) = Len(levels[1]) + 1
    BY <1>1
  <2> QED
    BY <1>1, <1>2, <2>1
<1>4. TypeOK'
  BY <1>F, <1>2, <1>3 DEF Inv, TypeOK, ArgOK, Add, clientVars, bufferVars
<1>5. LevelShape'
  <2>1. \A l \in DOMAIN levels' : Len(levels'[l]) <= DiskRunsPerLevel
    BY <1>1, <1>3
  <2> QED
    BY <1>1, <1>2, <1>3, <2>1 DEF LevelShape
<1>6. (MergeShape /\ AssertionsHold /\ RoomForMerge)'
  BY <1>1, <1>F, <1>2 DEF Inv, ShapeInv, MergeShape, AssertionsHold, RoomForMerge, clientVars
<1> QED
  BY <1>F, <1>4, <1>5, <1>6 DEF Inv, ShapeInv

\* The end of merge_runs.
LEMMA UnlockInv == ASSUME Inv, Unlock PROVE Inv'
<1>1. (BufferShape /\ FiniteRuns)' /\ UNCHANGED <<bufferVars, clientVars, levels, depth>>
  BY DEF Inv, ShapeInv, BufferShape, FiniteRuns, Unlock, bufferVars, clientVars
<1>2. TypeOK'
  <2>1. toMerge' \in DiskRuns /\ runsToMerge' \in Seq(SkipRuns) /\ collected' = 0 /\ toMergeSize' = 0
        /\ mtPC' = "done" /\ mergeLock' = FALSE
    BY EmptyArrayType DEF Unlock
  <2> QED
    BY <1>1, <2>1 DEF Inv, TypeOK, ArgOK, bufferVars, clientVars
<1>3. (MergeShape /\ LevelShape /\ AssertionsHold /\ RoomForMerge)'
  BY <1>1 DEF Inv, ShapeInv, MergeShape, LevelShape, AssertionsHold, RoomForMerge, Unlock, clientVars
<1> QED
  BY <1>1, <1>2, <1>3 DEF Inv, ShapeInv

\* addRuns finds a free run.
LEMMA AddRunsInv == ASSUME Inv, AddRuns PROVE Inv'
<1>F. (BufferShape /\ FiniteRuns)' /\ UNCHANGED <<bufferVars, clientVars, mergeLock, runsToMerge, collected, toMerge, toMergeSize, depth>>
  BY DEF Inv, ShapeInv, BufferShape, FiniteRuns, AddRuns, bufferVars, clientVars
<1>1. /\ levels \in Seq(Seq(DiskRuns)) /\ depth \in 1..Len(levels) /\ depth < Len(levels)
      /\ \A l \in 1..depth : Len(levels[l]) = DiskRunsPerLevel
      /\ \A l \in 1..Len(levels) : Len(levels[l]) <= DiskRunsPerLevel
      /\ Len(levels[depth + 1]) < DiskRunsPerLevel
      /\ MergeSize \in 1..DiskRunsPerLevel /\ DiskRunsPerLevel \in Nat
  BY Facts DEF Inv, TypeOK, ShapeInv, LevelShape, AddRuns
<1>2. MergedRun \in DiskRuns
  BY <1>1, MergedRunType
<1>3. mtPC = "add_runs" /\ ~LevelFull(depth + 1)
  BY <1>1 DEF AddRuns, LevelFull
<1>4. CASE KeysOf(MergedRun) = {}
  <2>1. mtPC' = "index_underflow" /\ UNCHANGED levels
    BY <1>3, <1>4 DEF AddRuns
  <2> QED
    BY <1>F, <1>3, <2>1 DEF Inv, TypeOK, ArgOK, ShapeInv, MergeShape, LevelShape, AssertionsHold,
                            RoomForMerge, clientVars, bufferVars
<1>5. CASE KeysOf(MergedRun) # {}
  <2>1. /\ mtPC' = "free"
        /\ levels' = [levels EXCEPT ![depth + 1] = Append(levels[depth + 1], MergedRun)]
    BY <1>3, <1>5 DEF AddRuns
  <2>2. /\ Append(levels[depth + 1], MergedRun) \in Seq(DiskRuns)
        /\ Len(Append(levels[depth + 1], MergedRun)) <= DiskRunsPerLevel
    BY <1>1, <1>2, AppendProperties
  <2>3. /\ levels' \in Seq(Seq(DiskRuns)) /\ Len(levels') = Len(levels)
        /\ \A l \in 1..Len(levels) :
             levels'[l] = IF l = depth + 1 THEN Append(levels[depth + 1], MergedRun) ELSE levels[l]
    BY <1>1, <2>1, <2>2, ExceptSeq
  <2>4. /\ \A l \in DOMAIN levels' : Len(levels'[l]) <= DiskRunsPerLevel
        /\ \A l \in 1..depth : Len(levels'[l]) = DiskRunsPerLevel
    <3>1. ASSUME NEW l \in 1..Len(levels)
          PROVE  /\ Len(levels'[l]) <= DiskRunsPerLevel
                 /\ l <= depth => Len(levels'[l]) = DiskRunsPerLevel
      <4>1. CASE l = depth + 1
        <5>1. levels'[l] = Append(levels[depth + 1], MergedRun)
          BY <2>3, <4>1
        <5>2. ~(l <= depth)
          BY <1>1, <4>1
        <5> QED
          BY <2>2, <5>1, <5>2
      <4>2. CASE l # depth + 1
        <5>1. levels'[l] = levels[l]
          BY <2>3, <4>2
        <5>2. l <= depth => l \in 1..depth
          BY <1>1
        <5> QED
          BY <1>1, <5>1, <5>2
      <4> QED
        BY <4>1, <4>2
    <3>2. 1..depth \subseteq 1..Len(levels) /\ DOMAIN levels' = 1..Len(levels)
      BY <1>1, <2>3
    <3> QED
      BY <3>1, <3>2
  <2>5. TypeOK'
    BY <1>F, <2>1, <2>3 DEF Inv, TypeOK, ArgOK, clientVars, bufferVars
  <2>6. LevelShape'
    BY <1>1, <1>F, <2>1, <2>3, <2>4 DEF LevelShape
  <2>7. (MergeShape /\ AssertionsHold /\ RoomForMerge)'
    BY <1>3, <1>F, <2>1 DEF Inv, ShapeInv, MergeShape, AssertionsHold, RoomForMerge, clientVars
  <2> QED
    BY <1>F, <2>5, <2>6, <2>7 DEF Inv, ShapeInv
<1> QED
  BY <1>4, <1>5

\* Every skip list adds EltsPerRun entries to to_merge.
LEMMA CollectInv == ASSUME Inv, Collect PROVE Inv'
<1>F. (BufferShape /\ FiniteRuns)' /\ UNCHANGED <<bufferVars, clientVars, levels, mtPC, runsToMerge, depth>>
  BY DEF Inv, ShapeInv, BufferShape, FiniteRuns, Collect, bufferVars, clientVars
<1>1. /\ runsToMerge \in Seq(SkipRuns) /\ collected \in Nat /\ toMerge \in DiskRuns
      /\ Len(runsToMerge) = NumToMerge /\ collected + 1 \in 1..NumToMerge
      /\ Cardinality(RunKeys(runsToMerge[collected + 1])) = EltsPerRun
      /\ toMergeSize = collected * EltsPerRun
      /\ NumToMerge \in Nat /\ EltsPerRun \in Nat
  BY Facts DEF Inv, TypeOK, ShapeInv, MergeShape, Collect
<1>2. toMerge' \in DiskRuns
  <2> DEFINE run == runsToMerge[collected + 1]
  <2>1. run \in SkipRuns
    BY <1>1
  <2>2. \A k \in Keys : run.elts[k] \in Stored \union {Absent} /\ toMerge[k] \in Seq(Stored)
    BY <1>1, <2>1 DEF SkipRuns, DiskRuns
  <2>3. toMerge' = [k \in Keys |-> IF run.elts[k] = Absent THEN toMerge[k]
                                   ELSE << run.elts[k] >> \o toMerge[k]]
    BY DEF Collect
  <2> HIDE DEF run
  <2>4. \A k \in Keys : run.elts[k] # Absent => << run.elts[k] >> \o toMerge[k] \in Seq(Stored)
    BY <2>2
  <2> QED
    BY <2>2, <2>3, <2>4 DEF DiskRuns
<1>3. collected' = collected + 1 /\ toMergeSize' = collected' * EltsPerRun
  BY <1>1 DEF Collect
<1>4. TypeOK'
  BY <1>F, <1>1, <1>2, <1>3 DEF Inv, TypeOK, ArgOK, Collect, bufferVars, clientVars
<1>5. MergeShape'
  BY <1>F, <1>1, <1>3 DEF Inv, ShapeInv, MergeShape, Collect, clientVars
<1>6. (LevelShape /\ AssertionsHold /\ RoomForMerge)'
  BY <1>F DEF Inv, ShapeInv, LevelShape, AssertionsHold, RoomForMerge, clientVars
<1> QED
  BY <1>F, <1>4, <1>5, <1>6 DEF Inv, ShapeInv

\* Sorting the entries of a key gives a sequence of the same values.
LEMMA ReorderType ==
  ASSUME NEW S, NEW q \in Seq(S), NEW p \in [DOMAIN q -> DOMAIN q]
  PROVE  [i \in DOMAIN q |-> q[p[i]]] \in Seq(S)
<1>1. DOMAIN q = 1..Len(q) /\ Len(q) \in Nat /\ \A i \in 1..Len(q) : q[i] \in S
  OBVIOUS
<1>2. \A i \in 1..Len(q) : q[p[i]] \in S
  BY <1>1
<1>3. [i \in 1..Len(q) |-> q[p[i]]] \in [1..Len(q) -> S]
  BY <1>2
<1> QED
  BY <1>1, <1>3, SeqDef

\* std::sort does not change the number of entries.
LEMMA SortInv == ASSUME Inv, Sort PROVE Inv'
<1>F. (BufferShape /\ FiniteRuns)' /\ UNCHANGED <<bufferVars, clientVars, levels, runsToMerge, collected, toMergeSize, depth>>
  BY DEF Inv, ShapeInv, BufferShape, FiniteRuns, Sort, bufferVars, clientVars
<1>1. toMerge' \in DiskRuns
  <2> DEFINE Orders(k) == {[i \in DOMAIN toMerge[k] |-> toMerge[k][p[i]]] :
                             p \in Bijection(DOMAIN toMerge[k], DOMAIN toMerge[k])}
  <2>1. ASSUME NEW k \in Keys, NEW s \in Orders(k) PROVE s \in Seq(Stored)
    <3>1. toMerge[k] \in Seq(Stored)
      BY DEF Inv, TypeOK, DiskRuns
    <3>2. PICK p \in [DOMAIN toMerge[k] -> DOMAIN toMerge[k]] :
                 s = [i \in DOMAIN toMerge[k] |-> toMerge[k][p[i]]]
      BY <2>1 DEF Bijection, Injection
    <3> QED
      BY <3>1, <3>2, ReorderType
  <2>2. \A k \in Keys : toMerge'[k] \in Orders(k)
    BY DEF Sort
  <2>3. \E S : toMerge' \in [Keys -> S]
    BY DEF Sort
  <2> HIDE DEF Orders
  <2> QED
    BY <2>1, <2>2, <2>3 DEF DiskRuns
<1>2. TypeOK'
  BY <1>F, <1>1 DEF Inv, TypeOK, ArgOK, Sort, bufferVars, clientVars
<1>3. MergeShape'
  BY <1>F DEF Inv, ShapeInv, MergeShape, Sort, clientVars
<1>4. (LevelShape /\ AssertionsHold /\ RoomForMerge)'
  BY <1>F DEF Inv, ShapeInv, LevelShape, AssertionsHold, RoomForMerge, Sort, clientVars
<1> QED
  BY <1>F, <1>1, <1>2, <1>3, <1>4 DEF Inv, ShapeInv

\* What the write of insert_key does to a buffer in which run a has room.
LEMMA BufferAfterWrite ==
  ASSUME NEW runs \in Seq(SkipRuns), Len(runs) = NumRuns, NEW a \in 1..NumRuns,
         NEW k \in Keys, NEW v \in Stored,
         \A i \in 1..NumRuns : CountedRun(runs[i]),
         \A i \in 1..NumRuns : (i < a => runs[i].n = EltsPerRun) /\ (i > a => runs[i].n = 0),
         runs[a].n < EltsPerRun
  PROVE  LET new == WriteTo(runs, a, k, v)
         IN  /\ new \in Seq(SkipRuns) /\ Len(new) = NumRuns
             /\ \A i \in 1..NumRuns :
                  /\ CountedRun(new[i])
                  /\ (i < a => new[i].n = EltsPerRun) /\ (i = a => new[i].n <= EltsPerRun)
                  /\ (i > a => new[i].n = 0)
<1> DEFINE e == SkipInsert(runs[a], k, v)
           new == WriteTo(runs, a, k, v)
<1>0. new = [runs EXCEPT ![a] = e]
  BY DEF WriteTo
<1>1. e \in SkipRuns /\ CountedRun(e) /\ e.n \in {runs[a].n, runs[a].n + 1}
  BY SkipInsertCounted DEF CountedRun
<1> HIDE DEF e
<1>2. e.n <= EltsPerRun
  BY <1>1, Facts DEF CountedRun, SkipRuns
<1>3. /\ new \in Seq(SkipRuns) /\ Len(new) = NumRuns
      /\ \A i \in 1..NumRuns : new[i] = IF i = a THEN e ELSE runs[i]
  BY <1>0, <1>1, ExceptSeq
<1> HIDE DEF new
<1>4. ASSUME NEW i \in 1..NumRuns
      PROVE  /\ CountedRun(new[i])
             /\ (i < a => new[i].n = EltsPerRun) /\ (i = a => new[i].n <= EltsPerRun)
             /\ (i > a => new[i].n = 0)
  <2>1. CASE i = a
    BY <1>1, <1>2, <1>3, <2>1
  <2>2. CASE i # a
    BY <1>3, <2>2
  <2> QED
    BY <2>1, <2>2
<1> QED
  BY <1>3, <1>4 DEF new

\* The invariant of the buffer as BufferAfterWrite needs it.
LEMMA CountedBuffer ==
  ASSUME Inv, pc # "destroyed"
  PROVE  /\ C_0 \in Seq(SkipRuns) /\ Len(C_0) = NumRuns
         /\ filters \in Seq(SUBSET Nat) /\ Len(filters) = NumRuns
         /\ \A i \in 1..NumRuns : CountedRun(C_0[i])
<1>1. C_0 \in Seq(SkipRuns) /\ filters \in Seq(SUBSET Nat)
  BY DEF Inv, TypeOK
<1>2. /\ Len(C_0) = NumRuns /\ Len(filters) = NumRuns
      /\ \A i \in 1..NumRuns : C_0[i].n = Cardinality(RunKeys(C_0[i]))
  BY DEF Inv, ShapeInv, BufferShape
<1>3. DOMAIN C_0 = 1..NumRuns /\ \A i \in 1..NumRuns : C_0[i] \in SkipRuns
  BY <1>1, <1>2
<1>4. \A i \in 1..NumRuns : IsFiniteSet(RunKeys(C_0[i]))
  BY <1>3 DEF Inv, FiniteRuns
<1> QED
  BY <1>1, <1>2, <1>3, <1>4 DEF CountedRun

\* The invariant of the buffer from what BufferAfterWrite returns.
LEMMA BufferFromWrite ==
  ASSUME C_0' \in Seq(SkipRuns), Len(C_0') = NumRuns, Len(filters') = NumRuns,
         activeRun' \in 1..NumRuns, pc' = "ready",
         \A i \in 1..NumRuns :
           /\ CountedRun(C_0'[i])
           /\ (i < activeRun' => C_0'[i].n = EltsPerRun)
           /\ (i = activeRun' => C_0'[i].n <= EltsPerRun)
           /\ (i > activeRun' => C_0'[i].n = 0)
  PROVE  (BufferShape /\ FiniteRuns)'
<1>1. activeRun' # NumRuns + 1
  BY Facts
<1>2. \A i \in 1..NumRuns : C_0'[i].n = Cardinality(RunKeys(C_0'[i])) /\ IsFiniteSet(RunKeys(C_0'[i]))
  BY DEF CountedRun
<1>3. BufferShape'
  BY <1>1, <1>2 DEF BufferShape
<1>4. FiniteRuns'
  BY <1>2 DEF FiniteRuns
<1> QED
  BY <1>3, <1>4

\* Where an insertion with room goes, and what it writes.
LEMMA InsertShape ==
  ASSUME Inv, NEW k \in Keys, NEW v \in Stored, Insert(k, v)
  PROVE  /\ pc = "ready" /\ activeRun \in 1..NumRuns /\ NumRuns \in Nat
         /\ activeRun' = NextRun /\ NextRun \in 1..NumRuns
         /\ \A i \in 1..NumRuns : (i < NextRun => C_0[i].n = EltsPerRun) /\ (i > NextRun => C_0[i].n = 0)
         /\ C_0[NextRun].n < EltsPerRun
         /\ C_0' = WriteTo(C_0, NextRun, k, v)
         /\ filters' = [filters EXCEPT ![NextRun] = @ \union FilterBits[k]]
         /\ latest' = [latest EXCEPT ![k] = Visible(v)]
<1>1. pc = "ready" /\ activeRun \in 1..NumRuns /\ NumRuns \in Nat
  <2>1. pc = "ready" /\ activeRun \in 1..NumRuns + 1 /\ NumRuns \in Nat
    BY Facts DEF Inv, TypeOK, Insert
  <2>2. activeRun # NumRuns + 1
    BY <2>1 DEF Inv, ShapeInv, BufferShape
  <2> QED
    BY <2>1, <2>2
<1>2. activeRun' = NextRun /\ NextRun \in 1..NumRuns
  BY <1>1 DEF Insert, NextRun
<1>3. /\ \A i \in 1..NumRuns : (i < NextRun => C_0[i].n = EltsPerRun) /\ (i > NextRun => C_0[i].n = 0)
      /\ C_0[NextRun].n < EltsPerRun
  <2>1. \A i \in 1..NumRuns :
          /\ C_0[i].n \in Nat /\ (i < activeRun => C_0[i].n = EltsPerRun)
          /\ (i = activeRun => C_0[i].n <= EltsPerRun) /\ (i > activeRun => C_0[i].n = 0)
    BY <1>1, CountedBuffer DEF Inv, ShapeInv, BufferShape, CountedRun, SkipRuns
  <2>2. CASE C_0[activeRun].n >= EltsPerRun
    <3>1. NextRun = activeRun + 1 /\ C_0[activeRun].n = EltsPerRun
      BY <1>1, <2>1, <2>2, Facts DEF NextRun
    <3> QED
      BY <1>1, <1>2, <2>1, <3>1, Facts
  <2>3. CASE ~(C_0[activeRun].n >= EltsPerRun)
    <3>1. NextRun = activeRun
      BY <2>3 DEF NextRun
    <3> QED
      BY <1>1, <2>1, <2>3, <3>1, Facts
  <2> QED
    BY <2>2, <2>3
<1>4. /\ C_0' = WriteTo(C_0, NextRun, k, v)
      /\ filters' = [filters EXCEPT ![NextRun] = @ \union FilterBits[k]]
      /\ latest' = [latest EXCEPT ![k] = Visible(v)]
  BY DEF Insert, Write, BloomAdd
<1> QED
  BY <1>1, <1>2, <1>3, <1>4

\* An insertion in a run with room, or in the next run.
LEMMA InsertInv == ASSUME Inv, NEW k \in Keys, NEW v \in Stored, Insert(k, v) PROVE Inv'
<1>1. pc = "ready" /\ activeRun \in 1..NumRuns /\ NumRuns \in Nat
  BY InsertShape
<1>2. activeRun' = NextRun /\ NextRun \in 1..NumRuns
  BY InsertShape
<1>3. /\ \A i \in 1..NumRuns : (i < NextRun => C_0[i].n = EltsPerRun) /\ (i > NextRun => C_0[i].n = 0)
      /\ C_0[NextRun].n < EltsPerRun
  BY InsertShape
<1>4. /\ C_0' = WriteTo(C_0, NextRun, k, v)
      /\ filters' = [filters EXCEPT ![NextRun] = @ \union FilterBits[k]]
      /\ latest' = [latest EXCEPT ![k] = Visible(v)]
  BY InsertShape
<1>5. /\ C_0' \in Seq(SkipRuns) /\ Len(C_0') = NumRuns
      /\ \A i \in 1..NumRuns :
           /\ CountedRun(C_0'[i])
           /\ (i < NextRun => C_0'[i].n = EltsPerRun) /\ (i = NextRun => C_0'[i].n <= EltsPerRun)
           /\ (i > NextRun => C_0'[i].n = 0)
  BY <1>1, <1>2, <1>3, <1>4, CountedBuffer, BufferAfterWrite
<1>6. filters' \in Seq(SUBSET Nat) /\ Len(filters') = NumRuns
  BY <1>1, <1>2, <1>4, CountedBuffer, ExceptSeq, Facts
<1>7. latest' \in [Keys -> Values \union {Absent}]
  BY <1>4, Facts DEF Visible, Inv, TypeOK
<1>8. pc' = "ready" /\ UNCHANGED <<levels, mergeVars, pc, arg>>
  BY <1>1 DEF Insert
<1>9. inserts' \in 0..MaxInserts
  BY Facts DEF Inv, TypeOK, Insert, MayWrite
<1>10. TypeOK'
  BY <1>2, <1>5, <1>6, <1>7, <1>8, <1>9, Facts DEF Inv, TypeOK, ArgOK, mergeVars
<1>11. (BufferShape /\ FiniteRuns)'
  BY <1>2, <1>5, <1>6, <1>8, BufferFromWrite
<1>12. (MergeShape /\ LevelShape /\ AssertionsHold /\ RoomForMerge)'
  BY <1>8 DEF Inv, ShapeInv, MergeShape, LevelShape, AssertionsHold, RoomForMerge, mergeVars
<1> QED
  BY <1>10, <1>11, <1>12 DEF Inv, ShapeInv

\* What do_merge makes of the buffer: the oldest runs go, fresh ones come after those
\* that stay, and the first fresh one takes the entry.
LEMMA DoMergeShape ==
  ASSUME Inv, DoMerge
  PROVE  LET a    == NumRuns + 1 - NumToMerge
             runs == Renew(C_0, NumToMerge, NumToMerge, EmptyRun)
             bits == Renew(filters, NumToMerge, NumToMerge, {})
         IN  /\ pc = "insert_join" /\ activeRun = NumRuns + 1 /\ mtPC \in {"idle", "done"}
             /\ arg.key \in Keys /\ arg.value \in Stored
             /\ NumRuns \in Nat /\ NumToMerge \in 1..NumRuns /\ EltsPerRun \in Nat \ {0}
             /\ activeRun' = a /\ a \in 1..NumRuns /\ NumRuns - activeRun' + 1 = NumToMerge
             /\ NumToMerge \in 0..Len(C_0)
             /\ NumToMerge \in 0..Len(filters) /\ NumToMerge \in Nat
             /\ \A i \in 1..NumRuns : CountedRun(C_0[i]) /\ C_0[i].n = EltsPerRun
             /\ C_0' = WriteTo(runs, a, arg.key, arg.value)
             /\ filters' = [bits EXCEPT ![a] = @ \union FilterBits[arg.key]]
             /\ latest' = [latest EXCEPT ![arg.key] = Visible(arg.value)]
             /\ runs \in Seq(SkipRuns) /\ Len(runs) = NumRuns
             /\ \A i \in 1..NumRuns - NumToMerge : runs[i] = C_0[i + NumToMerge]
             /\ \A i \in NumRuns - NumToMerge + 1..NumRuns : runs[i] = EmptyRun
             /\ bits \in Seq(SUBSET Nat) /\ Len(bits) = NumRuns
             /\ \A i \in 1..NumRuns - NumToMerge : bits[i] = filters[i + NumToMerge]
<1> DEFINE a == NumRuns + 1 - NumToMerge
           runs == Renew(C_0, NumToMerge, NumToMerge, EmptyRun)
           bits == Renew(filters, NumToMerge, NumToMerge, {})
<1>1. /\ pc = "insert_join" /\ activeRun = NumRuns + 1 /\ mtPC \in {"idle", "done"}
      /\ arg.key \in Keys /\ arg.value \in Stored
      /\ NumRuns \in Nat /\ NumToMerge \in 1..NumRuns /\ EltsPerRun \in Nat \ {0}
  BY Facts DEF Inv, TypeOK, ArgOK, ShapeInv, BufferShape, DoMerge, Joined
<1>2. activeRun' = a /\ a \in 1..NumRuns /\ NumRuns - activeRun' + 1 = NumToMerge
      /\ NumToMerge \in 0..Len(C_0)
      /\ NumToMerge \in 0..Len(filters) /\ NumToMerge \in Nat
  BY <1>1, CountedBuffer DEF DoMerge
<1>3. \A i \in 1..NumRuns : CountedRun(C_0[i]) /\ C_0[i].n = EltsPerRun
  BY <1>1, CountedBuffer DEF Inv, ShapeInv, BufferShape
<1>4. /\ C_0' = WriteTo(runs, a, arg.key, arg.value)
      /\ filters' = [bits EXCEPT ![a] = @ \union FilterBits[arg.key]]
      /\ latest' = [latest EXCEPT ![arg.key] = Visible(arg.value)]
  BY <1>2 DEF DoMerge, Write, BloomAdd
<1>5. /\ runs \in Seq(SkipRuns) /\ Len(runs) = NumRuns
      /\ \A i \in 1..NumRuns - NumToMerge : runs[i] = C_0[i + NumToMerge]
      /\ \A i \in NumRuns - NumToMerge + 1..NumRuns : runs[i] = EmptyRun
  <2>1. /\ C_0 \in Seq(SkipRuns) /\ Len(C_0) = NumRuns /\ EmptyRun \in SkipRuns
        /\ NumRuns \in Nat /\ NumToMerge \in 0..NumRuns
    BY <1>1, CountedBuffer, EmptyRunType
  <2>2. Renew(C_0, NumToMerge, NumToMerge, EmptyRun) \in Seq(SkipRuns)
    BY <2>1, RenewType, SMTT(60)
  <2>3. Len(Renew(C_0, NumToMerge, NumToMerge, EmptyRun)) = NumRuns
    BY <2>1, RenewType, SMTT(60)
  <2>4. \A i \in 1..NumRuns - NumToMerge : Renew(C_0, NumToMerge, NumToMerge, EmptyRun)[i] = C_0[i + NumToMerge]
    BY <2>1, RenewType, SMTT(60)
  <2>5. ASSUME NEW i \in NumRuns - NumToMerge + 1..NumRuns
        PROVE  Renew(C_0, NumToMerge, NumToMerge, EmptyRun)[i] = EmptyRun
    BY <2>1, RenewLast
  <2> QED
    BY <2>2, <2>3, <2>4, <2>5
<1>6. /\ bits \in Seq(SUBSET Nat) /\ Len(bits) = NumRuns
      /\ \A i \in 1..NumRuns - NumToMerge : bits[i] = filters[i + NumToMerge]
  <2> DEFINE S == SUBSET Nat
  <2>1. {} \in S /\ filters \in Seq(S) /\ Len(filters) = NumRuns
        /\ NumRuns \in Nat /\ NumToMerge \in 0..NumRuns
    BY <1>1, CountedBuffer
  <2> HIDE DEF S
  <2> HIDE DEF bits, a, runs
  <2>2. Renew(filters, NumToMerge, NumToMerge, {}) \in Seq(S)
    BY <2>1, RenewType
  <2>3. Len(Renew(filters, NumToMerge, NumToMerge, {})) = NumRuns
    BY <2>1, RenewType
  <2>4. \A i \in 1..NumRuns - NumToMerge : Renew(filters, NumToMerge, NumToMerge, {})[i] = filters[i + NumToMerge]
    BY <2>1, RenewType
  <2> QED
    BY <2>2, <2>3, <2>4 DEF S, bits
<1> HIDE DEF runs, bits, a
<1> QED
  BY <1>1, <1>2, <1>3, <1>4, <1>5, <1>6 DEF runs, bits, a

\* do_merge hands over full runs only, and the active run is in range again.
LEMMA DoMergeInv == ASSUME Inv, DoMerge PROVE Inv'
<1> DEFINE a == NumRuns + 1 - NumToMerge
           runs == Renew(C_0, NumToMerge, NumToMerge, EmptyRun)
           bits == Renew(filters, NumToMerge, NumToMerge, {})
<1>1. /\ pc = "insert_join" /\ activeRun = NumRuns + 1 /\ mtPC \in {"idle", "done"}
      /\ arg.key \in Keys /\ arg.value \in Stored
      /\ NumRuns \in Nat /\ NumToMerge \in 1..NumRuns /\ EltsPerRun \in Nat \ {0}
  BY DoMergeShape
<1>2. activeRun' = a /\ a \in 1..NumRuns /\ NumRuns - activeRun' + 1 = NumToMerge
      /\ NumToMerge \in 0..Len(C_0)
      /\ NumToMerge \in 0..Len(filters) /\ NumToMerge \in Nat
  BY DoMergeShape
<1>3. \A i \in 1..NumRuns : CountedRun(C_0[i]) /\ C_0[i].n = EltsPerRun
  BY DoMergeShape
<1>4. /\ C_0' = WriteTo(runs, a, arg.key, arg.value)
      /\ filters' = [bits EXCEPT ![a] = @ \union FilterBits[arg.key]]
      /\ latest' = [latest EXCEPT ![arg.key] = Visible(arg.value)]
  BY DoMergeShape
<1>5. /\ runs \in Seq(SkipRuns) /\ Len(runs) = NumRuns
      /\ \A i \in 1..NumRuns - NumToMerge : runs[i] = C_0[i + NumToMerge]
      /\ \A i \in NumRuns - NumToMerge + 1..NumRuns : runs[i] = EmptyRun
  BY DoMergeShape
<1>6. bits \in Seq(SUBSET Nat) /\ Len(bits) = NumRuns
  BY DoMergeShape
<1> HIDE DEF runs, bits
<1>7. ASSUME NEW i \in 1..NumRuns
      PROVE  /\ CountedRun(runs[i])
             /\ (i < a => runs[i].n = EltsPerRun) /\ (i >= a => runs[i].n = 0)
  <2>1. CASE i < a
    <3>1. i \in 1..NumRuns - NumToMerge /\ i + NumToMerge \in 1..NumRuns /\ ~(i >= a)
      BY <1>1, <2>1
    <3> QED
      BY <1>3, <1>5, <3>1
  <2>2. CASE ~(i < a)
    <3>1. i \in NumRuns - NumToMerge + 1..NumRuns
      BY <1>1, <2>2
    <3> QED
      BY <1>5, <2>2, <3>1, EmptyRunCounted
  <2> QED
    BY <2>1, <2>2
<1>8. /\ C_0' \in Seq(SkipRuns) /\ Len(C_0') = NumRuns
      /\ \A i \in 1..NumRuns :
           /\ CountedRun(C_0'[i])
           /\ (i < a => C_0'[i].n = EltsPerRun) /\ (i = a => C_0'[i].n <= EltsPerRun)
           /\ (i > a => C_0'[i].n = 0)
  <2>1. runs[a].n < EltsPerRun
    BY <1>1, <1>2, <1>7, a >= a, 0 < EltsPerRun
  <2>2. \A i \in 1..NumRuns : CountedRun(runs[i])
    BY <1>7
  <2>3. \A i \in 1..NumRuns : (i < a => runs[i].n = EltsPerRun) /\ (i > a => runs[i].n = 0)
    BY <1>1, <1>2, <1>7
  <2>4. /\ runs \in Seq(SkipRuns) /\ Len(runs) = NumRuns /\ a \in 1..NumRuns
        /\ arg.key \in Keys /\ arg.value \in Stored /\ C_0' = WriteTo(runs, a, arg.key, arg.value)
    BY <1>1, <1>2, <1>4, <1>5
  <2> HIDE DEF a
  <2> QED
    BY <2>1, <2>2, <2>3, <2>4, BufferAfterWrite
<1>9. filters' \in Seq(SUBSET Nat) /\ Len(filters') = NumRuns
  <2>1. bits[a] \union FilterBits[arg.key] \in SUBSET Nat
    <3>1. bits[a] \in SUBSET Nat
      BY <1>2, <1>6
    <3>2. FilterBits[arg.key] \in SUBSET Nat
      BY <1>1, Facts
    <3> QED
      BY <3>1, <3>2
  <2> QED
    BY <1>2, <1>4, <1>6, <2>1, ExceptSeq
<1>10. latest' \in [Keys -> Values \union {Absent}]
  BY <1>1, <1>4, Facts DEF Visible, Inv, TypeOK
<1>11. /\ pc' = "ready" /\ mtPC' = "collect" /\ runsToMerge' = SubSeq(C_0, 1, NumToMerge) /\ arg' = NoArg
       /\ UNCHANGED <<levels, mergeLock, collected, toMerge, toMergeSize, depth, ret, inserts>>
  BY DEF DoMerge
<1>12. /\ runsToMerge' \in Seq(SkipRuns) /\ Len(runsToMerge') = NumToMerge
       /\ \A i \in 1..NumToMerge : runsToMerge'[i] = C_0[i]
  BY <1>1, <1>2, <1>11, CountedBuffer
<1>13. TypeOK'
  BY <1>1, <1>2, <1>8, <1>9, <1>10, <1>11, <1>12 DEF Inv, TypeOK, ArgOK
<1>14. (BufferShape /\ FiniteRuns)'
  BY <1>2, <1>8, <1>9, <1>11, BufferFromWrite
<1>15. MergeShape'
  <2>1. \A i \in 1..NumToMerge : Cardinality(RunKeys(runsToMerge'[i])) = EltsPerRun
    BY <1>1, <1>3, <1>12 DEF CountedRun
  <2>2. collected = 0 /\ toMergeSize = 0
    BY <1>1 DEF Inv, ShapeInv, MergeShape
  <2> QED
    BY <1>1, <1>11, <1>12, <2>1, <2>2 DEF MergeShape
<1>16. (LevelShape /\ AssertionsHold /\ RoomForMerge)'
  BY <1>1, <1>11 DEF Inv, ShapeInv, LevelShape, AssertionsHold, RoomForMerge
<1> QED
  BY <1>13, <1>14, <1>15, <1>16 DEF Inv, ShapeInv

\* Steps that change nothing.
LEMMA StutterInv == ASSUME Inv, UNCHANGED vars PROVE Inv'
  BY DEF Inv, TypeOK, ArgOK, ShapeInv, BufferShape, MergeShape, LevelShape, AssertionsHold,
         RoomForMerge, FiniteRuns, vars, bufferVars, mergeVars, clientVars

\* Every step keeps the invariant: one case for each action.
LEMMA InvNext == Inv /\ [Next]_vars => Inv'
<1> SUFFICES ASSUME Inv, [Next]_vars PROVE Inv'
  OBVIOUS
<1>1. CASE Call
  BY <1>1, InsertInv, InsertFullInv, LookupBufferInv, LookupMissInv, RangeNoneInv, RangeBufferInv,
     ReportInv, DestroyInv DEF Call
<1>2. CASE Resume
  BY <1>2, DoMergeInv, LookupDiskInv, RangeDiskInv, ReportJoinedInv, DestroyedInv DEF Resume
<1>3. CASE MergeThread
  BY <1>3, CollectInv, SortInv, LockInv, DescendInv, AddRunsInv, FreeInv, AddInv, UnlockInv
     DEF MergeThread
<1>4. CASE Gone \/ UNCHANGED vars
  BY <1>4, StutterInv DEF Gone
<1> QED
  BY <1>1, <1>2, <1>3, <1>4 DEF Next

----------------------------------------------------------------------------
(* Theorems *)

\* The inductive invariant, from the lemmas about the actions.
LEMMA Invariance == Spec => []Inv
  BY InvInit, InvNext, PTL DEF Spec

\* The variables have their types, in trees of every size.
THEOREM TypeCorrect == Spec => []TypeOK
  BY Invariance, PTL DEF Inv

\* The buffer, the merge thread and the levels keep in step: what merge_runs
\* hands over is a level-1 run, and a level that receives a run has room.
THEOREM ShapeCorrect == Spec => []ShapeInv
  BY Invariance, PTL DEF Inv

\* The two assertions of addRunByArray never fail, however many runs are merged
\* at once, however many levels there are, and whatever the client writes.
THEOREM NoAssertionFails == Spec => []AssertionsHold
<1>1. Inv => AssertionsHold
  BY DEF Inv, ShapeInv
<1> QED
  BY <1>1, Invariance, PTL

\* addRuns, which has no such assertion, does not need it.
THEOREM MergesHaveRoom == Spec => []RoomForMerge
<1>1. Inv => RoomForMerge
  BY DEF Inv, ShapeInv
<1> QED
  BY <1>1, Invariance, PTL

----------------------------------------------------------------------------
(* The room for the entries of a run *)

\* The sizes of the levels down to n, as mergeRunsToLevel finds them one after the
\* other.
SizesTo(n, f) ==
  /\ f \in [1..n -> Nat \ {0}]
  /\ \A l \in 1..n : f[l] = IF l = 1 THEN NumToMerge * EltsPerRun ELSE MergeSize * f[l - 1]

\* There are such sizes for every number of levels.
LEMMA SizesThere == \A n \in Nat : \E f : SizesTo(n, f)
<1> DEFINE S == {n \in Nat : \E f : SizesTo(n, f)}
<1>1. 0 \in S
  <2>1. SizesTo(0, [l \in 1..0 |-> 1])
    BY DEF SizesTo
  <2> QED
    BY <2>1
<1>2. ASSUME NEW n \in Nat, n \in S PROVE n + 1 \in S
  <2>1. PICK f : SizesTo(n, f)
    BY <1>2
  <2>2. PICK a \in Nat \ {0} : a = IF n = 0 THEN NumToMerge * EltsPerRun ELSE MergeSize * f[n]
    <3>1. CASE n = 0
      <4>1. NumToMerge \in Nat \ {0} /\ EltsPerRun \in Nat \ {0}
        BY Facts
      <4>2. NumToMerge * EltsPerRun \in Nat \ {0}
        BY <4>1
      <4> QED
        BY <3>1, <4>2
    <3>2. CASE n # 0
      <4>1. MergeSize \in Nat \ {0} /\ f[n] \in Nat \ {0}
        BY Facts, <2>1, <3>2 DEF SizesTo
      <4>2. MergeSize * f[n] \in Nat \ {0}
        BY <4>1
      <4> QED
        BY <3>2, <4>2
    <3> QED
      BY <3>1, <3>2
  <2>3. PICK g : g = [l \in 1..n + 1 |-> IF l = n + 1 THEN a ELSE f[l]]
    OBVIOUS
  <2>4. g \in [1..n + 1 -> Nat \ {0}]
    BY <2>1, <2>3 DEF SizesTo
  <2>5. ASSUME NEW l \in 1..n + 1
        PROVE  g[l] = IF l = 1 THEN NumToMerge * EltsPerRun ELSE MergeSize * g[l - 1]
    <3>1. CASE l = n + 1 /\ n = 0
      BY <2>2, <2>3, <3>1
    <3>2. CASE l = n + 1 /\ n # 0
      <4>1. g[l] = a /\ g[l - 1] = f[n] /\ l # 1
        BY <2>3, <3>2
      <4> QED
        BY <2>2, <3>2, <4>1
    <3>3. CASE l # n + 1
      <4>1. l \in 1..n /\ g[l] = f[l] /\ (l # 1 => g[l - 1] = f[l - 1])
        BY <2>3, <3>3
      <4> QED
        BY <2>1, <4>1 DEF SizesTo
    <3> QED
      BY <3>1, <3>2, <3>3
  <2>6. SizesTo(n + 1, g)
    BY <2>4, <2>5 DEF SizesTo
  <2> QED
    BY <2>6
<1>3. Nat \subseteq S
  <2> HIDE DEF S
  <2> QED
    BY <1>1, <1>2, SetInduction
<1> QED
  BY <1>3

\* And they do not depend on how many levels follow.
LEMMA SizesAgree ==
  ASSUME NEW m \in Nat, NEW n \in Nat, NEW f, NEW g, SizesTo(m, f), SizesTo(n, g)
  PROVE  \A l \in Nat : l \in 1..m /\ l \in 1..n => f[l] = g[l]
<1> DEFINE S == {l \in Nat : l \in 1..m /\ l \in 1..n => f[l] = g[l]}
<1>1. 0 \in S
  OBVIOUS
<1>2. ASSUME NEW l \in Nat, l \in S PROVE l + 1 \in S
  <2> SUFFICES ASSUME l + 1 \in 1..m, l + 1 \in 1..n PROVE f[l + 1] = g[l + 1]
    OBVIOUS
  <2>1. CASE l = 0
    <3>1. f[1] = NumToMerge * EltsPerRun /\ g[1] = NumToMerge * EltsPerRun
      BY <2>1 DEF SizesTo
    <3> QED
      BY <2>1, <3>1
  <2>2. CASE l # 0
    <3>1. f[l + 1] = MergeSize * f[l + 1 - 1] /\ g[l + 1] = MergeSize * g[l + 1 - 1]
      BY <2>2 DEF SizesTo
    <3>2. l + 1 - 1 = l /\ f[l] = g[l]
      BY <1>2, <2>2
    <3> QED
      BY <3>1, <3>2, Zenon
  <2> QED
    BY <2>1, <2>2
<1>3. Nat \subseteq S
  <2> HIDE DEF S
  <2> QED
    BY <1>1, <1>2, SetInduction
<1> QED
  BY <1>3

\* What the sizes of the levels are.
LEMMA RunSizes ==
  /\ RunSize[1] = NumToMerge * EltsPerRun
  /\ \A l \in Nat \ {0} : RunSize[l] \in Nat \ {0} /\ RunSize[l + 1] = MergeSize * RunSize[l]
<1> DEFINE Sizes(n) == CHOOSE f : SizesTo(n, f)
           Size == [l \in Nat \ {0} |-> Sizes(l)[l]]
           Def(f) == [l \in Nat \ {0} |-> IF l = 1 THEN NumToMerge * EltsPerRun ELSE MergeSize * f[l - 1]]
<1>1. \A n \in Nat : SizesTo(n, Sizes(n))
  BY SizesThere
<1>2. ASSUME NEW l \in Nat \ {0}
      PROVE  /\ Size[l] \in Nat \ {0}
             /\ Size[l] = IF l = 1 THEN NumToMerge * EltsPerRun ELSE MergeSize * Size[l - 1]
  <2> HIDE DEF Sizes
  <2>1. SizesTo(l, Sizes(l)) /\ Size[l] = Sizes(l)[l] /\ l \in Nat /\ l \in 1..l
    BY <1>1
  <2>2. Size[l] \in Nat \ {0}
    BY <2>1 DEF SizesTo
  <2>3. CASE l = 1
    BY <2>1, <2>2, <2>3 DEF SizesTo
  <2>4. CASE l # 1
    <3>1. l - 1 \in Nat \ {0} /\ l - 1 \in 1..l /\ l - 1 \in 1..l - 1
      BY <2>4
    <3>2. SizesTo(l - 1, Sizes(l - 1)) /\ Size[l - 1] = Sizes(l - 1)[l - 1]
      BY <1>1, <3>1
    <3>3. Sizes(l - 1)[l - 1] = Sizes(l)[l - 1]
      BY <2>1, <3>1, <3>2, SizesAgree
    <3>4. Sizes(l)[l] = MergeSize * Sizes(l)[l - 1]
      BY <2>1, <2>4 DEF SizesTo
    <3> QED
      BY <2>1, <2>2, <2>4, <3>2, <3>3, <3>4
  <2> QED
    BY <2>3, <2>4
<1>3. Size = Def(Size)
  <2> HIDE DEF Sizes
  <2>1. Size = [l \in Nat \ {0} |-> Size[l]]
    OBVIOUS
  <2> QED
    BY <1>2, <2>1
<1>4. RunSize = CHOOSE f : f = Def(f)
  BY DEF RunSize
<1>5. RunSize = Def(RunSize)
  <2> HIDE DEF Size, Def
  <2> QED
    BY <1>3, <1>4, Zenon
<1>6. /\ RunSize[1] = NumToMerge * EltsPerRun
      /\ \A n \in Nat : RunSize[n + 1 + 1] = MergeSize * RunSize[n + 1]
  <2> HIDE DEF Size
  <2>1. ASSUME NEW l \in Nat \ {0}
        PROVE  RunSize[l] = IF l = 1 THEN NumToMerge * EltsPerRun ELSE MergeSize * RunSize[l - 1]
    BY <1>5
  <2>2. ASSUME NEW n \in Nat PROVE RunSize[n + 1 + 1] = MergeSize * RunSize[n + 1]
    <3>1. PICK l \in Nat \ {0} : l = n + 1 + 1 /\ l # 1 /\ l - 1 = n + 1
      OBVIOUS
    <3> QED
      BY <2>1, <3>1
  <2> QED
    BY <2>1, <2>2
<1>7. \A n \in Nat : RunSize[n + 1] \in Nat \ {0}
  <2> HIDE DEF Size
  <2> DEFINE S == {n \in Nat : RunSize[n + 1] \in Nat \ {0}}
  <2>1. 0 \in S
    <3>1. NumToMerge \in Nat \ {0} /\ EltsPerRun \in Nat \ {0}
      BY Facts
    <3>2. NumToMerge * EltsPerRun \in Nat \ {0}
      BY <3>1
    <3> QED
      BY <1>6, <3>2
  <2>2. ASSUME NEW n \in Nat, n \in S PROVE n + 1 \in S
    <3>1. MergeSize \in Nat \ {0} /\ RunSize[n + 1] \in Nat \ {0}
      BY Facts, <2>2
    <3>2. MergeSize * RunSize[n + 1] \in Nat \ {0}
      BY <3>1
    <3> QED
      BY <1>6, <3>2
  <2>3. Nat \subseteq S
    <3> HIDE DEF S
    <3> QED
      BY <2>1, <2>2, SetInduction
  <2> QED
    BY <2>3
<1>8. ASSUME NEW l \in Nat \ {0}
      PROVE  RunSize[l] \in Nat \ {0} /\ RunSize[l + 1] = MergeSize * RunSize[l]
  <2>1. PICK n \in Nat : l = n + 1
    BY l = (l - 1) + 1
  <2> QED
    BY <1>6, <1>7, <2>1
<1> QED
  BY <1>6, <1>8

\* The union of n sets of at most c elements has at most n times c.
LEMMA UnionBound ==
  ASSUME NEW c \in Nat, NEW m \in Nat, NEW F,
         \A i \in 1..m : IsFiniteSet(F[i]) /\ Cardinality(F[i]) <= c
  PROVE  IsFiniteSet(UNION {F[i] : i \in 1..m}) /\ Cardinality(UNION {F[i] : i \in 1..m}) <= m * c
<1> DEFINE U(n) == UNION {F[i] : i \in 1..n}
           S == {n \in Nat : n <= m => IsFiniteSet(U(n)) /\ Cardinality(U(n)) <= n * c}
<1>1. 0 \in S
  <2>1. U(0) = {}
    OBVIOUS
  <2> QED
    BY <2>1, FS_EmptySet
<1>2. ASSUME NEW n \in Nat, n \in S PROVE n + 1 \in S
  <2> SUFFICES ASSUME n + 1 <= m PROVE IsFiniteSet(U(n + 1)) /\ Cardinality(U(n + 1)) <= (n + 1) * c
    OBVIOUS
  <2>1. U(n + 1) = U(n) \union F[n + 1]
    <3>1. 1..n + 1 = (1..n) \union {n + 1}
      OBVIOUS
    <3> QED
      BY <3>1
  <2>2. IsFiniteSet(U(n)) /\ Cardinality(U(n)) <= n * c
    BY <1>2
  <2>3. IsFiniteSet(F[n + 1]) /\ Cardinality(F[n + 1]) <= c
    OBVIOUS
  <2> HIDE DEF U
  <2>4. PICK T : T = F[n + 1]
    OBVIOUS
  <2>5. /\ IsFiniteSet(U(n) \union T)
        /\ Cardinality(U(n) \union T) = Cardinality(U(n)) + Cardinality(T) - Cardinality(U(n) \cap T)
    BY <2>2, <2>3, <2>4, FS_Union
  <2>6. IsFiniteSet(U(n) \cap T)
    BY <2>2, FS_Subset
  <2>7. /\ Cardinality(U(n)) \in Nat /\ Cardinality(T) \in Nat /\ Cardinality(U(n) \cap T) \in Nat
        /\ Cardinality(U(n) \union T) \in Nat
    BY <2>2, <2>3, <2>4, <2>5, <2>6, FS_CardinalityType
  <2>8. n * c + c = (n + 1) * c /\ n * c \in Nat /\ (n + 1) * c \in Nat
    OBVIOUS
  <2>9. Cardinality(U(n) \union T) <= n * c + c
    BY <2>2, <2>3, <2>4, <2>5, <2>7, <2>8
  <2> QED
    BY <2>1, <2>4, <2>5, <2>8, <2>9
<1>3. Nat \subseteq S
  <2> HIDE DEF S
  <2> QED
    BY <1>1, <1>2, SetInduction
<1>4. m \in S
  BY <1>3
<1> QED
  BY <1>4

\* The places of the entries of one key.
LEMMA PlaceIs ==
  ASSUME NEW array, NEW k, NEW i
  PROVE  <<k, i>> \in PlacesOf(array) <=> k \in Keys /\ i \in DOMAIN array[k]
  BY DEF PlacesOf

\* Every place is that of an entry of a key.
LEMMA PlacePair ==
  ASSUME NEW array, NEW x \in PlacesOf(array)
  PROVE  \E k \in Keys : \E i \in DOMAIN array[k] : x = <<k, i>>
  BY DEF PlacesOf

\* A run that was merged has no more entries than the runs it was merged from.
LEMMA MergedPlaces ==
  ASSUME NEW runs \in Seq(DiskRuns)
  PROVE  PlacesOf(HeapMerge(runs)) \subseteq UNION {PlacesOf(runs[i]) : i \in DOMAIN runs}
<1> SUFFICES ASSUME NEW x \in PlacesOf(HeapMerge(runs))
             PROVE  \E i \in DOMAIN runs : x \in PlacesOf(runs[i])
  OBVIOUS
<1>1. PICK k \in Keys : \E p \in DOMAIN HeapMerge(runs)[k] : x = <<k, p>>
  <2>1. PICK array : array = HeapMerge(runs)
    OBVIOUS
  <2>2. x \in PlacesOf(array)
    BY <2>1
  <2> QED
    BY <2>1, <2>2, PlacePair
<1>2. PICK p \in DOMAIN HeapMerge(runs)[k] : x = <<k, p>>
  BY <1>1
<1> DEFINE holders == {i \in DOMAIN runs : runs[i][k] # << >>}
<1>3. HeapMerge(runs)[k] = IF holders = {} THEN << >> ELSE << runs[Max(holders)][k][1] >>
  BY DEF HeapMerge
<1>4. holders # {} /\ p = 1
  <2> HIDE DEF holders
  <2> QED
    BY <1>2, <1>3
<1>5. PICK i \in DOMAIN runs : runs[i][k] # << >>
  BY <1>4
<1>6. runs[i][k] \in Seq(Stored) /\ 1 \in DOMAIN runs[i][k]
  <2>1. runs[i] \in DiskRuns
    OBVIOUS
  <2>2. runs[i][k] \in Seq(Stored)
    BY <2>1 DEF DiskRuns
  <2> QED
    BY <1>5, <2>2
<1> QED
  BY <1>2, <1>4, <1>6, PlaceIs

\* Taking the entries of a key away leaves no other places.
LEMMA DroppedPlaces ==
  ASSUME NEW array \in DiskRuns, NEW last
  PROVE  PlacesOf([array EXCEPT ![last] = << >>]) \subseteq PlacesOf(array)
<1>1. PICK new : new = [array EXCEPT ![last] = << >>]
  OBVIOUS
<1> SUFFICES ASSUME NEW x \in PlacesOf(new) PROVE x \in PlacesOf(array)
  BY <1>1
<1>2. PICK k \in Keys : \E p \in DOMAIN new[k] : x = <<k, p>>
  BY PlacePair
<1>3. PICK p \in DOMAIN new[k] : x = <<k, p>>
  BY <1>2
<1>4. new[k] = IF k = last THEN << >> ELSE array[k]
  BY <1>1 DEF DiskRuns
<1>5. DOMAIN << >> = {}
  OBVIOUS
<1>6. p \in DOMAIN array[k]
  BY <1>3, <1>4, <1>5, Zenon
<1> QED
  BY <1>3, <1>6, PlaceIs

\* A run that is not empty has an entry.
LEMMA SomePlace ==
  ASSUME NEW array \in DiskRuns, KeysOf(array) # {}
  PROVE  PlacesOf(array) # {}
<1>1. PICK k \in Keys : array[k] # << >>
  BY DEF KeysOf
<1>2. array[k] \in Seq(Stored)
  BY DEF DiskRuns
<1>3. 1 \in DOMAIN array[k]
  BY <1>1, <1>2
<1> QED
  BY <1>3, PlaceIs

\* A run with at most n entries, which can be counted.
Fits(array, n) == IsFiniteSet(PlacesOf(array)) /\ Entries(array) \in 1..n

\* What addRuns makes of a level fits in a run of the next one.
LEMMA MergedFits ==
  ASSUME levels \in Seq(Seq(DiskRuns)), depth \in 1..Len(levels), MergeSize <= Len(levels[depth]),
         \A r \in DOMAIN levels[depth] : Fits(levels[depth][r], RunSize[depth]),
         KeysOf(MergedRun) # {}
  PROVE  Fits(MergedRun, RunSize[depth + 1])
<1> DEFINE oldest == SubSeq(levels[depth], 1, MergeSize)
           all == UNION {PlacesOf(oldest[i]) : i \in 1..MergeSize}
<1>1. /\ oldest \in Seq(DiskRuns) /\ DOMAIN oldest = 1..MergeSize
      /\ \A i \in 1..MergeSize : i \in DOMAIN levels[depth] /\ oldest[i] = levels[depth][i]
  BY Facts
<1>2. PlacesOf(MergedRun) \subseteq all
  <2>1. PICK merged : merged = HeapMerge(oldest)
    OBVIOUS
  <2>2. merged \in DiskRuns
    BY <1>1, <2>1, HeapMergeType
  <2>3. PlacesOf(merged) \subseteq all
    BY <1>1, <2>1, MergedPlaces
  <2>4. PICK last : last = Max(KeysOf(merged))
    OBVIOUS
  <2>5. MergedRun = merged \/ MergedRun = [merged EXCEPT ![last] = << >>]
    BY <2>1, <2>4, Zenon DEF MergedRun, DropLastTombstone
  <2> QED
    BY <2>2, <2>3, <2>5, DroppedPlaces
<1>3. RunSize[depth] \in Nat /\ RunSize[depth + 1] = MergeSize * RunSize[depth] /\ MergeSize \in Nat
  <2>1. depth \in Nat \ {0} /\ MergeSize \in Nat
    BY Facts
  <2> QED
    BY <2>1, RunSizes
<1>4. IsFiniteSet(all) /\ Cardinality(all) <= RunSize[depth + 1]
  <2>1. PICK F : F = [i \in 1..MergeSize |-> PlacesOf(oldest[i])]
    OBVIOUS
  <2>2. ASSUME NEW i \in 1..MergeSize PROVE IsFiniteSet(F[i]) /\ Cardinality(F[i]) <= RunSize[depth]
    BY <1>1, <2>1 DEF Fits, Entries
  <2>3. all = UNION {F[i] : i \in 1..MergeSize}
    BY <2>1
  <2>4. /\ IsFiniteSet(UNION {F[i] : i \in 1..MergeSize})
        /\ Cardinality(UNION {F[i] : i \in 1..MergeSize}) <= MergeSize * RunSize[depth]
    <3> HIDE DEF all
    <3> QED
      BY ONLY <1>3, <2>2, UnionBound
  <2> QED
    BY <1>3, <2>3, <2>4
<1>5. MergedRun \in DiskRuns
  BY MergedRunType
<1>6. PICK places : places = PlacesOf(MergedRun)
  OBVIOUS
<1>7. places # {} /\ places \in SUBSET all
  BY <1>2, <1>5, <1>6, SomePlace
<1> HIDE DEF all
<1>8. IsFiniteSet(places) /\ Cardinality(places) <= Cardinality(all)
  BY <1>4, <1>7, FS_Subset
<1>9. Cardinality(places) \in Nat /\ Cardinality(places) # 0 /\ Cardinality(all) \in Nat
  BY <1>4, <1>7, <1>8, FS_CardinalityType, FS_EmptySet
<1>10. RunSize[depth + 1] \in Nat
  <2>1. depth + 1 \in Nat \ {0}
    OBVIOUS
  <2> QED
    BY <2>1, RunSizes
<1>11. Cardinality(places) \in 1..RunSize[depth + 1]
  BY <1>4, <1>8, <1>9, <1>10
<1> QED
  BY <1>6, <1>8, <1>11 DEF Fits, Entries

\* A turn of the loop that copies a run brings one entry for each of its keys.
LEMMA CollectedPlaces ==
  ASSUME Inv, Collect, IsFiniteSet(PlacesOf(toMerge)),
         IsFiniteSet(RunKeys(runsToMerge[collected + 1]))
  PROVE  /\ IsFiniteSet(PlacesOf(toMerge'))
         /\ Entries(toMerge)' = Entries(toMerge) + Cardinality(RunKeys(runsToMerge[collected + 1]))
<1>1. PICK run : run = runsToMerge[collected + 1]
  OBVIOUS
<1>2. /\ toMerge \in DiskRuns /\ run \in SkipRuns
      /\ toMerge' = [k \in Keys |-> IF run.elts[k] = Absent THEN toMerge[k]
                                    ELSE << run.elts[k] >> \o toMerge[k]]
  <2>1. runsToMerge \in Seq(SkipRuns) /\ collected \in Nat /\ collected < Len(runsToMerge)
    BY DEF Inv, TypeOK, Collect
  <2>2. run \in SkipRuns
    BY <1>1, <2>1
  <2> QED
    BY <1>1, <2>2, Zenon DEF Inv, TypeOK, Collect
<1> DEFINE New(k) == <<k, Len(toMerge[k]) + 1>>
           new == {New(k) : k \in RunKeys(run)}
<1>3. ASSUME NEW k \in Keys
      PROVE  /\ k \in RunKeys(run) => DOMAIN toMerge'[k] = DOMAIN toMerge[k] \union {Len(toMerge[k]) + 1}
             /\ k \notin RunKeys(run) => toMerge'[k] = toMerge[k]
             /\ Len(toMerge[k]) + 1 \notin DOMAIN toMerge[k]
  <2>1. toMerge[k] \in Seq(Stored)
    BY <1>2 DEF DiskRuns
  <2>2. k \in RunKeys(run) <=> run.elts[k] # Absent
    BY DEF RunKeys
  <2>3. CASE k \in RunKeys(run)
    <3>1. run.elts[k] \in Stored
      BY <1>2, <2>2, <2>3 DEF SkipRuns
    <3>2. toMerge'[k] = << run.elts[k] >> \o toMerge[k]
      BY <1>2, <2>2, <2>3, Zenon
    <3>3. PICK e, s : e \in Stored /\ s \in Seq(Stored) /\ e = run.elts[k] /\ s = toMerge[k]
      BY <2>1, <3>1
    <3>4. DOMAIN (<< e >> \o s) = DOMAIN s \union {Len(s) + 1} /\ Len(s) + 1 \notin DOMAIN s
      BY <3>3
    <3> QED
      BY <2>3, <3>2, <3>3, <3>4
  <2>4. CASE k \notin RunKeys(run)
    <3>1. toMerge'[k] = toMerge[k]
      BY <1>2, <2>2, <2>4, Zenon
    <3> QED
      BY <2>1, <2>4, <3>1
  <2> QED
    BY <2>3, <2>4
<1>4. PlacesOf(toMerge') = PlacesOf(toMerge) \union new
  <2>1. ASSUME NEW x \in PlacesOf(toMerge') PROVE x \in PlacesOf(toMerge) \/ x \in new
    <3>1. PICK k \in Keys : \E p \in DOMAIN toMerge'[k] : x = <<k, p>>
      BY PlacePair
    <3>2. PICK p \in DOMAIN toMerge'[k] : x = <<k, p>>
      BY <3>1
    <3> QED
      BY <1>3, <3>2, PlaceIs
  <2>2. ASSUME NEW x \in PlacesOf(toMerge) PROVE x \in PlacesOf(toMerge')
    <3>1. PICK k \in Keys : \E p \in DOMAIN toMerge[k] : x = <<k, p>>
      BY <2>2, PlacePair
    <3>2. PICK p \in DOMAIN toMerge[k] : x = <<k, p>>
      BY <3>1
    <3> QED
      BY <1>3, <3>2, PlaceIs
  <2>3. ASSUME NEW x \in new PROVE x \in PlacesOf(toMerge')
    <3>1. PICK k \in RunKeys(run) : x = New(k)
      OBVIOUS
    <3>2. k \in Keys
      BY DEF RunKeys
    <3> QED
      BY <1>3, <3>1, <3>2, PlaceIs
  <2> QED
    BY <2>1, <2>2, <2>3
<1>5. PlacesOf(toMerge) \cap new = {}
  <2> SUFFICES ASSUME NEW k \in RunKeys(run), New(k) \in PlacesOf(toMerge) PROVE FALSE
    OBVIOUS
  <2>1. k \in Keys
    BY DEF RunKeys
  <2> QED
    BY <1>3, <2>1, PlaceIs
<1>6. IsFiniteSet(new) /\ Cardinality(new) = Cardinality(RunKeys(run))
  <2>1. IsFiniteSet(RunKeys(run))
    BY <1>1
  <2>2. PICK f : f = [k \in RunKeys(run) |-> New(k)]
    OBVIOUS
  <2>3. f \in Bijection(RunKeys(run), new)
    BY <2>2 DEF Bijection, Injection, Surjection, IsInjective
  <2> QED
    BY <2>1, <2>3, FS_Bijection DEF ExistsBijection
<1> HIDE DEF new
<1>7. /\ IsFiniteSet(PlacesOf(toMerge) \union new)
      /\ Cardinality(PlacesOf(toMerge) \union new)
           = Cardinality(PlacesOf(toMerge)) + Cardinality(new) - Cardinality(PlacesOf(toMerge) \cap new)
  BY <1>6, FS_Union
<1>8. Cardinality(PlacesOf(toMerge) \cap new) = 0
  BY <1>5, FS_EmptySet
<1>9. Cardinality(PlacesOf(toMerge)) \in Nat /\ Cardinality(new) \in Nat
  BY <1>6, FS_CardinalityType
<1>10. Cardinality(PlacesOf(toMerge')) = Cardinality(PlacesOf(toMerge)) + Cardinality(RunKeys(run))
  BY <1>4, <1>6, <1>7, <1>8, <1>9
<1> QED
  BY <1>1, <1>4, <1>7, <1>10 DEF Entries

\* Appending leaves what was there.
LEMMA AppendedElement ==
  ASSUME NEW S, NEW s \in Seq(S), NEW e \in S, NEW r \in DOMAIN Append(s, e)
  PROVE  Append(s, e)[r] = e \/ (r \in DOMAIN s /\ Append(s, e)[r] = s[r])
<1>1. r \in 1..Len(s) + 1
  OBVIOUS
<1>2. CASE r = Len(s) + 1
  BY <1>2
<1>3. CASE r # Len(s) + 1
  BY <1>1, <1>3
<1> QED
  BY <1>2, <1>3

\* Every run of the levels fits in its file.
LevelsFit == \A l \in DOMAIN levels : \A r \in DOMAIN levels[l] : Fits(levels[l][r], RunSize[l])

\* The merge thread has as many entries as it has counted, and every skip list it
\* will copy can be counted.
ThreadCounts ==
  /\ \A i \in DOMAIN runsToMerge : IsFiniteSet(RunKeys(runsToMerge[i]))
  /\ IsFiniteSet(PlacesOf(toMerge)) /\ Entries(toMerge) = toMergeSize

SizeInv == LevelsFit /\ ThreadCounts

\* A new tree has no entries.
LEMMA SizeInit == Init => SizeInv
<1> SUFFICES ASSUME Init PROVE SizeInv
  OBVIOUS
<1>1. LevelsFit
  BY DEF Init, LevelsFit, NewLevel
<1>2. PlacesOf(EmptyArray) = {}
  BY DEF PlacesOf, EmptyArray
<1>3. ThreadCounts
  BY <1>2, FS_EmptySet DEF Init, ThreadCounts, Entries
<1> QED
  BY <1>1, <1>3 DEF SizeInv

\* do_merge hands skip lists over that can be counted.
LEMMA DoMergeSize == ASSUME Inv, SizeInv, DoMerge PROVE SizeInv'
<1>1. /\ NumToMerge \in 0..Len(C_0) /\ C_0 \in Seq(SkipRuns) /\ NumToMerge \in Nat
      /\ \A i \in 1..NumRuns : CountedRun(C_0[i])
  BY DoMergeShape DEF Inv, TypeOK
<1>2. runsToMerge' = SubSeq(C_0, 1, NumToMerge) /\ UNCHANGED <<levels, toMerge, toMergeSize>>
  BY DEF DoMerge
<1>3. ASSUME NEW i \in DOMAIN runsToMerge' PROVE IsFiniteSet(RunKeys(runsToMerge'[i]))
  <2>1. i \in 1..NumToMerge /\ runsToMerge'[i] = C_0[i]
    BY <1>1, <1>2, <1>3
  <2>2. i \in 1..NumRuns
    BY <2>1, Facts
  <2> QED
    BY <1>1, <2>1, <2>2 DEF CountedRun
<1> QED
  BY <1>2, <1>3 DEF SizeInv, LevelsFit, ThreadCounts

\* Collect counts what it copies.
LEMMA CollectSize == ASSUME Inv, SizeInv, Collect PROVE SizeInv'
<1>1. /\ UNCHANGED <<levels, runsToMerge>>
      /\ toMergeSize' = toMergeSize + Cardinality(RunKeys(runsToMerge[collected + 1]))
  BY DEF Collect
<1>2. collected + 1 \in DOMAIN runsToMerge
  <2>1. runsToMerge \in Seq(SkipRuns) /\ collected \in Nat /\ collected < Len(runsToMerge)
    BY DEF Inv, TypeOK, Collect
  <2> QED
    BY <2>1
<1>3. IsFiniteSet(PlacesOf(toMerge')) /\ Entries(toMerge)' = toMergeSize'
  BY <1>1, <1>2, CollectedPlaces DEF SizeInv, ThreadCounts
<1> QED
  BY <1>1, <1>3 DEF SizeInv, LevelsFit, ThreadCounts

\* Sorting leaves the places of the entries of each key.
LEMMA SortSize == ASSUME Inv, SizeInv, Sort PROVE SizeInv'
<1>1. ASSUME NEW k \in Keys PROVE DOMAIN toMerge'[k] = DOMAIN toMerge[k]
  BY <1>1 DEF Sort
<1>2. PlacesOf(toMerge') = PlacesOf(toMerge)
  BY <1>1 DEF PlacesOf
<1>3. UNCHANGED <<levels, runsToMerge, toMergeSize>>
  BY DEF Sort
<1> QED
  BY <1>2, <1>3 DEF SizeInv, LevelsFit, ThreadCounts, Entries

\* mergeRunsToLevel makes an empty level or none.
LEMMA DescendSize == ASSUME Inv, SizeInv, Descend PROVE SizeInv'
<1>1. UNCHANGED <<runsToMerge, toMerge, toMergeSize>>
  BY DEF Descend
<1>2. levels' = levels \/ levels' = Append(levels, << >>)
  BY DEF Descend, NewLevel
<1>3. levels \in Seq(Seq(DiskRuns))
  BY DEF Inv, TypeOK
<1>4. ASSUME NEW l \in DOMAIN levels' PROVE levels'[l] = << >> \/ (l \in DOMAIN levels /\ levels'[l] = levels[l])
  <2>1. << >> \in Seq(DiskRuns)
    OBVIOUS
  <2>2. CASE levels' = levels
    BY <2>2
  <2>3. CASE levels' = Append(levels, << >>)
    <3>1. l \in DOMAIN Append(levels, << >>)
      BY <2>3
    <3> QED
      BY <1>3, <2>1, <2>3, <3>1, AppendedElement
  <2> QED
    BY <1>2, <2>2, <2>3
<1>5. LevelsFit'
  BY <1>4 DEF SizeInv, LevelsFit
<1> QED
  BY <1>1, <1>5 DEF SizeInv, ThreadCounts

\* addRuns adds a run that fits.
LEMMA AddRunsSize == ASSUME Inv, SizeInv, AddRuns PROVE SizeInv'
<1>1. /\ levels \in Seq(Seq(DiskRuns)) /\ depth \in 1..Len(levels) /\ depth < Len(levels)
      /\ Len(levels[depth]) = DiskRunsPerLevel /\ MergeSize \in 1..DiskRunsPerLevel
      /\ DiskRunsPerLevel \in Nat
  BY Facts DEF Inv, TypeOK, ShapeInv, LevelShape, AddRuns
<1>2. UNCHANGED <<runsToMerge, toMerge, toMergeSize>>
  BY DEF AddRuns
<1>3. CASE UNCHANGED levels
  BY <1>2, <1>3 DEF SizeInv, LevelsFit, ThreadCounts
<1>4. CASE /\ KeysOf(MergedRun) # {}
           /\ levels' = [levels EXCEPT ![depth + 1] = Append(levels[depth + 1], MergedRun)]
  <2>1. \A r \in DOMAIN levels[depth] : Fits(levels[depth][r], RunSize[depth])
    BY <1>1 DEF SizeInv, LevelsFit
  <2>2. PICK new \in DiskRuns : new = MergedRun
    BY <1>1, MergedRunType
  <2>3. Fits(new, RunSize[depth + 1])
    BY <1>1, <1>4, <2>1, <2>2, MergedFits
  <2>4. levels' = [levels EXCEPT ![depth + 1] = Append(levels[depth + 1], new)]
    BY <1>4, <2>2
  <2>5. ASSUME NEW l \in DOMAIN levels', NEW r \in DOMAIN levels'[l] PROVE Fits(levels'[l][r], RunSize[l])
    <3>1. l \in DOMAIN levels /\ levels[l] \in Seq(DiskRuns)
      BY <1>1, <2>4
    <3>2. CASE l = depth + 1
      <4>1. levels'[l] = Append(levels[l], new)
        BY <2>4, <3>1, <3>2
      <4>2. levels'[l][r] = new \/ (r \in DOMAIN levels[l] /\ levels'[l][r] = levels[l][r])
        BY <2>2, <3>1, <4>1, AppendedElement
      <4> QED
        BY <2>3, <3>1, <3>2, <4>2 DEF SizeInv, LevelsFit
    <3>3. CASE l # depth + 1
      <4>1. levels'[l] = levels[l]
        BY <2>4, <3>1, <3>3
      <4> QED
        BY <3>1, <4>1 DEF SizeInv, LevelsFit
    <3> QED
      BY <3>2, <3>3
  <2> QED
    BY <1>2, <2>5 DEF SizeInv, LevelsFit, ThreadCounts
<1> QED
  BY <1>3, <1>4 DEF AddRuns

\* freeMergedRuns leaves runs that were there.
LEMMA FreeSize == ASSUME Inv, SizeInv, Free PROVE SizeInv'
<1>1. /\ levels \in Seq(Seq(DiskRuns)) /\ depth \in 1..Len(levels)
      /\ Len(levels[depth]) = DiskRunsPerLevel /\ MergeSize \in 1..DiskRunsPerLevel
      /\ DiskRunsPerLevel \in Nat
  BY Facts DEF Inv, TypeOK, ShapeInv, LevelShape, Free
<1>2. /\ UNCHANGED <<runsToMerge, toMerge, toMergeSize>>
      /\ levels' = [levels EXCEPT ![depth] = DropFirst(levels[depth], MergeSize)]
  BY DEF Free
<1>3. ASSUME NEW l \in DOMAIN levels', NEW r \in DOMAIN levels'[l] PROVE Fits(levels'[l][r], RunSize[l])
  <2>1. l \in DOMAIN levels /\ levels[l] \in Seq(DiskRuns)
    BY <1>1, <1>2
  <2>2. CASE l = depth
    <3>1. levels'[l] = DropFirst(levels[l], MergeSize)
      BY <1>2, <2>1, <2>2
    <3>2. r + MergeSize \in DOMAIN levels[l] /\ levels'[l][r] = levels[l][r + MergeSize]
      <4>1. MergeSize \in 0..Len(levels[l])
        BY <1>1, <2>2
      <4>2. /\ DropFirst(levels[l], MergeSize) \in Seq(DiskRuns)
            /\ Len(DropFirst(levels[l], MergeSize)) = Len(levels[l]) - MergeSize
            /\ \A i \in 1..Len(levels[l]) - MergeSize : DropFirst(levels[l], MergeSize)[i] = levels[l][i + MergeSize]
        BY <2>1, <4>1, DropFirstType
      <4>3. r \in 1..Len(levels[l]) - MergeSize
        BY <3>1, <4>2
      <4> QED
        BY <2>1, <3>1, <4>1, <4>2, <4>3
    <3> QED
      BY <2>1, <3>2 DEF SizeInv, LevelsFit
  <2>3. CASE l # depth
    <3>1. levels'[l] = levels[l]
      BY <1>2, <2>1, <2>3
    <3> QED
      BY <2>1, <3>1 DEF SizeInv, LevelsFit
  <2> QED
    BY <2>2, <2>3
<1> QED
  BY <1>2, <1>3 DEF SizeInv, LevelsFit, ThreadCounts

\* addRunByArray adds a run of level 1, which is what it asserts.
LEMMA AddSize == ASSUME Inv, SizeInv, Add PROVE SizeInv'
<1>1. levels \in Seq(Seq(DiskRuns)) /\ toMerge \in DiskRuns
  BY DEF Inv, TypeOK
<1>2. UNCHANGED <<runsToMerge, toMerge, toMergeSize>>
  BY DEF Add
<1>3. CASE UNCHANGED levels
  BY <1>2, <1>3 DEF SizeInv, LevelsFit, ThreadCounts
<1>4. CASE /\ toMergeSize = NumToMerge * EltsPerRun
           /\ levels' = [levels EXCEPT ![1] = Append(levels[1], toMerge)]
  <2>1. Fits(toMerge, RunSize[1])
    <3>1. RunSize[1] \in Nat \ {0} /\ RunSize[1] = toMergeSize
      BY <1>4, RunSizes
    <3> QED
      BY <3>1 DEF SizeInv, ThreadCounts, Fits
  <2>2. ASSUME NEW l \in DOMAIN levels', NEW r \in DOMAIN levels'[l] PROVE Fits(levels'[l][r], RunSize[l])
    <3>1. l \in DOMAIN levels /\ levels[l] \in Seq(DiskRuns)
      BY <1>1, <1>4
    <3>2. CASE l = 1
      <4>1. levels'[l] = Append(levels[l], toMerge)
        BY <1>4, <3>1, <3>2
      <4>2. levels'[l][r] = toMerge \/ (r \in DOMAIN levels[l] /\ levels'[l][r] = levels[l][r])
        BY <1>1, <3>1, <4>1, AppendedElement
      <4> QED
        BY <2>1, <3>1, <3>2, <4>2 DEF SizeInv, LevelsFit
    <3>3. CASE l # 1
      <4>1. levels'[l] = levels[l]
        BY <1>4, <3>1, <3>3
      <4> QED
        BY <3>1, <4>1 DEF SizeInv, LevelsFit
    <3> QED
      BY <3>2, <3>3
  <2> QED
    BY <1>2, <2>2 DEF SizeInv, LevelsFit, ThreadCounts
<1> QED
  BY <1>3, <1>4 DEF Add

\* merge_runs returns, and what it has copied is gone.
LEMMA UnlockSize == ASSUME SizeInv, Unlock PROVE SizeInv'
<1>1. UNCHANGED levels /\ runsToMerge' = << >> /\ toMerge' = EmptyArray /\ toMergeSize' = 0
  BY DEF Unlock
<1>2. PlacesOf(EmptyArray) = {}
  BY DEF PlacesOf, EmptyArray
<1>3. ThreadCounts'
  BY <1>1, <1>2, FS_EmptySet DEF ThreadCounts, Entries
<1> QED
  BY <1>1, <1>3 DEF SizeInv, LevelsFit

\* The destructor leaves no levels.
LEMMA DestroyedSize == ASSUME SizeInv, Destroyed PROVE SizeInv'
  BY DEF SizeInv, LevelsFit, ThreadCounts, Destroyed

\* The other steps leave the levels and what the merge thread has.
LEMMA SameSize == ASSUME SizeInv, UNCHANGED <<levels, runsToMerge, toMerge, toMergeSize>> PROVE SizeInv'
  BY DEF SizeInv, LevelsFit, ThreadCounts

\* Every step keeps it.
LEMMA SizeNext == ASSUME Inv, SizeInv, [Next]_vars PROVE SizeInv'
<1>1. CASE Call
  BY <1>1, SameSize DEF Call, Insert, InsertFull, LookupBuffer, LookupMiss, RangeNone, RangeBuffer, Report,
                               Destroy, mergeVars
<1>2. CASE Resume
  <2>1. CASE LookupDisk \/ RangeDisk \/ ReportJoined
    BY <2>1, SameSize DEF LookupDisk, RangeDisk, ReportJoined, mergeVars
  <2> QED
    BY <1>2, <2>1, DoMergeSize, DestroyedSize DEF Resume
<1>3. CASE MergeThread
  <2>1. CASE Lock
    BY <2>1, SameSize DEF Lock
  <2> QED
    BY <1>3, <2>1, CollectSize, SortSize, DescendSize, AddRunsSize, FreeSize, AddSize, UnlockSize DEF MergeThread
<1>4. CASE Gone \/ UNCHANGED vars
  BY <1>4, SameSize DEF Gone, vars, mergeVars
<1> QED
  BY <1>1, <1>2, <1>3, <1>4 DEF Next

\* No merge writes past the end of the file that is mapped for its result, on any
\* level of a tree of any size: addRuns has no more entries to place than the runs it
\* reads, and addRunByArray just those that were counted.
THEOREM RunsFitTheirFiles == Spec => []RunsFit
<1>1. Inv /\ SizeInv => RunsFit
  BY DEF Inv, ShapeInv, LevelShape, SizeInv, LevelsFit, Fits, RunsFit
<1>2. Spec => []SizeInv
  BY Invariance, SizeInit, SizeNext, PTL DEF Spec
<1> QED
  BY <1>1, <1>2, Invariance, PTL
=============================================================================
