--------------------------- MODULE ProgramProofs ---------------------------
(***************************************************************************)
(* Program keeps its files in order for levels of any number of runs,      *)
(* merges of any size, and processes that may stop at every step, whatever *)
(* earlier processes have left in the directory.  The invariant says which *)
(* names the runs of each level have at each place in the loops of the     *)
(* merge thread, what is in their files and how old it is.                 *)
(***************************************************************************)
EXTENDS Program, FlattenLemmas, FiniteSetTheorems

\* What the assumptions on the constants say.
LEMMA Parameters ==
  /\ NumRuns \in Nat \ {0} /\ MergeSize \in 1..NumRuns /\ MergeSize \in Nat
  /\ BufferSize \in Nat \ {0}
  /\ MaxArgs \in Nat /\ MaxLines \in Nat /\ MaxPairs \in Nat /\ MaxWrites \in Nat /\ MaxStarts \in Nat
  BY LevelAssumption, ProgramAssumption DEF LevelAssumption, ProgramAssumption

----------------------------------------------------------------------------
(* The invariant *)

RunRec == [name : Names, file : Nat, writes : SUBSET Nat]

LevelRec == [runs : Seq(RunRec), active : 0..NumRuns]

At(l, r) == levels[l].runs[r]

LevelTypes == levels \in Seq(LevelRec)

\* The directory names each file once, and there are no other files.
DirInv ==
  /\ \A n \in DOMAIN dir : n \in Names /\ dir[n] \in Nat
  /\ \A m, n \in DOMAIN dir : dir[m] = dir[n] => m = n
  /\ DOMAIN data = Range(dir) /\ IsFiniteSet(DOMAIN data)
  /\ \A f \in DOMAIN data : data[f] \subseteq 1..writes

\* The name of a run leads to its file, and what it has written is in there.
OwnInv ==
  \A l \in DOMAIN levels : \A r \in DOMAIN levels[l].runs :
    /\ At(l, r).name \in DOMAIN dir /\ dir[At(l, r).name] = At(l, r).file
    /\ data[At(l, r).file] = At(l, r).writes

\* A name that no run of the tree has was there when the process started, and what
\* its file has is from then.
ForeignInv ==
  mpc # "off" => \A n \in DOMAIN dir :
    \/ \E l \in DOMAIN levels : \E r \in DOMAIN levels[l].runs : At(l, r).name = n
    \/ n \in before.names /\ data[dir[n]] \subseteq 1..before.writes

\* How far the id of run r of level l is from its place: runs before it have been
\* deleted and it is not renamed yet.
Ahead(l, r) ==
  IF at \in {"free", "destroy"} THEN NumRuns - Len(levels[l].runs)
  ELSE IF at = "rename" /\ l = depth /\ r > i THEN MergeSize
  ELSE 0

NameInv ==
  \A l \in DOMAIN levels : \A r \in DOMAIN levels[l].runs : At(l, r).name = <<l, r - 1 + Ahead(l, r)>>

\* The number of runs of level l, outside of the destructor.
RunsThere(l) ==
  IF (at = "construct" /\ l = depth + 1) \/ (at = "create" /\ l = depth) THEN i
  ELSE IF at = "free" /\ l = depth THEN NumRuns - i
  ELSE IF at = "rename" /\ l = depth THEN NumRuns - MergeSize
  ELSE NumRuns

LengthInv ==
  \A l \in DOMAIN levels :
    /\ at # "destroy" => Len(levels[l].runs) = RunsThere(l)
    /\ Len(levels[l].runs) <= NumRuns
    /\ \A r \in DOMAIN levels[l].runs : r > levels[l].active => At(l, r).writes = {}

FullTo(d) == \A l \in 1..d : levels[l].active = NumRuns

\* Where the thread that works on the files is.
PlaceInv ==
  /\ at \in {"none", "construct", "idle", "descend", "add_runs", "free", "rename", "create", "add", "destroy"}
  /\ depth \in Nat /\ i \in 0..NumRuns
  /\ at = "none" => levels = << >> /\ depth = 0
  /\ at # "none" => Len(levels) >= 1
  /\ at \in {"none", "idle", "destroy"} => depth = 0 /\ toMerge = {}
  /\ at = "construct" => /\ depth + 1 = Len(levels) /\ levels[depth + 1].active = 0 /\ FullTo(depth)
                         /\ depth = 0 => toMerge = {}
  /\ at = "descend" => depth \in 1..Len(levels) /\ FullTo(depth)
  /\ at = "add_runs" =>
       depth \in 1..Len(levels) - 1 /\ FullTo(depth) /\ levels[depth + 1].active < NumRuns
  /\ at = "free" =>
       /\ depth \in 1..Len(levels) - 1 /\ FullTo(depth) /\ i \in 0..MergeSize
       /\ levels[depth + 1].active >= 1
       /\ \A r \in 1..MergeSize - i : At(depth, r).writes \subseteq At(depth + 1, levels[depth + 1].active).writes
  /\ at \in {"rename", "create"} =>
       /\ depth \in 1..Len(levels) - 1 /\ FullTo(depth - 1)
       /\ levels[depth].active = NumRuns - MergeSize
  /\ at = "rename" => i \in 0..NumRuns - MergeSize
  /\ at = "create" => i \in NumRuns - MergeSize..NumRuns
  /\ at = "add" => depth = 0 /\ levels[1].active < NumRuns

\* The run s of level m is about to be deleted, and the run r of level l was made of it.
MergedInto(l, r, m, s) ==
  at = "free" /\ m = depth /\ l = depth + 1 /\ r = levels[l].active /\ s <= MergeSize - i

\* The runs hold the writes in the order of their levels and places; then come those
\* the merge thread has, then those in the buffer.
AgeInv ==
  /\ \A l, m \in DOMAIN levels : \A r \in DOMAIN levels[l].runs, s \in DOMAIN levels[m].runs :
       l > m \/ (l = m /\ r < s) =>
         MergedInto(l, r, m, s) \/ \A x \in At(l, r).writes, y \in At(m, s).writes : x < y
  /\ \A l \in DOMAIN levels : \A r \in DOMAIN levels[l].runs :
       \A x \in At(l, r).writes, y \in toMerge \union buffer : x < y
  /\ \A x \in toMerge, y \in buffer : x < y

\* The writes of this process.
InRuns == UNION {UNION {At(l, r).writes : r \in DOMAIN levels[l].runs} : l \in DOMAIN levels}

KeepInv == mpc \in {"open", "line", "load"} => before.writes + 1..writes \subseteq buffer \union toMerge \union InRuns

\* Where main is, and what that says of the tree.
MainInv ==
  /\ mpc \in {"off", "construct", "open", "line", "load", "destroy", "returned"}
  /\ args \in 0..MaxArgs /\ file \in Nat /\ file <= args + 1
  /\ lines \in 0..MaxLines /\ pairs \in 0..MaxPairs
  /\ writes \in Nat /\ starts \in 0..MaxStarts
  /\ before.writes \in 0..writes
  /\ toMerge \subseteq 1..writes /\ buffer \subseteq 1..writes
  /\ mpc \in {"off", "returned"} => at = "none"
  /\ mpc \in {"off", "returned", "construct"} => file = 0
  /\ mpc = "construct" => (at = "idle" \/ (at = "construct" /\ depth = 0)) /\ writes = before.writes
  /\ mpc \in {"open", "line", "load"} => at \notin {"none", "destroy"} /\ ~ (at = "construct" /\ depth = 0)
  /\ mpc = "destroy" => at \in {"none", "destroy"}
  /\ mpc = "line" \/ mpc = "load" => args = 1 \/ file \in 1..args
  /\ mpc = "open" => file \in 1..args + 1

FilesInv == LevelTypes /\ DirInv /\ OwnInv /\ ForeignInv

PlacesInv == NameInv /\ LengthInv /\ PlaceInv

ProgramInv == FilesInv /\ PlacesInv /\ AgeInv /\ KeepInv /\ MainInv

----------------------------------------------------------------------------
(* The operators on the directory and on the levels *)

\* There is always a file number that is not used.
LEMMA FreeFileIs == ASSUME IsFiniteSet(DOMAIN data) PROVE FreeFile \in Nat /\ FreeFile \notin DOMAIN data
<1> DEFINE n == Cardinality(DOMAIN data)
           S == (1..n + 1) \ DOMAIN data
<1>1. n \in Nat
  BY FS_CardinalityType
<1>2. S # {}
  <2> SUFFICES ASSUME S = {} PROVE FALSE
    OBVIOUS
  <2>1. 1..n + 1 \subseteq DOMAIN data
    OBVIOUS
  <2>2. Cardinality(1..n + 1) <= n
    BY <2>1, FS_Subset
  <2>3. Cardinality(1..n + 1) = n + 1
    <3> HIDE DEF n
    <3>1. n + 1 \in Int /\ 1 \in Int /\ ~ (1 > n + 1) /\ (n + 1) - 1 + 1 = n + 1
      BY <1>1
    <3> QED
      BY <3>1, FS_Interval
  <2> QED
    BY <1>1, <2>2, <2>3
<1>3. S \in SUBSET Nat
  BY <1>1
<1>4. Min(S) \in S
  BY <1>2, <1>3, MinOfNats
<1> QED
  BY <1>3, <1>4 DEF FreeFile

\* The files of a directory and of a tree whose runs are all in it.
LEMMA Settled ==
  ASSUME NEW d, NEW lvls, NEW fs, fs = Range(d), fs \subseteq DOMAIN data,
         \A l \in DOMAIN lvls : \A r \in DOMAIN lvls[l].runs : lvls[l].runs[r].file \in fs
  PROVE  /\ DOMAIN Settle(data, d, lvls) = fs
         /\ \A f \in fs : Settle(data, d, lvls)[f] = data[f]
<1>1. FilesOf(d, lvls) = fs
  <2>2. ASSUME NEW l \in ToSet(lvls), NEW r \in ToSet(l.runs) PROVE r.file \in fs
    BY <2>2 DEF ToSet
  <2> QED
    BY <2>2 DEF FilesOf
<1> QED
  BY <1>1 DEF Settle, Restrict

\* A run of a level, by its place.
LEMMA PlaceTypes ==
  ASSUME LevelTypes, NEW l \in DOMAIN levels
  PROVE  /\ l \in Nat /\ l >= 1 /\ l <= Len(levels) /\ Len(levels) \in Nat /\ DOMAIN levels = 1..Len(levels)
         /\ levels[l] \in LevelRec
         /\ levels[l].runs \in Seq(RunRec) /\ levels[l].active \in 0..NumRuns
         /\ Len(levels[l].runs) \in Nat /\ DOMAIN levels[l].runs = 1..Len(levels[l].runs)
         /\ \A r \in DOMAIN levels[l].runs : At(l, r) \in RunRec /\ r \in Nat
<1>1. levels \in Seq(LevelRec) /\ levels[l] \in LevelRec /\ DOMAIN levels = 1..Len(levels) /\ Len(levels) \in Nat
  BY DEF LevelTypes
<1>2. levels[l].runs \in Seq(RunRec) /\ levels[l].active \in 0..NumRuns
  BY <1>1 DEF LevelRec
<1> QED
  BY <1>1, <1>2 DEF At

\* Level l has now the runs rs, and a of them are active.
LevelDone(l, rs, a) ==
  /\ LevelTypes' /\ DOMAIN levels' = DOMAIN levels /\ Len(levels') = Len(levels)
  /\ levels'[l].runs = rs /\ levels'[l].active = a
  /\ \A m \in DOMAIN levels : m # l => levels'[m] = levels[m]

\* A level with other runs, or another number of active ones.
LEMMA LevelSet ==
  ASSUME LevelTypes, NEW l \in DOMAIN levels, NEW rs \in Seq(RunRec), NEW a \in 0..NumRuns,
         levels' = [levels EXCEPT ![l] = [runs |-> rs, active |-> a]]
  PROVE  LevelDone(l, rs, a)
<1>1. PICK new \in LevelRec : new = [runs |-> rs, active |-> a]
  BY DEF LevelRec
<1>2. levels \in Seq(LevelRec) /\ levels' = [levels EXCEPT ![l] = new]
  BY <1>1 DEF LevelTypes
<1>3. /\ levels' \in Seq(LevelRec) /\ DOMAIN levels' = DOMAIN levels /\ levels'[l] = new
      /\ Len(levels') = Len(levels)
      /\ \A m \in DOMAIN levels : m # l => levels'[m] = levels[m]
  BY <1>2
<1> QED
  BY <1>1, <1>3 DEF LevelTypes, LevelDone

\* A level is its runs and the number of active ones.
LEMMA LevelIs ==
  ASSUME LevelTypes, NEW l \in DOMAIN levels
  PROVE  levels[l] = [runs |-> levels[l].runs, active |-> levels[l].active]
  BY PlaceTypes DEF LevelRec

\* A level with other runs.
LEMMA RunsSet ==
  ASSUME LevelTypes, NEW l \in DOMAIN levels, NEW rs
  PROVE  [levels EXCEPT ![l].runs = rs] = [levels EXCEPT ![l] = [runs |-> rs, active |-> levels[l].active]]
<1>1. levels[l] = [runs |-> levels[l].runs, active |-> levels[l].active]
  BY LevelIs
<1>2. [levels[l] EXCEPT !.runs = rs] = [runs |-> rs, active |-> levels[l].active]
  BY <1>1
<1> QED
  BY <1>2

\* The file that the name of a new run leads to.
FileFor(n) == IF n \in DOMAIN dir THEN dir[n] ELSE FreeFile

\* Level l has a new run at place k, with the name n, and the file f is empty.
NewRunDone(l, n, f, k) ==
  /\ f \in Nat
  /\ DOMAIN dir' = DOMAIN dir \union {n} /\ dir'[n] = f
  /\ \A m \in DOMAIN dir : m # n => dir'[m] = dir[m]
  /\ (n \in DOMAIN dir /\ f = dir[n]) \/ (n \notin DOMAIN dir /\ f \notin DOMAIN data)
  /\ DOMAIN data' = DOMAIN data \union {f} /\ data'[f] = {}
  /\ \A g \in DOMAIN data : g # f => data'[g] = data[g]
  /\ Len(levels'[l].runs) = k /\ levels'[l].runs[k] = Run(n, f, {})
  /\ DOMAIN levels'[l].runs = DOMAIN levels[l].runs \union {k}
  /\ \A s \in DOMAIN levels[l].runs : levels'[l].runs[s] = levels[l].runs[s] /\ s # k
  /\ DOMAIN levels' = DOMAIN levels /\ levels'[l].active = levels[l].active
  /\ \A m \in DOMAIN levels : m # l => levels'[m] = levels[m]
  /\ LevelTypes' /\ i' = i + 1

\* What NewRun does to the names, the files and the runs.
LEMMA NewRunIs ==
  ASSUME LevelTypes, DirInv, NEW l \in DOMAIN levels, NEW n \in Names, n = <<l, i>>, NewRun(l),
         NEW k, k = Len(levels[l].runs) + 1
  PROVE  \E f : NewRunDone(l, n, f, k)
<1>1. PICK f : f = FileFor(n)
  OBVIOUS
<1>2. /\ dir' = Put(dir, n, f) /\ data' = Put(data, f, {}) /\ i' = i + 1
      /\ levels' = [levels EXCEPT ![l].runs = Append(@, Run(n, f, {}))]
  BY <1>1 DEF NewRun, Opened, FileFor
<1>3. f \in Nat /\ ((n \in DOMAIN dir /\ f = dir[n]) \/ (n \notin DOMAIN dir /\ f \notin DOMAIN data))
  BY <1>1, FreeFileIs DEF DirInv, FileFor
<1>4. levels[l] \in LevelRec /\ levels[l].runs \in Seq(RunRec) /\ levels \in Seq(LevelRec)
  BY PlaceTypes DEF LevelTypes
<1>5. Run(n, f, {}) \in RunRec
  BY <1>3 DEF Run, RunRec
<1>6. Append(levels[l].runs, Run(n, f, {})) \in Seq(RunRec) /\ levels[l].active \in 0..NumRuns
  BY <1>4, <1>5, PlaceTypes
<1>7. PICK rs \in Seq(RunRec), a \in 0..NumRuns : rs = Append(levels[l].runs, Run(n, f, {})) /\ a = levels[l].active
  BY <1>6
<1>8. levels' = [levels EXCEPT ![l] = [runs |-> rs, active |-> a]]
  <2>1. levels' = [levels EXCEPT ![l].runs = rs]
    BY <1>2, <1>7, Zenon
  <2> QED
    BY <1>7, <2>1, RunsSet
<1>9. /\ LevelTypes' /\ DOMAIN levels' = DOMAIN levels
      /\ levels'[l].runs = Append(levels[l].runs, Run(n, f, {})) /\ levels'[l].active = levels[l].active
      /\ \A m \in DOMAIN levels : m # l => levels'[m] = levels[m]
  <2>1. /\ LevelTypes' /\ DOMAIN levels' = DOMAIN levels
        /\ levels'[l].runs = rs /\ levels'[l].active = a
        /\ \A m \in DOMAIN levels : m # l => levels'[m] = levels[m]
    BY <1>8, LevelSet DEF LevelDone
  <2> QED
    BY <1>7, <2>1
<1>10. /\ DOMAIN dir' = DOMAIN dir \union {n} /\ dir'[n] = f
       /\ \A m \in DOMAIN dir : m # n => dir'[m] = dir[m]
  <2>1. /\ DOMAIN Put(dir, n, f) = DOMAIN dir \union {n} /\ Put(dir, n, f)[n] = f
        /\ \A m \in DOMAIN dir : m # n => Put(dir, n, f)[m] = dir[m]
    BY DEF Put
  <2> QED
    BY <1>2, <2>1
<1>11. /\ DOMAIN data' = DOMAIN data \union {f} /\ data'[f] = {}
       /\ \A g \in DOMAIN data : g # f => data'[g] = data[g]
  <2>1. /\ DOMAIN Put(data, f, {}) = DOMAIN data \union {f} /\ Put(data, f, {})[f] = {}
        /\ \A g \in DOMAIN data : g # f => Put(data, f, {})[g] = data[g]
    BY DEF Put
  <2> QED
    BY <1>2, <2>1
<1>12. /\ Len(levels'[l].runs) = k /\ levels'[l].runs[k] = Run(n, f, {})
       /\ DOMAIN levels'[l].runs = DOMAIN levels[l].runs \union {k}
       /\ \A s \in DOMAIN levels[l].runs : levels'[l].runs[s] = levels[l].runs[s] /\ s # k
  BY <1>4, <1>9
<1>13. NewRunDone(l, n, f, k)
  BY <1>2, <1>3, <1>9, <1>10, <1>11, <1>12 DEF NewRunDone
<1> QED
  BY <1>13

\* No two runs have the same name.
Apart ==
  \A l, m \in DOMAIN levels : \A r \in DOMAIN levels[l].runs, s \in DOMAIN levels[m].runs :
    At(l, r).name = At(m, s).name => l = m /\ r = s

\* The first run of level l, whose name is n, has been deleted.
DeleteRunDone(l, n) ==
  /\ DOMAIN dir' = DOMAIN dir \ {n} /\ \A m \in DOMAIN dir' : dir'[m] = dir[m]
  /\ DOMAIN data' = Range(dir') /\ \A f \in DOMAIN data' : data'[f] = data[f]
  /\ LevelTypes' /\ DOMAIN levels' = DOMAIN levels
  /\ levels'[l].runs = Tail(levels[l].runs) /\ levels'[l].active = levels[l].active
  /\ \A m \in DOMAIN levels : m # l => levels'[m] = levels[m]

\* What DeleteRun does.
LEMMA DeleteRunIs ==
  ASSUME LevelTypes, DirInv, OwnInv, Apart, NEW l \in DOMAIN levels, levels[l].runs # << >>, DeleteRun(l),
         NEW n, n = At(l, 1).name
  PROVE  DeleteRunDone(l, n)
<1>1. /\ dir' = Removed(dir, n) /\ data' = Settle(data, dir', levels')
      /\ levels' = [levels EXCEPT ![l].runs = Tail(@)]
  <2>1. Head(levels[l].runs).name = n
    BY PlaceTypes DEF At
  <2> QED
    BY <2>1 DEF DeleteRun
<1>2. DOMAIN dir' = DOMAIN dir \ {n} /\ \A m \in DOMAIN dir' : dir'[m] = dir[m]
  BY <1>1 DEF Removed, Restrict
<1>3. PICK rs \in Seq(RunRec), a \in 0..NumRuns : rs = Tail(levels[l].runs) /\ a = levels[l].active
  <2>1. levels[l].runs \in Seq(RunRec) /\ levels[l].active \in 0..NumRuns
    BY PlaceTypes
  <2>2. Tail(levels[l].runs) \in Seq(RunRec)
    BY <2>1
  <2> QED
    BY <2>1, <2>2
<1>4. levels' = [levels EXCEPT ![l] = [runs |-> rs, active |-> a]]
  <2>1. levels' = [levels EXCEPT ![l].runs = rs]
    BY <1>1, <1>3, Zenon
  <2> QED
    BY <1>3, <2>1, RunsSet
<1>5. /\ LevelTypes' /\ DOMAIN levels' = DOMAIN levels
      /\ levels'[l].runs = Tail(levels[l].runs) /\ levels'[l].active = levels[l].active
      /\ \A m \in DOMAIN levels : m # l => levels'[m] = levels[m]
  <2>1. /\ LevelTypes' /\ DOMAIN levels' = DOMAIN levels
        /\ levels'[l].runs = rs /\ levels'[l].active = a
        /\ \A m \in DOMAIN levels : m # l => levels'[m] = levels[m]
    BY <1>4, LevelSet DEF LevelDone
  <2> QED
    BY <1>3, <2>1
<1>6. ASSUME NEW m \in DOMAIN levels', NEW r \in DOMAIN levels'[m].runs
      PROVE  levels'[m].runs[r].file \in Range(dir')
  <2>1. PICK s \in DOMAIN levels[m].runs : levels'[m].runs[r] = At(m, s) /\ (m = l => s # 1)
    <3>1. CASE m # l
      BY <1>5, <1>6, <3>1 DEF At
    <3>2. CASE m = l
      <4>1. levels[l].runs \in Seq(RunRec) /\ levels'[l].runs = Tail(levels[l].runs)
        BY <1>5, PlaceTypes
      <4>2. r \in 1..Len(levels[l].runs) - 1 /\ levels'[l].runs[r] = levels[l].runs[r + 1]
        BY <1>6, <3>2, <4>1
      <4> QED
        BY <3>2, <4>1, <4>2 DEF At
    <3> QED
      BY <3>1, <3>2
  <2>2. At(m, s).name # n
    <3>1. 1 \in DOMAIN levels[l].runs
      BY PlaceTypes
    <3> QED
      BY <1>5, <2>1, <3>1 DEF Apart
  <2>3. At(m, s).name \in DOMAIN dir' /\ dir'[At(m, s).name] = At(m, s).file
    BY <1>2, <1>5, <2>1, <2>2 DEF OwnInv
  <2> QED
    BY <2>1, <2>3 DEF Range
<1>7. Range(dir') \subseteq DOMAIN data
  BY <1>2 DEF DirInv, Range
<1>8. /\ DOMAIN Settle(data, dir', levels') = Range(dir')
      /\ \A f \in DOMAIN Settle(data, dir', levels') : Settle(data, dir', levels')[f] = data[f]
  <2>1. PICK d, lvls, fs : d = dir' /\ lvls = levels' /\ fs = Range(dir')
    OBVIOUS
  <2>2. /\ fs = Range(d) /\ fs \subseteq DOMAIN data
        /\ \A m \in DOMAIN lvls : \A r \in DOMAIN lvls[m].runs : lvls[m].runs[r].file \in fs
    BY <1>6, <1>7, <2>1
  <2>3. DOMAIN Settle(data, d, lvls) = fs /\ \A f \in fs : Settle(data, d, lvls)[f] = data[f]
    BY <2>2, Settled
  <2> QED
    BY <2>1, <2>3
<1> QED
  BY <1>1, <1>2, <1>5, <1>8 DEF DeleteRunDone

\* Run r of level l has got the writes w and is active.
FillRunDone(l, r, w) ==
  /\ DOMAIN data' = DOMAIN data /\ data'[At(l, r).file] = w
  /\ \A f \in DOMAIN data : f # At(l, r).file => data'[f] = data[f]
  /\ LevelTypes' /\ DOMAIN levels' = DOMAIN levels /\ levels'[l].active = r
  /\ DOMAIN levels'[l].runs = DOMAIN levels[l].runs /\ Len(levels'[l].runs) = Len(levels[l].runs)
  /\ levels'[l].runs[r] = Run(At(l, r).name, At(l, r).file, w)
  /\ \A s \in DOMAIN levels[l].runs : s # r => levels'[l].runs[s] = levels[l].runs[s]
  /\ \A m \in DOMAIN levels : m # l => levels'[m] = levels[m]

\* What FillRun does.
LEMMA FillRunIs ==
  ASSUME LevelTypes, OwnInv, DirInv, NEW l \in DOMAIN levels, NEW r \in DOMAIN levels[l].runs,
         r = levels[l].active + 1, r <= NumRuns, NEW w \in SUBSET Nat, FillRun(l, w)
  PROVE  FillRunDone(l, r, w)
<1>1. /\ data' = [data EXCEPT ![levels[l].runs[r].file] = w]
      /\ levels' = [levels EXCEPT ![l].runs[r].writes = w, ![l].active = r]
  BY Zenon DEF FillRun
<1>2. levels[l].runs \in Seq(RunRec) /\ At(l, r) \in RunRec /\ At(l, r) = levels[l].runs[r] /\ r \in 0..NumRuns
  BY PlaceTypes, Parameters DEF At
<1>3. At(l, r).file \in DOMAIN data
  BY DEF OwnInv, DirInv, Range
<1>4. PICK new \in RunRec : new = Run(At(l, r).name, At(l, r).file, w)
  BY <1>2 DEF RunRec, Run
<1>5. PICK rs \in Seq(RunRec), a \in 0..NumRuns : rs = [levels[l].runs EXCEPT ![r] = new] /\ a = r
  <2>1. [levels[l].runs EXCEPT ![r] = new] \in Seq(RunRec)
    BY <1>2, <1>4
  <2> QED
    BY <1>2, <2>1
<1>6. levels' = [levels EXCEPT ![l] = [runs |-> rs, active |-> a]]
  <2> DEFINE mid == [levels EXCEPT ![l].runs = rs]
  <2>1. [levels[l].runs[r] EXCEPT !.writes = w] = new
    <3>1. levels[l].runs[r] = [name |-> levels[l].runs[r].name, file |-> levels[l].runs[r].file,
                               writes |-> levels[l].runs[r].writes]
      BY <1>2 DEF RunRec
    <3> QED
      BY <1>2, <1>4, <3>1 DEF Run
  <2>2. [levels EXCEPT ![l].runs[r].writes = w] = mid
    BY <1>5, <2>1, Zenon
  <2>3. levels' = [mid EXCEPT ![l].active = a]
    BY <1>1, <1>5, <2>2, Zenon
  <2>4. mid = [levels EXCEPT ![l] = [runs |-> rs, active |-> levels[l].active]]
    BY RunsSet
  <2> HIDE DEF mid
  <2>5. mid[l] = [runs |-> rs, active |-> levels[l].active]
    BY <2>4
  <2>6. [mid[l] EXCEPT !.active = a] = [runs |-> rs, active |-> a]
    BY <2>5
  <2>7. levels' = [mid EXCEPT ![l] = [runs |-> rs, active |-> a]]
    BY <2>3, <2>6, Zenon
  <2> QED
    BY <2>4, <2>7
<1>7. /\ LevelTypes' /\ DOMAIN levels' = DOMAIN levels /\ levels'[l].runs = rs /\ levels'[l].active = r
      /\ \A m \in DOMAIN levels : m # l => levels'[m] = levels[m]
  BY <1>5, <1>6, LevelSet DEF LevelDone
<1>8. /\ DOMAIN rs = DOMAIN levels[l].runs /\ rs[r] = new /\ Len(rs) = Len(levels[l].runs)
      /\ \A s \in DOMAIN levels[l].runs : s # r => rs[s] = levels[l].runs[s]
  BY <1>2, <1>5
<1>9. /\ DOMAIN data' = DOMAIN data /\ data'[At(l, r).file] = w
      /\ \A f \in DOMAIN data : f # At(l, r).file => data'[f] = data[f]
  BY <1>1, <1>2, <1>3
<1> QED
  BY <1>4, <1>7, <1>8, <1>9 DEF FillRunDone

\* Run r of level l, whose name was old, is called new.
RenameRunDone(l, r, old, new) ==
  /\ DOMAIN dir' = (DOMAIN dir \ {old}) \union {new} /\ dir'[new] = dir[old]
  /\ \A m \in DOMAIN dir : m # old /\ m # new => dir'[m] = dir[m]
  /\ DOMAIN data' = Range(dir') /\ \A f \in DOMAIN data' : data'[f] = data[f]
  /\ LevelTypes' /\ DOMAIN levels' = DOMAIN levels /\ levels'[l].active = levels[l].active
  /\ DOMAIN levels'[l].runs = DOMAIN levels[l].runs /\ Len(levels'[l].runs) = Len(levels[l].runs)
  /\ levels'[l].runs[r] = Run(new, At(l, r).file, At(l, r).writes)
  /\ \A s \in DOMAIN levels[l].runs : s # r => levels'[l].runs[s] = levels[l].runs[s]
  /\ \A m \in DOMAIN levels : m # l => levels'[m] = levels[m]

\* What RenameRun does.
LEMMA RenameRunIs ==
  ASSUME LevelTypes, DirInv, OwnInv, Apart, NEW l \in DOMAIN levels, l = depth, NEW r \in DOMAIN levels[l].runs,
         r = i + 1, i \in Nat, NEW new \in Names, new = <<l, i>>,
         \A m \in DOMAIN levels : \A s \in DOMAIN levels[m].runs : At(m, s).name # new,
         RenameRun, NEW old, old = At(l, r).name
  PROVE  RenameRunDone(l, r, old, new)
<1>1. /\ dir' = Renamed(dir, old, new) /\ data' = Settle(data, dir', levels')
      /\ levels' = [levels EXCEPT ![l].runs[r].name = new]
  <2>1. RunToRename + 1 = r /\ RunToRename = i
    BY DEF RunToRename
  <2>2. levels[l].runs[r].name = old
    BY DEF At
  <2> QED
    BY <2>1, <2>2, Zenon DEF RenameRun
<1>2. /\ DOMAIN dir' = (DOMAIN dir \ {old}) \union {new} /\ dir'[new] = dir[old]
      /\ \A m \in DOMAIN dir : m # old /\ m # new => dir'[m] = dir[m]
  BY <1>1 DEF Renamed, Put, Restrict
<1>3. /\ levels[l].runs \in Seq(RunRec) /\ levels[l].active \in 0..NumRuns
      /\ At(l, r) \in RunRec /\ At(l, r) = levels[l].runs[r]
  BY PlaceTypes DEF At
<1>4. PICK run \in RunRec : run = Run(new, At(l, r).file, At(l, r).writes)
  BY <1>3 DEF RunRec, Run
<1>5. PICK rs \in Seq(RunRec), a \in 0..NumRuns : rs = [levels[l].runs EXCEPT ![r] = run] /\ a = levels[l].active
  <2>1. [levels[l].runs EXCEPT ![r] = run] \in Seq(RunRec)
    BY <1>3, <1>4
  <2> QED
    BY <1>3, <2>1
<1>6. levels' = [levels EXCEPT ![l] = [runs |-> rs, active |-> a]]
  <2>1. [levels[l].runs[r] EXCEPT !.name = new] = run
    <3>1. levels[l].runs[r] = [name |-> levels[l].runs[r].name, file |-> levels[l].runs[r].file,
                               writes |-> levels[l].runs[r].writes]
      BY <1>3 DEF RunRec
    <3>2. PICK n, f, w, rec : levels[l].runs[r] = rec /\ rec = [name |-> n, file |-> f, writes |-> w]
      BY <3>1
    <3>3. [[name |-> n, file |-> f, writes |-> w] EXCEPT !.name = new]
            = [name |-> new, file |-> f, writes |-> w]
      OBVIOUS
    <3>4. rec.file = At(l, r).file /\ rec.writes = At(l, r).writes /\ rec.file = f /\ rec.writes = w
      BY <1>3, <3>2
    <3> QED
      BY <1>4, <3>2, <3>3, <3>4 DEF Run
  <2>2. levels' = [levels EXCEPT ![l].runs = rs]
    BY <1>1, <1>5, <2>1, Zenon
  <2> QED
    BY <1>5, <2>2, RunsSet
<1>7. /\ LevelTypes' /\ DOMAIN levels' = DOMAIN levels /\ levels'[l].runs = rs /\ levels'[l].active = a
      /\ \A m \in DOMAIN levels : m # l => levels'[m] = levels[m]
  BY <1>6, LevelSet DEF LevelDone
<1>8. /\ DOMAIN rs = DOMAIN levels[l].runs /\ rs[r] = run /\ Len(rs) = Len(levels[l].runs)
      /\ \A s \in DOMAIN levels[l].runs : s # r => rs[s] = levels[l].runs[s]
  BY <1>3, <1>5
<1>9. ASSUME NEW m \in DOMAIN levels', NEW s \in DOMAIN levels'[m].runs
      PROVE  levels'[m].runs[s].file \in Range(dir')
  <2>1. s \in DOMAIN levels[m].runs /\ m \in DOMAIN levels /\ levels'[m].runs[s].file = At(m, s).file
    <3>1. CASE m = l /\ s = r
      BY <1>4, <1>7, <1>8, <1>9, <3>1 DEF Run
    <3>2. CASE ~ (m = l /\ s = r)
      BY <1>7, <1>8, <1>9, <3>2 DEF At
    <3> QED
      BY <3>1, <3>2
  <2>2. At(m, s).name \in DOMAIN dir /\ dir[At(m, s).name] = At(m, s).file /\ At(m, s).name # new
    BY <2>1 DEF OwnInv
  <2>3. CASE At(m, s).name = old
    BY <1>2, <2>1, <2>2, <2>3 DEF Range
  <2>4. CASE At(m, s).name # old
    BY <1>2, <2>1, <2>2, <2>4 DEF Range
  <2> QED
    BY <2>3, <2>4
<1>10. Range(dir') \subseteq DOMAIN data
  <2>1. old \in DOMAIN dir
    BY DEF OwnInv
  <2> QED
    BY <1>2, <2>1 DEF DirInv, Range
<1>11. DOMAIN data' = Range(dir') /\ \A f \in DOMAIN data' : data'[f] = data[f]
  <2>1. PICK d, lvls, fs : d = dir' /\ lvls = levels' /\ fs = Range(dir')
    OBVIOUS
  <2>2. /\ fs = Range(d) /\ fs \subseteq DOMAIN data
        /\ \A m \in DOMAIN lvls : \A s \in DOMAIN lvls[m].runs : lvls[m].runs[s].file \in fs
    BY <1>9, <1>10, <2>1
  <2>3. DOMAIN Settle(data, d, lvls) = fs /\ \A f \in fs : Settle(data, d, lvls)[f] = data[f]
    BY <2>2, Settled
  <2> QED
    BY <1>1, <2>1, <2>3
<1> QED
  BY <1>2, <1>4, <1>5, <1>7, <1>8, <1>11 DEF RenameRunDone

----------------------------------------------------------------------------
(* Names *)

\* The names of the runs of a tree differ.
LEMMA NamesApart == ASSUME LevelTypes, NameInv, PlaceInv PROVE Apart
<1> SUFFICES ASSUME NEW l \in DOMAIN levels, NEW m \in DOMAIN levels,
                    NEW r \in DOMAIN levels[l].runs, NEW s \in DOMAIN levels[m].runs,
                    At(l, r).name = At(m, s).name
             PROVE  l = m /\ r = s
  BY DEF Apart
<1>1. At(l, r).name = <<l, r - 1 + Ahead(l, r)>> /\ At(m, s).name = <<m, s - 1 + Ahead(m, s)>>
  BY DEF NameInv
<1>2. l = m /\ r - 1 + Ahead(l, r) = s - 1 + Ahead(l, s)
  <2>1. PICK a, b : a = r - 1 + Ahead(l, r) /\ b = s - 1 + Ahead(m, s)
    OBVIOUS
  <2>2. <<l, a>> = <<m, b>>
    BY <1>1, <2>1
  <2> QED
    BY <2>1, <2>2
<1>3. r \in Nat /\ s \in Nat /\ Len(levels[l].runs) \in Nat /\ NumRuns \in Nat /\ MergeSize \in Nat /\ i \in Nat
  BY <1>2, PlaceTypes, Parameters DEF PlaceInv
<1>4. r = s
  BY <1>2, <1>3 DEF Ahead
<1> QED
  BY <1>2, <1>4


----------------------------------------------------------------------------
(* Files *)

\* Level l has the new run k, which is called n and is empty.
Grown(l, n, k) ==
  /\ DOMAIN levels' = DOMAIN levels /\ \A m \in DOMAIN levels : m # l => levels'[m] = levels[m]
  /\ Len(levels'[l].runs) = k /\ levels'[l].active = levels[l].active
  /\ \A s \in DOMAIN levels[l].runs : s \in DOMAIN levels'[l].runs /\ At(l, s)' = At(l, s)
  /\ At(l, k)'.name = n /\ At(l, k)'.writes = {}
  /\ \A s \in DOMAIN levels'[l].runs : s \in DOMAIN levels[l].runs \/ s = k

\* A new run has a name and a file of its own, and what the file had is gone.
LEMMA NewRunFiles ==
  ASSUME FilesInv, NEW l \in DOMAIN levels, NEW n \in Names, n = <<l, i>>,
         \A m \in DOMAIN levels : \A s \in DOMAIN levels[m].runs : At(m, s).name # n,
         NewRun(l), UNCHANGED <<writes, before, mpc>>, NEW top, top = Len(levels[l].runs) + 1
  PROVE  FilesInv' /\ i' = i + 1 /\ Grown(l, n, top)
<1>1. LevelTypes /\ DirInv
  BY DEF FilesInv
<1>2. PICK f : NewRunDone(l, n, f, top)
  BY <1>1, NewRunIs
<1>3. /\ f \in Nat
      /\ DOMAIN dir' = DOMAIN dir \union {n} /\ dir'[n] = f
      /\ \A m \in DOMAIN dir : m # n => dir'[m] = dir[m]
      /\ (n \in DOMAIN dir /\ f = dir[n]) \/ (n \notin DOMAIN dir /\ f \notin DOMAIN data)
      /\ DOMAIN data' = DOMAIN data \union {f} /\ data'[f] = {}
      /\ \A g \in DOMAIN data : g # f => data'[g] = data[g]
      /\ Len(levels'[l].runs) = top /\ levels'[l].runs[top] = Run(n, f, {})
      /\ DOMAIN levels'[l].runs = DOMAIN levels[l].runs \union {top}
      /\ \A s \in DOMAIN levels[l].runs : levels'[l].runs[s] = levels[l].runs[s] /\ s # top
      /\ DOMAIN levels' = DOMAIN levels /\ levels'[l].active = levels[l].active
      /\ \A m \in DOMAIN levels : m # l => levels'[m] = levels[m]
      /\ LevelTypes' /\ i' = i + 1
  BY <1>2 DEF NewRunDone
<1>4. levels[l].runs \in Seq(RunRec) /\ Len(levels[l].runs) \in Nat
  BY PlaceTypes DEF FilesInv
<1>5. /\ Len(levels'[l].runs) = top /\ levels'[l].runs[top] = Run(n, f, {})
      /\ DOMAIN levels'[l].runs = DOMAIN levels[l].runs \union {top}
      /\ \A s \in DOMAIN levels[l].runs : levels'[l].runs[s] = levels[l].runs[s] /\ s # top
  BY <1>3
<1>6. At(l, top)' = Run(n, f, {})
  BY <1>5 DEF At
<1>7. /\ \A m \in DOMAIN levels : \A s \in DOMAIN levels[m].runs :
           s \in DOMAIN levels'[m].runs /\ At(m, s)' = At(m, s)
      /\ \A m \in DOMAIN levels' : \A s \in DOMAIN levels'[m].runs :
           (m = l /\ s = top) \/ (m \in DOMAIN levels /\ s \in DOMAIN levels[m].runs /\ At(m, s)' = At(m, s))
  BY <1>3, <1>5 DEF At
<1>8. Run(n, f, {}).name = n /\ Run(n, f, {}).file = f /\ Run(n, f, {}).writes = {}
  BY DEF Run
<1>9. \A m \in DOMAIN dir : m # n => dir[m] # f /\ dir[m] \in DOMAIN data
  BY <1>3 DEF FilesInv, DirInv, Range
<1>10. DirInv'
  <2>1. \A m \in DOMAIN dir' : m \in Names /\ dir'[m] \in Nat
    BY <1>3 DEF FilesInv, DirInv
  <2>2. \A m, k \in DOMAIN dir' : dir'[m] = dir'[k] => m = k
    BY <1>3, <1>9 DEF FilesInv, DirInv
  <2>3. DOMAIN data' = Range(dir')
    <3>1. DOMAIN data = Range(dir)
      BY DEF FilesInv, DirInv
    <3>2. ASSUME NEW g \in DOMAIN data' PROVE g \in Range(dir')
      <4>1. CASE g = f
        BY <1>3, <4>1 DEF Range
      <4>2. CASE g # f
        <5>1. PICK m \in DOMAIN dir : g = dir[m]
          BY <1>3, <3>1, <3>2, <4>2 DEF Range
        <5>2. m # n
          BY <1>3, <4>2, <5>1
        <5> QED
          BY <1>3, <5>1, <5>2 DEF Range
      <4> QED
        BY <4>1, <4>2
    <3>3. ASSUME NEW m \in DOMAIN dir' PROVE dir'[m] \in DOMAIN data'
      BY <1>3, <1>9
    <3> QED
      BY <3>2, <3>3 DEF Range
  <2>4. IsFiniteSet(DOMAIN data')
    <3>1. IsFiniteSet(DOMAIN data)
      BY DEF FilesInv, DirInv
    <3> QED
      BY <1>3, <3>1, FS_AddElement
  <2>5. \A g \in DOMAIN data' : data'[g] \subseteq 1..writes'
    BY <1>3 DEF FilesInv, DirInv
  <2> QED
    BY <2>1, <2>2, <2>3, <2>4, <2>5 DEF DirInv
<1>11. ASSUME NEW m \in DOMAIN levels', NEW s \in DOMAIN levels'[m].runs
       PROVE  /\ At(m, s)'.name \in DOMAIN dir' /\ dir'[At(m, s)'.name] = At(m, s)'.file
              /\ data'[At(m, s)'.file] = At(m, s)'.writes
  <2>1. CASE m = l /\ s = top
    BY <1>3, <1>6, <1>8, <2>1
  <2>2. CASE m \in DOMAIN levels /\ s \in DOMAIN levels[m].runs /\ At(m, s)' = At(m, s)
    <3>1. /\ At(m, s).name \in DOMAIN dir /\ dir[At(m, s).name] = At(m, s).file
          /\ data[At(m, s).file] = At(m, s).writes /\ At(m, s).name # n
      BY <2>2 DEF FilesInv, OwnInv
    <3> QED
      BY <1>3, <1>9, <2>2, <3>1
  <2> QED
    BY <1>7, <1>11, <2>1, <2>2
<1>12. OwnInv'
  BY <1>11 DEF OwnInv
<1>13. ForeignInv'
  <2> SUFFICES ASSUME mpc # "off", NEW m \in DOMAIN dir'
               PROVE  \/ \E k \in DOMAIN levels' : \E s \in DOMAIN levels'[k].runs : At(k, s)'.name = m
                      \/ m \in before.names /\ data'[dir'[m]] \subseteq 1..before.writes
    BY DEF ForeignInv
  <2>1. CASE m = n
    <3>1. l \in DOMAIN levels' /\ top \in DOMAIN levels'[l].runs /\ At(l, top)'.name = m
      BY <1>3, <1>5, <1>6, <1>8, <2>1
    <3> QED
      BY <3>1
  <2>2. CASE m # n
    <3>1. /\ m \in DOMAIN dir /\ dir'[m] = dir[m] /\ data'[dir'[m]] = data[dir[m]]
      BY <1>3, <1>9, <2>2
    <3> QED
      BY <1>3, <1>7, <3>1 DEF FilesInv, ForeignInv
  <2> QED
    BY <2>1, <2>2
<1> QED
  BY <1>3, <1>5, <1>6, <1>7, <1>8, <1>10, <1>12, <1>13 DEF FilesInv, Grown

\* The first run of level l is gone, and the others are a place further down.
Shrunk(l) ==
  /\ DOMAIN levels' = DOMAIN levels /\ \A m \in DOMAIN levels : m # l => levels'[m] = levels[m]
  /\ Len(levels'[l].runs) = Len(levels[l].runs) - 1 /\ levels'[l].active = levels[l].active
  /\ \A s \in DOMAIN levels'[l].runs : s + 1 \in DOMAIN levels[l].runs /\ At(l, s)' = At(l, s + 1)

\* A deleted run takes its file with it, and no other.
LEMMA DeleteRunFiles ==
  ASSUME FilesInv, Apart, NEW l \in DOMAIN levels, levels[l].runs # << >>,
         DeleteRun(l), UNCHANGED <<writes, before, mpc>>
  PROVE  FilesInv' /\ Shrunk(l)
<1>1. LevelTypes /\ DirInv /\ OwnInv
  BY DEF FilesInv
<1>2. PICK n : n = At(l, 1).name
  OBVIOUS
<1>3. DeleteRunDone(l, n)
  BY <1>1, <1>2, DeleteRunIs
<1>4. /\ DOMAIN dir' = DOMAIN dir \ {n} /\ \A m \in DOMAIN dir' : dir'[m] = dir[m]
      /\ DOMAIN data' = Range(dir') /\ \A f \in DOMAIN data' : data'[f] = data[f]
      /\ LevelTypes' /\ DOMAIN levels' = DOMAIN levels
      /\ levels'[l].runs = Tail(levels[l].runs) /\ levels'[l].active = levels[l].active
      /\ \A m \in DOMAIN levels : m # l => levels'[m] = levels[m]
  BY <1>3 DEF DeleteRunDone
<1>5. levels[l].runs \in Seq(RunRec) /\ 1 \in DOMAIN levels[l].runs /\ Len(levels[l].runs) \in Nat
  BY <1>1, PlaceTypes
<1>6. /\ Len(levels'[l].runs) = Len(levels[l].runs) - 1
      /\ \A s \in DOMAIN levels'[l].runs : s + 1 \in DOMAIN levels[l].runs /\ levels'[l].runs[s] = levels[l].runs[s + 1]
      /\ \A s \in DOMAIN levels[l].runs : s = 1 \/ (s - 1 \in DOMAIN levels'[l].runs /\ levels'[l].runs[s - 1] = levels[l].runs[s])
      /\ \A s \in DOMAIN levels'[l].runs : s \in Nat /\ s + 1 # 1
  BY <1>4, <1>5
<1>7. Shrunk(l)
  BY <1>4, <1>6 DEF Shrunk, At
<1>8. ASSUME NEW m \in DOMAIN levels', NEW s \in DOMAIN levels'[m].runs
      PROVE  /\ At(m, s)'.name \in DOMAIN dir' /\ dir'[At(m, s)'.name] = At(m, s)'.file
             /\ data'[At(m, s)'.file] = At(m, s)'.writes
  <2>1. PICK t \in DOMAIN levels[m].runs : At(m, s)' = At(m, t) /\ ~ (m = l /\ t = 1)
    <3>1. CASE m = l
      BY <1>6, <1>8, <3>1 DEF At
    <3>2. CASE m # l
      BY <1>4, <1>8, <3>2 DEF At
    <3> QED
      BY <3>1, <3>2
  <2>2. m \in DOMAIN levels /\ At(m, t).name # n
    BY <1>2, <1>4, <1>5, <2>1 DEF Apart
  <2>3. /\ At(m, t).name \in DOMAIN dir /\ dir[At(m, t).name] = At(m, t).file
        /\ data[At(m, t).file] = At(m, t).writes
    BY <1>1, <2>1, <2>2 DEF OwnInv
  <2>4. At(m, t).name \in DOMAIN dir' /\ dir'[At(m, t).name] = At(m, t).file
    BY <1>4, <2>2, <2>3
  <2>5. At(m, t).file \in DOMAIN data'
    BY <1>4, <2>4 DEF Range
  <2> QED
    BY <1>4, <2>1, <2>3, <2>4, <2>5
<1>9. OwnInv'
  BY <1>8 DEF OwnInv
<1>10. DirInv'
  <2>1. \A m \in DOMAIN dir' : m \in Names /\ dir'[m] \in Nat
    BY <1>1, <1>4 DEF DirInv
  <2>2. \A m, k \in DOMAIN dir' : dir'[m] = dir'[k] => m = k
    BY <1>1, <1>4 DEF DirInv
  <2>3. DOMAIN data' \subseteq DOMAIN data /\ IsFiniteSet(DOMAIN data)
    BY <1>1, <1>4 DEF DirInv, Range
  <2>4. IsFiniteSet(DOMAIN data')
    BY <2>3, FS_Subset
  <2>5. \A g \in DOMAIN data' : data'[g] \subseteq 1..writes'
    BY <1>1, <1>4, <2>3 DEF DirInv
  <2> QED
    BY <1>4, <2>1, <2>2, <2>4, <2>5 DEF DirInv
<1>11. ForeignInv'
  <2> SUFFICES ASSUME mpc # "off", NEW m \in DOMAIN dir'
               PROVE  \/ \E k \in DOMAIN levels' : \E s \in DOMAIN levels'[k].runs : At(k, s)'.name = m
                      \/ m \in before.names /\ data'[dir'[m]] \subseteq 1..before.writes
    BY DEF ForeignInv
  <2>1. m \in DOMAIN dir /\ m # n /\ dir'[m] = dir[m] /\ data'[dir'[m]] = data[dir[m]]
    BY <1>4 DEF Range
  <2>2. CASE m \in before.names /\ data[dir[m]] \subseteq 1..before.writes
    BY <2>1, <2>2
  <2>3. ASSUME NEW k \in DOMAIN levels, NEW s \in DOMAIN levels[k].runs, At(k, s).name = m
        PROVE  \E t \in DOMAIN levels'[k].runs : At(k, t)'.name = m
    <3>1. CASE k = l
      BY <1>2, <1>6, <2>1, <2>3, <3>1 DEF At
    <3>2. CASE k # l
      BY <1>4, <2>3, <3>2 DEF At
    <3> QED
      BY <3>1, <3>2
  <2> QED
    BY <1>1, <1>4, <2>1, <2>2, <2>3 DEF FilesInv, ForeignInv
<1> QED
  BY <1>4, <1>7, <1>9, <1>10, <1>11 DEF FilesInv

\* Run r of level l is active and has the writes w, and nothing else has changed.
Filled(l, r, w) ==
  /\ DOMAIN levels' = DOMAIN levels /\ \A m \in DOMAIN levels : m # l => levels'[m] = levels[m]
  /\ Len(levels'[l].runs) = Len(levels[l].runs) /\ levels'[l].active = r
  /\ DOMAIN levels'[l].runs = DOMAIN levels[l].runs
  /\ \A s \in DOMAIN levels[l].runs : At(l, s)'.name = At(l, s).name /\ (s # r => At(l, s)' = At(l, s))
  /\ At(l, r)'.writes = w

\* A run that is filled keeps its name and file, and no other run has that file.
LEMMA FillRunFiles ==
  ASSUME FilesInv, Apart, NEW l \in DOMAIN levels, NEW r \in DOMAIN levels[l].runs,
         r = levels[l].active + 1, r <= NumRuns, NEW w \in SUBSET Nat, w \subseteq 1..writes, FillRun(l, w),
         UNCHANGED <<dir, writes, before, mpc>>
  PROVE  FilesInv' /\ Filled(l, r, w)
<1>1. LevelTypes /\ DirInv /\ OwnInv
  BY DEF FilesInv
<1>2. FillRunDone(l, r, w)
  BY <1>1, FillRunIs
<1>3. /\ DOMAIN data' = DOMAIN data /\ data'[At(l, r).file] = w
      /\ \A f \in DOMAIN data : f # At(l, r).file => data'[f] = data[f]
      /\ LevelTypes' /\ DOMAIN levels' = DOMAIN levels /\ levels'[l].active = r
      /\ DOMAIN levels'[l].runs = DOMAIN levels[l].runs /\ Len(levels'[l].runs) = Len(levels[l].runs)
      /\ levels'[l].runs[r] = Run(At(l, r).name, At(l, r).file, w)
      /\ \A s \in DOMAIN levels[l].runs : s # r => levels'[l].runs[s] = levels[l].runs[s]
      /\ \A m \in DOMAIN levels : m # l => levels'[m] = levels[m]
  BY <1>2 DEF FillRunDone
<1>4. At(l, r)'.name = At(l, r).name /\ At(l, r)'.file = At(l, r).file /\ At(l, r)'.writes = w
  <2>1. At(l, r)' = Run(At(l, r).name, At(l, r).file, w)
    BY <1>3 DEF At
  <2> QED
    BY <2>1 DEF Run
<1>5. \A s \in DOMAIN levels[l].runs : At(l, s)'.name = At(l, s).name /\ (s # r => At(l, s)' = At(l, s))
  BY <1>3, <1>4 DEF At
<1>6. ASSUME NEW m \in DOMAIN levels, NEW s \in DOMAIN levels[m].runs, ~ (m = l /\ s = r)
      PROVE  At(m, s).file # At(l, r).file
  <2>1. /\ At(m, s).name \in DOMAIN dir /\ dir[At(m, s).name] = At(m, s).file
        /\ At(l, r).name \in DOMAIN dir /\ dir[At(l, r).name] = At(l, r).file
    BY <1>1, <1>6 DEF OwnInv
  <2>2. At(m, s).name # At(l, r).name
    BY <1>6 DEF Apart
  <2> QED
    BY <1>1, <2>1, <2>2 DEF DirInv
<1>7. ASSUME NEW m \in DOMAIN levels', NEW s \in DOMAIN levels'[m].runs
      PROVE  /\ At(m, s)'.name \in DOMAIN dir' /\ dir'[At(m, s)'.name] = At(m, s)'.file
             /\ data'[At(m, s)'.file] = At(m, s)'.writes
             /\ s \in DOMAIN levels[m].runs /\ At(m, s)'.name = At(m, s).name
  <2>1. m \in DOMAIN levels /\ s \in DOMAIN levels[m].runs
    BY <1>3, <1>7
  <2>2. /\ At(m, s).name \in DOMAIN dir /\ dir[At(m, s).name] = At(m, s).file
        /\ data[At(m, s).file] = At(m, s).writes
    BY <1>1, <2>1 DEF OwnInv
  <2>3. CASE m = l /\ s = r
    BY <1>3, <1>4, <2>1, <2>2, <2>3
  <2>4. CASE ~ (m = l /\ s = r)
    <3>1. At(m, s)' = At(m, s)
      BY <1>3, <2>1, <2>4 DEF At
    <3>2. At(m, s).file \in DOMAIN data
      BY <1>1, <2>2 DEF DirInv, Range
    <3> QED
      BY <1>3, <1>6, <2>1, <2>2, <2>4, <3>1, <3>2
  <2> QED
    BY <2>3, <2>4
<1>8. OwnInv'
  BY <1>7 DEF OwnInv
<1>9. DirInv'
  <2>1. \A g \in DOMAIN data' : data'[g] \subseteq 1..writes'
    BY <1>1, <1>3 DEF DirInv
  <2> QED
    BY <1>1, <1>3, <2>1 DEF DirInv
<1>10. ForeignInv'
  <2> SUFFICES ASSUME mpc # "off", NEW m \in DOMAIN dir
               PROVE  \/ \E k \in DOMAIN levels' : \E s \in DOMAIN levels'[k].runs : At(k, s)'.name = m
                      \/ m \in before.names /\ data'[dir[m]] \subseteq 1..before.writes
    BY DEF ForeignInv
  <2>1. CASE dir[m] = At(l, r).file
    <3>1. m = At(l, r).name
      BY <1>1, <2>1 DEF DirInv, OwnInv
    <3> QED
      BY <1>3, <1>4, <3>1
  <2>2. CASE dir[m] # At(l, r).file
    <3>1. data'[dir[m]] = data[dir[m]]
      BY <1>1, <1>3, <2>2 DEF DirInv, Range
    <3>2. CASE m \in before.names /\ data[dir[m]] \subseteq 1..before.writes
      BY <3>1, <3>2
    <3>3. ASSUME NEW k \in DOMAIN levels, NEW s \in DOMAIN levels[k].runs, At(k, s).name = m
          PROVE  \E t \in DOMAIN levels'[k].runs : At(k, t)'.name = m
      <4>1. s \in DOMAIN levels'[k].runs
        BY <1>3, <3>3
      <4> QED
        BY <1>3, <1>7, <3>3, <4>1
    <3> QED
      BY <1>3, <3>2, <3>3 DEF FilesInv, ForeignInv
  <2> QED
    BY <2>1, <2>2
<1> QED
  BY <1>3, <1>4, <1>5, <1>8, <1>9, <1>10 DEF FilesInv, Filled

\* Run r of level l is called new, and nothing else has changed.
Named(l, r, new) ==
  /\ DOMAIN levels' = DOMAIN levels /\ \A m \in DOMAIN levels : m # l => levels'[m] = levels[m]
  /\ Len(levels'[l].runs) = Len(levels[l].runs) /\ levels'[l].active = levels[l].active
  /\ DOMAIN levels'[l].runs = DOMAIN levels[l].runs
  /\ \A s \in DOMAIN levels[l].runs : At(l, s)'.writes = At(l, s).writes /\ (s # r => At(l, s)' = At(l, s))
  /\ At(l, r)'.name = new

\* A run that is renamed keeps its file, and takes no name away from another run.
LEMMA RenameRunFiles ==
  ASSUME FilesInv, Apart, NEW l \in DOMAIN levels, l = depth, NEW r \in DOMAIN levels[l].runs,
         r = i + 1, i \in Nat, NEW new \in Names, new = <<l, i>>,
         \A m \in DOMAIN levels : \A s \in DOMAIN levels[m].runs : At(m, s).name # new,
         RenameRun, UNCHANGED <<writes, before, mpc>>
  PROVE  FilesInv' /\ Named(l, r, new)
<1>1. LevelTypes /\ DirInv /\ OwnInv
  BY DEF FilesInv
<1>2. PICK old : old = At(l, r).name
  OBVIOUS
<1>3. RenameRunDone(l, r, old, new)
  BY <1>1, <1>2, RenameRunIs
<1>4. /\ DOMAIN dir' = (DOMAIN dir \ {old}) \union {new} /\ dir'[new] = dir[old]
      /\ \A m \in DOMAIN dir : m # old /\ m # new => dir'[m] = dir[m]
      /\ DOMAIN data' = Range(dir') /\ \A f \in DOMAIN data' : data'[f] = data[f]
      /\ LevelTypes' /\ DOMAIN levels' = DOMAIN levels /\ levels'[l].active = levels[l].active
      /\ DOMAIN levels'[l].runs = DOMAIN levels[l].runs /\ Len(levels'[l].runs) = Len(levels[l].runs)
      /\ levels'[l].runs[r] = Run(new, At(l, r).file, At(l, r).writes)
      /\ \A s \in DOMAIN levels[l].runs : s # r => levels'[l].runs[s] = levels[l].runs[s]
      /\ \A m \in DOMAIN levels : m # l => levels'[m] = levels[m]
  BY <1>3 DEF RenameRunDone
<1>5. At(l, r)'.name = new /\ At(l, r)'.file = At(l, r).file /\ At(l, r)'.writes = At(l, r).writes
  <2>1. At(l, r)' = Run(new, At(l, r).file, At(l, r).writes)
    BY <1>4 DEF At
  <2> QED
    BY <2>1 DEF Run
<1>6. Named(l, r, new)
  BY <1>4, <1>5 DEF Named, At
<1>7. old \in DOMAIN dir /\ dir[old] = At(l, r).file /\ old # new
  BY <1>1, <1>2 DEF OwnInv
<1>8. ASSUME NEW m \in DOMAIN levels', NEW s \in DOMAIN levels'[m].runs
      PROVE  /\ At(m, s)'.name \in DOMAIN dir' /\ dir'[At(m, s)'.name] = At(m, s)'.file
             /\ data'[At(m, s)'.file] = At(m, s)'.writes
             /\ s \in DOMAIN levels[m].runs /\ (At(m, s)' = At(m, s) \/ (m = l /\ s = r))
  <2>1. m \in DOMAIN levels /\ s \in DOMAIN levels[m].runs
    BY <1>4, <1>8
  <2>2. /\ At(m, s).name \in DOMAIN dir /\ dir[At(m, s).name] = At(m, s).file
        /\ data[At(m, s).file] = At(m, s).writes /\ At(m, s).name # new
    BY <1>1, <2>1 DEF OwnInv
  <2>3. CASE m = l /\ s = r
    <3>1. At(l, r)'.name \in DOMAIN dir' /\ dir'[At(l, r)'.name] = At(l, r)'.file
      BY <1>4, <1>5, <1>7
    <3>2. At(l, r)'.file \in DOMAIN data'
      BY <1>4, <3>1 DEF Range
    <3> QED
      BY <1>4, <1>5, <2>1, <2>2, <2>3, <3>1, <3>2
  <2>4. CASE ~ (m = l /\ s = r)
    <3>1. At(m, s)' = At(m, s)
      BY <1>4, <2>1, <2>4 DEF At
    <3>2. At(m, s).name # old
      BY <1>2, <2>1, <2>4 DEF Apart
    <3>3. At(m, s).name \in DOMAIN dir' /\ dir'[At(m, s).name] = At(m, s).file
      BY <1>4, <2>2, <3>2
    <3>4. At(m, s).file \in DOMAIN data'
      BY <1>4, <3>3 DEF Range
    <3> QED
      BY <1>4, <2>1, <2>2, <3>1, <3>3, <3>4
  <2> QED
    BY <2>3, <2>4
<1>9. OwnInv'
  BY <1>8 DEF OwnInv
<1>10. DirInv'
  <2>1. \A m \in DOMAIN dir' : m \in Names /\ dir'[m] \in Nat
    BY <1>1, <1>4, <1>7 DEF DirInv
  <2>2. ASSUME NEW m \in DOMAIN dir', NEW k \in DOMAIN dir', dir'[m] = dir'[k] PROVE m = k
    <3>1. m = new \/ (m \in DOMAIN dir /\ m # old /\ dir'[m] = dir[m])
      BY <1>4, <2>2
    <3>2. k = new \/ (k \in DOMAIN dir /\ k # old /\ dir'[k] = dir[k])
      BY <1>4, <2>2
    <3>3. dir'[new] = dir[old] /\ \A a, b \in DOMAIN dir : dir[a] = dir[b] => a = b
      BY <1>1, <1>4 DEF DirInv
    <3> QED
      BY <1>7, <2>2, <3>1, <3>2, <3>3
  <2>3. DOMAIN data' \subseteq DOMAIN data /\ IsFiniteSet(DOMAIN data)
    BY <1>1, <1>4, <1>7 DEF DirInv, Range
  <2>4. IsFiniteSet(DOMAIN data')
    BY <2>3, FS_Subset
  <2>5. \A g \in DOMAIN data' : data'[g] \subseteq 1..writes'
    BY <1>1, <1>4, <2>3 DEF DirInv
  <2> QED
    BY <1>4, <2>1, <2>2, <2>4, <2>5 DEF DirInv
<1>11. ForeignInv'
  <2> SUFFICES ASSUME mpc # "off", NEW m \in DOMAIN dir'
               PROVE  \/ \E k \in DOMAIN levels' : \E s \in DOMAIN levels'[k].runs : At(k, s)'.name = m
                      \/ m \in before.names /\ data'[dir'[m]] \subseteq 1..before.writes
    BY DEF ForeignInv
  <2>1. CASE m = new
    BY <1>4, <1>5, <2>1
  <2>2. CASE m # new
    <3>1. m \in DOMAIN dir /\ m # old /\ dir'[m] = dir[m] /\ data'[dir'[m]] = data[dir[m]]
      BY <1>4, <1>7, <2>2 DEF Range
    <3>2. CASE m \in before.names /\ data[dir[m]] \subseteq 1..before.writes
      BY <3>1, <3>2
    <3>3. ASSUME NEW k \in DOMAIN levels, NEW s \in DOMAIN levels[k].runs, At(k, s).name = m
          PROVE  s \in DOMAIN levels'[k].runs /\ At(k, s)'.name = m
      <4>1. s \in DOMAIN levels'[k].runs /\ ~ (k = l /\ s = r)
        BY <1>2, <1>4, <3>1, <3>3
      <4> QED
        BY <1>4, <1>8, <3>3, <4>1
    <3> QED
      BY <1>4, <3>1, <3>2, <3>3 DEF FilesInv, ForeignInv
  <2> QED
    BY <2>1, <2>2
<1> QED
  BY <1>4, <1>6, <1>9, <1>10, <1>11 DEF FilesInv

\* The level l has other runs active, and nothing else has changed.
Reduced(l, a) ==
  /\ DOMAIN levels' = DOMAIN levels /\ \A m \in DOMAIN levels : m # l => levels'[m] = levels[m]
  /\ levels'[l].runs = levels[l].runs /\ levels'[l].active = a

\* Freed changes no file.
LEMMA FreedFiles ==
  ASSUME FilesInv, NEW l \in DOMAIN levels, NEW a \in 0..NumRuns, levels' = [levels EXCEPT ![l].active = a],
         UNCHANGED <<dir, data, writes, before, mpc>>
  PROVE  FilesInv' /\ Reduced(l, a)
<1>1. LevelTypes /\ levels[l].runs \in Seq(RunRec)
  BY PlaceTypes DEF FilesInv
<1>2. PICK rs \in Seq(RunRec) : rs = levels[l].runs
  BY <1>1
<1>3. levels' = [levels EXCEPT ![l] = [runs |-> rs, active |-> a]]
  <2>1. levels[l] = [runs |-> rs, active |-> levels[l].active]
    BY <1>1, <1>2, LevelIs
  <2>2. [levels[l] EXCEPT !.active = a] = [runs |-> rs, active |-> a]
    BY <2>1
  <2> QED
    BY <2>2, Zenon
<1>4. /\ LevelTypes' /\ DOMAIN levels' = DOMAIN levels /\ levels'[l].runs = rs /\ levels'[l].active = a
      /\ \A m \in DOMAIN levels : m # l => levels'[m] = levels[m]
  <2>1. LevelDone(l, rs, a)
    BY <1>1, <1>3, LevelSet
  <2> QED
    BY <2>1 DEF LevelDone
<1>5. Reduced(l, a)
  BY <1>2, <1>4 DEF Reduced
<1>6. \A m \in DOMAIN levels : levels'[m].runs = levels[m].runs
  BY <1>2, <1>4
<1>7. OwnInv'
  BY <1>4, <1>6 DEF FilesInv, OwnInv, At
<1>8. ForeignInv'
  BY <1>4, <1>6 DEF FilesInv, ForeignInv, At
<1>9. DirInv'
  BY DEF FilesInv, DirInv
<1> QED
  BY <1>4, <1>5, <1>7, <1>8, <1>9 DEF FilesInv

\* There is a new level below the others, without runs.
Deeper(l) ==
  /\ DOMAIN levels' = DOMAIN levels \union {l} /\ Len(levels') = l
  /\ \A m \in DOMAIN levels : m # l /\ levels'[m] = levels[m]
  /\ Len(levels'[l].runs) = 0 /\ DOMAIN levels'[l].runs = {} /\ levels'[l].active = 0

\* A new level changes no file.
LEMMA DeeperFiles ==
  ASSUME FilesInv, NEW l, l = Len(levels) + 1, levels' = Append(levels, FreshLevel),
         UNCHANGED <<dir, data, writes, before, mpc>>
  PROVE  FilesInv' /\ Deeper(l)
<1>1. levels \in Seq(LevelRec) /\ FreshLevel \in LevelRec
  BY Parameters DEF FilesInv, LevelTypes, LevelRec, FreshLevel
<1>2. /\ levels' \in Seq(LevelRec) /\ Len(levels') = l /\ DOMAIN levels' = DOMAIN levels \union {l}
      /\ levels'[l] = FreshLevel /\ \A m \in DOMAIN levels : m # l /\ levels'[m] = levels[m]
  BY <1>1
<1>3. Len(levels'[l].runs) = 0 /\ DOMAIN levels'[l].runs = {} /\ levels'[l].active = 0
  BY <1>2 DEF FreshLevel
<1>4. Deeper(l)
  BY <1>2, <1>3 DEF Deeper
<1>5. OwnInv'
  BY <1>2, <1>3 DEF FilesInv, OwnInv, At
<1>6. ForeignInv'
  BY <1>2, <1>3 DEF FilesInv, ForeignInv, At
<1>7. DirInv' /\ LevelTypes'
  BY <1>2 DEF FilesInv, DirInv, LevelTypes
<1> QED
  BY <1>4, <1>5, <1>6, <1>7 DEF FilesInv

\* When the tree goes, the directory and what is in the files stays.
LEMMA GoneFiles ==
  ASSUME FilesInv, levels' = << >>, data' = Settle(data, dir, << >>), UNCHANGED <<dir, writes, before>>,
         mpc' = "off" \/ (mpc' = mpc /\ \A l \in DOMAIN levels : levels[l].runs = << >>)
  PROVE  FilesInv' /\ DOMAIN levels' = {} /\ Len(levels') = 0
<1>1. levels' \in Seq(LevelRec) /\ Len(levels') = 0 /\ DOMAIN levels' = {}
  OBVIOUS
<1>2. DOMAIN data' = DOMAIN data /\ \A f \in DOMAIN data : data'[f] = data[f]
  <2>1. PICK d, fs : d = dir /\ fs = DOMAIN data /\ fs = Range(d)
    BY DEF FilesInv, DirInv
  <2>2. PICK lvls : lvls = << >>
    OBVIOUS
  <2>3. \A l \in DOMAIN lvls : \A r \in DOMAIN lvls[l].runs : lvls[l].runs[r].file \in fs
    BY <2>2
  <2>4. DOMAIN Settle(data, d, lvls) = fs /\ \A f \in fs : Settle(data, d, lvls)[f] = data[f]
    BY <2>1, <2>3, Settled
  <2> QED
    BY <2>1, <2>2, <2>4
<1>3. DirInv'
  BY <1>2 DEF FilesInv, DirInv
<1>4. OwnInv' /\ LevelTypes'
  BY <1>1 DEF OwnInv, LevelTypes
<1>5. ForeignInv'
  <2> SUFFICES ASSUME mpc' # "off", NEW n \in DOMAIN dir
               PROVE  n \in before.names /\ data'[dir[n]] \subseteq 1..before.writes
    BY DEF ForeignInv
  <2>1. mpc # "off" /\ \A l \in DOMAIN levels : DOMAIN levels[l].runs = {}
    OBVIOUS
  <2>2. dir[n] \in DOMAIN data
    BY DEF FilesInv, DirInv, Range
  <2> QED
    BY <1>2, <2>1, <2>2 DEF FilesInv, ForeignInv
<1> QED
  BY <1>1, <1>3, <1>4, <1>5 DEF FilesInv

\* A process starts: every file is from before it.
LEMMA FirstFiles ==
  ASSUME FilesInv, levels' = << FreshLevel >>, UNCHANGED <<dir, data, writes>>,
         before' = [names |-> DOMAIN dir, writes |-> writes]
  PROVE  /\ FilesInv' /\ DOMAIN levels' = {1} /\ Len(levels') = 1
         /\ DOMAIN levels'[1].runs = {} /\ Len(levels'[1].runs) = 0 /\ levels'[1].active = 0
<1>1. FreshLevel \in LevelRec
  BY Parameters DEF LevelRec, FreshLevel
<1>2. levels' \in Seq(LevelRec) /\ Len(levels') = 1 /\ DOMAIN levels' = {1} /\ levels'[1] = FreshLevel
  BY <1>1
<1>3. DOMAIN levels'[1].runs = {} /\ Len(levels'[1].runs) = 0 /\ levels'[1].active = 0
  BY <1>2 DEF FreshLevel
<1>4. DirInv'
  BY DEF FilesInv, DirInv
<1>5. OwnInv' /\ LevelTypes'
  BY <1>2, <1>3 DEF OwnInv, LevelTypes
<1>6. before'.names = DOMAIN dir /\ before'.writes = writes
  OBVIOUS
<1>7. ForeignInv'
  <2>1. \A n \in DOMAIN dir : dir[n] \in DOMAIN data
    BY DEF FilesInv, DirInv, Range
  <2>2. \A n \in DOMAIN dir' : n \in before'.names /\ data'[dir'[n]] \subseteq 1..before'.writes
    BY <1>6, <2>1 DEF FilesInv, DirInv
  <2> QED
    BY <2>2 DEF ForeignInv
<1> QED
  BY <1>2, <1>3, <1>4, <1>5, <1>7 DEF FilesInv

\* More writes, or another step of main, change nothing that is on disk.
LEMMA SameFiles ==
  ASSUME FilesInv, UNCHANGED <<fileVars, before>>, writes \in Nat, writes' \in Nat, writes' >= writes,
         mpc' = "off" \/ mpc # "off"
  PROVE  FilesInv'
<1>1. LevelTypes' /\ OwnInv'
  BY DEF FilesInv, LevelTypes, OwnInv, At, fileVars
<1>2. ForeignInv'
  BY DEF FilesInv, ForeignInv, At, fileVars
<1>3. DirInv'
  <2>1. 1..writes \subseteq 1..writes'
    OBVIOUS
  <2> QED
    BY <2>1 DEF FilesInv, DirInv, fileVars
<1> QED
  BY <1>1, <1>2, <1>3 DEF FilesInv

----------------------------------------------------------------------------
(* The order of the writes, and that none is lost *)

\* The runs that are in both trees have the same writes, those that are in one are empty.
SameWrites ==
  /\ \A m \in DOMAIN levels' : \A s \in DOMAIN levels'[m].runs :
       \/ At(m, s)'.writes = {}
       \/ m \in DOMAIN levels /\ s \in DOMAIN levels[m].runs /\ At(m, s)'.writes = At(m, s).writes
  /\ \A m \in DOMAIN levels : \A s \in DOMAIN levels[m].runs :
       m \in DOMAIN levels' /\ s \in DOMAIN levels'[m].runs /\ At(m, s)'.writes = At(m, s).writes

\* A new run is empty.
LEMMA SameAfterGrown == ASSUME NEW l \in DOMAIN levels, NEW n, NEW k, Grown(l, n, k) PROVE SameWrites
  BY DEF SameWrites, Grown, At

\* A run that is renamed keeps its writes.
LEMMA SameAfterNamed == ASSUME NEW l \in DOMAIN levels, NEW r, NEW n, Named(l, r, n) PROVE SameWrites
  BY DEF SameWrites, Named, At

\* Freed changes no run.
LEMMA SameAfterReduced == ASSUME NEW l \in DOMAIN levels, NEW a, Reduced(l, a) PROVE SameWrites
  BY DEF SameWrites, Reduced, At

\* A new level has no runs.
LEMMA SameAfterDeeper == ASSUME NEW l, Deeper(l) PROVE SameWrites
  BY DEF SameWrites, Deeper, At

\* Nothing has changed.
LEMMA SameAfterNothing == ASSUME levels' = levels PROVE SameWrites
  BY DEF SameWrites, At

\* What is written to runs is in order when no run is about to be deleted.
Ordered ==
  \A l, m \in DOMAIN levels : \A r \in DOMAIN levels[l].runs, s \in DOMAIN levels[m].runs :
    l > m \/ (l = m /\ r < s) => \A x \in At(l, r).writes, y \in At(m, s).writes : x < y

\* Between the steps of freeMergedRuns's first loop there may be such a run.
LEMMA InOrder ==
  ASSUME LevelTypes, PlaceInv, AgeInv, at # "free" \/ i = MergeSize
  PROVE  Ordered
<1> SUFFICES ASSUME NEW l \in DOMAIN levels, NEW m \in DOMAIN levels,
                    NEW r \in DOMAIN levels[l].runs, NEW s \in DOMAIN levels[m].runs
             PROVE  ~ MergedInto(l, r, m, s)
  BY DEF Ordered, AgeInv
<1>1. s \in Nat /\ s >= 1 /\ MergeSize \in Nat
  BY PlaceTypes, Parameters
<1> QED
  BY <1>1 DEF MergedInto

\* A step that changes no writes keeps their order, and loses none.
LEMMA SameOrder ==
  ASSUME LevelTypes, PlaceInv, AgeInv, KeepInv, at # "free" \/ i = MergeSize, SameWrites,
         UNCHANGED <<toMerge, programVars>>
  PROVE  AgeInv' /\ KeepInv'
<1>1. Ordered
  BY InOrder
<1>2. \A m \in DOMAIN levels' : \A s \in DOMAIN levels'[m].runs : \A x \in At(m, s)'.writes :
        m \in DOMAIN levels /\ s \in DOMAIN levels[m].runs /\ x \in At(m, s).writes
  BY DEF SameWrites
<1>3. AgeInv'
  <2>1. ASSUME NEW l \in DOMAIN levels', NEW m \in DOMAIN levels',
               NEW r \in DOMAIN levels'[l].runs, NEW s \in DOMAIN levels'[m].runs, l > m \/ (l = m /\ r < s),
               NEW x \in At(l, r)'.writes, NEW y \in At(m, s)'.writes
        PROVE  x < y
    BY <1>1, <1>2, <2>1 DEF Ordered
  <2>2. ASSUME NEW l \in DOMAIN levels', NEW r \in DOMAIN levels'[l].runs,
               NEW x \in At(l, r)'.writes, NEW y \in toMerge' \union buffer'
        PROVE  x < y
    BY <1>2, <2>2 DEF AgeInv, programVars
  <2>3. \A x \in toMerge', y \in buffer' : x < y
    BY DEF AgeInv, programVars
  <2> QED
    BY <2>1, <2>2, <2>3 DEF AgeInv
<1>4. KeepInv'
  <2>1. InRuns \subseteq InRuns'
    BY DEF InRuns, SameWrites
  <2> QED
    BY <2>1 DEF KeepInv, programVars
<1> QED
  BY <1>3, <1>4

\* The writes of the runs that getRunsToMerge returns.
ToNextLevel(l) == UNION {data[run.file] : run \in ToSet(RunsToMerge(l))}

\* The files addRuns reads have what is in the first runs of the level.
LEMMA ToNextLevelIs ==
  ASSUME LevelTypes, OwnInv, NEW l \in DOMAIN levels, Len(levels[l].runs) = NumRuns
  PROVE  \A x : x \in ToNextLevel(l) <=> \E t \in 1..MergeSize : x \in At(l, t).writes
<1>1. levels[l].runs \in Seq(RunRec) /\ NumRuns \in Nat /\ MergeSize \in 1..NumRuns
  BY PlaceTypes, Parameters
<1>2. PICK q : q = RunsToMerge(l)
  OBVIOUS
<1>3. DOMAIN q = 1..MergeSize /\ \A t \in 1..MergeSize : t \in DOMAIN levels[l].runs /\ q[t] = At(l, t)
  BY <1>1, <1>2 DEF RunsToMerge, At
<1>4. \A t \in 1..MergeSize : data[At(l, t).file] = At(l, t).writes
  BY <1>3 DEF OwnInv
<1>5. ToNextLevel(l) = UNION {data[run.file] : run \in ToSet(q)}
  BY <1>2 DEF ToNextLevel
<1>6. ASSUME NEW x, x \in ToNextLevel(l) PROVE \E t \in 1..MergeSize : x \in At(l, t).writes
  <2>1. PICK run \in ToSet(q) : x \in data[run.file]
    BY <1>5, <1>6
  <2>2. PICK t \in 1..MergeSize : run = At(l, t)
    BY <1>3, <2>1 DEF ToSet
  <2> QED
    BY <1>4, <2>1, <2>2
<1>7. ASSUME NEW x, NEW t \in 1..MergeSize, x \in At(l, t).writes PROVE x \in ToNextLevel(l)
  <2>1. At(l, t) \in ToSet(q)
    BY <1>3 DEF ToSet
  <2> QED
    BY <1>4, <1>5, <1>7, <2>1
<1> QED
  BY <1>6, <1>7

\* What is left of a level behind its active runs is empty, and stays empty
\* behind the run that is filled.
LEMMA BehindFilled ==
  ASSUME LevelTypes, LengthInv, NEW l \in DOMAIN levels, NEW r \in DOMAIN levels[l].runs,
         r = levels[l].active + 1, NEW w, Filled(l, r, w)
  PROVE  /\ \A s \in DOMAIN levels[l].runs : s >= r => At(l, s).writes = {}
         /\ \A s \in DOMAIN levels'[l].runs : s > levels'[l].active => At(l, s)'.writes = {}
<1>1. r \in Nat /\ levels[l].active \in Nat /\ \A s \in DOMAIN levels[l].runs : s \in Nat
  BY PlaceTypes
<1>2. \A s \in DOMAIN levels[l].runs : s > levels[l].active => At(l, s).writes = {}
  BY DEF LengthInv
<1>3. \A s \in DOMAIN levels[l].runs : s >= r => At(l, s).writes = {}
  BY <1>1, <1>2
<1>4. ASSUME NEW s \in DOMAIN levels'[l].runs, s > levels'[l].active PROVE At(l, s)'.writes = {}
  <2>1. s \in DOMAIN levels[l].runs /\ s > r /\ At(l, s)' = At(l, s)
    BY <1>1, <1>4 DEF Filled
  <2> QED
    BY <1>1, <1>3, <2>1
<1> QED
  BY <1>3, <1>4

\* Each run of the new tree, by the run that was at its place.
LEMMA FilledWrites ==
  ASSUME NEW l \in DOMAIN levels, NEW r, NEW w, Filled(l, r, w),
         NEW m \in DOMAIN levels', NEW s \in DOMAIN levels'[m].runs
  PROVE  /\ m \in DOMAIN levels /\ s \in DOMAIN levels[m].runs
         /\ (m = l /\ s = r /\ At(m, s)'.writes = w) \/ (~ (m = l /\ s = r) /\ At(m, s)'.writes = At(m, s).writes)
  BY DEF Filled, At

\* addRuns puts the oldest writes of its level behind all that is in the next one.
LEMMA AddRunsOrder ==
  ASSUME LevelTypes, LengthInv, PlaceInv, AgeInv, KeepInv, at = "add_runs",
         NEW l \in DOMAIN levels, l = depth + 1, depth \in DOMAIN levels,
         NEW r \in DOMAIN levels[l].runs, r = levels[l].active + 1, NEW w, Filled(l, r, w),
         \A x : x \in w <=> \E t \in 1..MergeSize : x \in At(depth, t).writes,
         MergeSize <= Len(levels[depth].runs), at' = "free", i' = 0, UNCHANGED <<depth, toMerge, programVars>>
  PROVE  AgeInv' /\ KeepInv'
<1>1. Ordered
  BY InOrder
<1>2. /\ \A s \in DOMAIN levels[l].runs : s >= r => At(l, s).writes = {}
  BY BehindFilled
<1>3. /\ DOMAIN levels = 1..Len(levels) /\ Len(levels) \in Nat /\ depth \in Nat /\ MergeSize \in Nat
      /\ DOMAIN levels[depth].runs = 1..Len(levels[depth].runs) /\ Len(levels[depth].runs) \in Nat
      /\ DOMAIN levels[l].runs = 1..Len(levels[l].runs) /\ Len(levels[l].runs) \in Nat
  BY PlaceTypes, Parameters
<1>4. \A m \in DOMAIN levels' : \A s \in DOMAIN levels'[m].runs :
        /\ m \in DOMAIN levels /\ s \in DOMAIN levels[m].runs
        /\ (m = l /\ s = r /\ At(m, s)'.writes = w) \/ (~ (m = l /\ s = r) /\ At(m, s)'.writes = At(m, s).writes)
  BY FilledWrites
<1>5. \A x \in w : \E t \in DOMAIN levels[depth].runs : t \in 1..MergeSize /\ x \in At(depth, t).writes
  BY <1>3
<1>6. ASSUME NEW k \in DOMAIN levels', NEW m \in DOMAIN levels',
             NEW q \in DOMAIN levels'[k].runs, NEW s \in DOMAIN levels'[m].runs, k > m \/ (k = m /\ q < s),
             ~ MergedInto(k, q, m, s)', NEW x \in At(k, q)'.writes, NEW y \in At(m, s)'.writes
      PROVE  x < y
  <2>1. /\ k \in DOMAIN levels /\ q \in DOMAIN levels[k].runs /\ m \in DOMAIN levels /\ s \in DOMAIN levels[m].runs
        /\ (k = l /\ q = r /\ At(k, q)'.writes = w) \/ (~ (k = l /\ q = r) /\ At(k, q)'.writes = At(k, q).writes)
        /\ (m = l /\ s = r /\ At(m, s)'.writes = w) \/ (~ (m = l /\ s = r) /\ At(m, s)'.writes = At(m, s).writes)
    BY <1>4, <1>6
  <2>2. q \in Nat /\ s \in Nat /\ k \in Nat /\ m \in Nat /\ r \in Nat
    BY <1>3, <2>1, PlaceTypes
  <2>3. CASE ~ (k = l /\ q = r) /\ ~ (m = l /\ s = r)
    <3>1. x \in At(k, q).writes /\ y \in At(m, s).writes
      BY <1>6, <2>1, <2>3
    <3> QED
      BY <1>1, <1>6, <2>1, <3>1 DEF Ordered
  <2>4. CASE k = l /\ q = r
    <3>1. ~ (m = l /\ s = r) /\ y \in At(m, s).writes /\ x \in w
      BY <1>6, <2>1, <2>2, <2>4
    <3>2. PICK t \in DOMAIN levels[depth].runs : t \in 1..MergeSize /\ x \in At(depth, t).writes
      BY <1>5, <3>1
    <3>3. m # l
      BY <1>2, <1>6, <2>1, <2>2, <2>4, <3>1
    <3>4. CASE m < depth
      BY <1>1, <2>1, <3>1, <3>2, <3>4 DEF Ordered
    <3>5. CASE m = depth
      <4>1. ~ (s <= MergeSize)
        <5>1. levels'[l].active = r
          BY DEF Filled
        <5>2. ~ (at' = "free" /\ m = depth' /\ k = depth' + 1 /\ q = levels'[k].active /\ s <= MergeSize - i')
          BY <1>6 DEF MergedInto
        <5>3. ~ (s <= MergeSize - 0)
          BY <2>4, <3>5, <5>1, <5>2
        <5> QED
          BY <1>3, <5>3
      <4>2. t < s
        <5>1. t \in Nat /\ t <= MergeSize /\ MergeSize \in Nat
          BY <3>2, Parameters
        <5> QED
          BY <2>2, <4>1, <5>1
      <4> QED
        BY <1>1, <2>1, <3>1, <3>2, <3>5, <4>2 DEF Ordered
    <3> QED
      BY <1>3, <1>6, <2>2, <2>4, <3>3, <3>4, <3>5
  <2>5. CASE ~ (k = l /\ q = r) /\ m = l /\ s = r
    <3>1. x \in At(k, q).writes /\ y \in w
      BY <1>6, <2>1, <2>5
    <3>2. PICK t \in DOMAIN levels[depth].runs : t \in 1..MergeSize /\ y \in At(depth, t).writes
      BY <1>5, <3>1
    <3>3. k > depth
      BY <1>3, <1>6, <2>2, <2>5
    <3> QED
      BY <1>1, <2>1, <3>1, <3>2, <3>3 DEF Ordered
  <2> QED
    BY <2>3, <2>4, <2>5
<1>7. ASSUME NEW k \in DOMAIN levels', NEW q \in DOMAIN levels'[k].runs,
             NEW x \in At(k, q)'.writes, NEW y \in toMerge \union buffer
      PROVE  x < y
  <2>1. CASE x \in w
    BY <1>5, <2>1 DEF AgeInv
  <2>2. CASE x \in At(k, q).writes /\ k \in DOMAIN levels /\ q \in DOMAIN levels[k].runs
    BY <2>2 DEF AgeInv
  <2> QED
    BY <1>4, <1>7, <2>1, <2>2
<1>8. AgeInv'
  <2>1. buffer' = buffer /\ toMerge' = toMerge
    BY DEF programVars
  <2>2. \A x \in toMerge, y \in buffer : x < y
    BY DEF AgeInv
  <2> QED
    BY <1>6, <1>7, <2>1, <2>2 DEF AgeInv
<1>9. KeepInv'
  <2>1. \A m \in DOMAIN levels : \A s \in DOMAIN levels[m].runs : \A x \in At(m, s).writes :
          m \in DOMAIN levels' /\ s \in DOMAIN levels'[m].runs /\ x \in At(m, s)'.writes
    <3>1. r >= r
      BY <1>3
    <3> QED
      BY <1>2, <1>4, <3>1 DEF Filled
  <2>2. InRuns \subseteq InRuns'
    BY <2>1 DEF InRuns
  <2> QED
    BY <2>2 DEF KeepInv, programVars
<1> QED
  BY <1>8, <1>9

\* addRunByArray puts the writes of the merge thread behind all that is on disk.
LEMMA AddOrder ==
  ASSUME LevelTypes, LengthInv, PlaceInv, AgeInv, KeepInv, at = "add", 1 \in DOMAIN levels,
         NEW r \in DOMAIN levels[1].runs, r = levels[1].active + 1, Filled(1, r, toMerge),
         toMerge' = {}, UNCHANGED programVars
  PROVE  AgeInv' /\ KeepInv'
<1>1. Ordered
  BY InOrder
<1>2. PICK w : w = toMerge
  OBVIOUS
<1>3. /\ \A s \in DOMAIN levels[1].runs : s >= r => At(1, s).writes = {}
  BY BehindFilled
<1>4. DOMAIN levels[1].runs = 1..Len(levels[1].runs) /\ DOMAIN levels = 1..Len(levels)
  BY PlaceTypes
<1>5. \A m \in DOMAIN levels' : \A s \in DOMAIN levels'[m].runs :
        /\ m \in DOMAIN levels /\ s \in DOMAIN levels[m].runs
        /\ (m = 1 /\ s = r /\ At(m, s)'.writes = w) \/ (~ (m = 1 /\ s = r) /\ At(m, s)'.writes = At(m, s).writes)
  BY <1>2, FilledWrites
<1>6. ASSUME NEW k \in DOMAIN levels', NEW m \in DOMAIN levels',
             NEW q \in DOMAIN levels'[k].runs, NEW s \in DOMAIN levels'[m].runs, k > m \/ (k = m /\ q < s),
             NEW x \in At(k, q)'.writes, NEW y \in At(m, s)'.writes
      PROVE  x < y
  <2>1. /\ k \in DOMAIN levels /\ q \in DOMAIN levels[k].runs /\ m \in DOMAIN levels /\ s \in DOMAIN levels[m].runs
        /\ (k = 1 /\ q = r /\ At(k, q)'.writes = w) \/ (~ (k = 1 /\ q = r) /\ At(k, q)'.writes = At(k, q).writes)
        /\ (m = 1 /\ s = r /\ At(m, s)'.writes = w) \/ (~ (m = 1 /\ s = r) /\ At(m, s)'.writes = At(m, s).writes)
    BY <1>5, <1>6
  <2>2. q \in Nat /\ s \in Nat /\ k \in Nat /\ m \in Nat /\ r \in Nat /\ k >= 1 /\ m >= 1
    BY <1>4, <2>1, PlaceTypes
  <2>3. CASE ~ (k = 1 /\ q = r) /\ ~ (m = 1 /\ s = r)
    <3>1. x \in At(k, q).writes /\ y \in At(m, s).writes
      BY <1>6, <2>1, <2>3
    <3> QED
      BY <1>1, <1>6, <2>1, <3>1 DEF Ordered
  <2>4. CASE k = 1 /\ q = r
    <3>1. m = 1 /\ s > r
      BY <1>6, <2>2, <2>4
    <3>2. y \in At(m, s).writes /\ At(m, s).writes = {}
      BY <1>3, <1>6, <2>1, <2>2, <3>1
    <3> QED
      BY <3>2
  <2>5. CASE ~ (k = 1 /\ q = r) /\ m = 1 /\ s = r
    <3>1. x \in At(k, q).writes /\ y \in toMerge
      BY <1>2, <1>6, <2>1, <2>5
    <3> QED
      BY <2>1, <3>1 DEF AgeInv
  <2> QED
    BY <2>3, <2>4, <2>5
<1>7. ASSUME NEW k \in DOMAIN levels', NEW q \in DOMAIN levels'[k].runs,
             NEW x \in At(k, q)'.writes, NEW y \in buffer
      PROVE  x < y
  <2>1. CASE x \in toMerge
    BY <2>1 DEF AgeInv
  <2>2. CASE x \in At(k, q).writes /\ k \in DOMAIN levels /\ q \in DOMAIN levels[k].runs
    BY <2>2 DEF AgeInv
  <2> QED
    BY <1>2, <1>5, <1>7, <2>1, <2>2
<1>8. AgeInv'
  <2>1. buffer' = buffer /\ toMerge' = {}
    BY DEF programVars
  <2> QED
    BY <1>6, <1>7, <2>1 DEF AgeInv
<1>9. KeepInv'
  <2>1. \A m \in DOMAIN levels : \A s \in DOMAIN levels[m].runs : \A x \in At(m, s).writes :
          m \in DOMAIN levels' /\ s \in DOMAIN levels'[m].runs /\ x \in At(m, s)'.writes
    <3>1. r >= r
      BY <1>4
    <3> QED
      BY <1>3, <1>5, <3>1 DEF Filled
  <2>2. InRuns \subseteq InRuns'
    BY <2>1 DEF InRuns
  <2>3. toMerge \subseteq InRuns'
    <3>1. 1 \in DOMAIN levels' /\ r \in DOMAIN levels'[1].runs /\ At(1, r)'.writes = toMerge
      BY DEF Filled
    <3> QED
      BY <3>1 DEF InRuns
  <2> QED
    BY <2>2, <2>3 DEF KeepInv, programVars
<1> QED
  BY <1>8, <1>9

\* A merged run that is deleted takes no write with it: they are in a run of the next
\* level.
LEMMA FreeRunOrder ==
  ASSUME LevelTypes, LengthInv, PlaceInv, AgeInv, KeepInv, at = "free", i < MergeSize,
         NEW l \in DOMAIN levels, l = depth, levels[l].runs # << >>,
         NEW k \in DOMAIN levels, k = depth + 1,
         NEW c \in DOMAIN levels[k].runs, c = levels[k].active, At(l, 1).writes \subseteq At(k, c).writes,
         LevelTypes', Shrunk(l), at' = "free", i' = i + 1, UNCHANGED <<depth, toMerge, programVars>>
  PROVE  AgeInv' /\ KeepInv'
<1>1. /\ DOMAIN levels = 1..Len(levels) /\ Len(levels) \in Nat /\ depth \in Nat /\ MergeSize \in Nat /\ i \in Nat
      /\ k # l /\ 1 \in DOMAIN levels[l].runs
      /\ DOMAIN levels[l].runs = 1..Len(levels[l].runs) /\ Len(levels[l].runs) \in Nat
  BY PlaceTypes, Parameters DEF PlaceInv
<1>2. \A m \in DOMAIN levels' : m \in DOMAIN levels /\ (m # l => levels'[m] = levels[m])
  BY DEF Shrunk
<1>3. ASSUME NEW m \in DOMAIN levels', NEW s \in DOMAIN levels'[m].runs
      PROVE  /\ m # l => s \in DOMAIN levels[m].runs /\ At(m, s)' = At(m, s)
             /\ m = l => s + 1 \in DOMAIN levels[m].runs /\ At(m, s)' = At(m, s + 1)
  BY <1>2, <1>3 DEF Shrunk, At
<1>4. \A m \in DOMAIN levels : levels'[m].active = levels[m].active
  BY DEF Shrunk
<1>5. \A m \in DOMAIN levels' : /\ \A s \in DOMAIN levels'[m].runs : s \in Nat
                               /\ DOMAIN levels'[m].runs = 1..Len(levels'[m].runs)
  <2>1. levels' \in Seq(LevelRec)
    BY DEF LevelTypes
  <2>2. \A m \in DOMAIN levels' : levels'[m] \in LevelRec
    BY <2>1
  <2>3. \A m \in DOMAIN levels' : levels'[m].runs \in Seq(RunRec)
    BY <2>2 DEF LevelRec
  <2> QED
    BY <2>3
<1>6. ASSUME NEW a \in DOMAIN levels', NEW m \in DOMAIN levels',
             NEW q \in DOMAIN levels'[a].runs, NEW s \in DOMAIN levels'[m].runs, a > m \/ (a = m /\ q < s),
             ~ MergedInto(a, q, m, s)', NEW x \in At(a, q)'.writes, NEW y \in At(m, s)'.writes
      PROVE  x < y
  <2>1. a \in DOMAIN levels /\ m \in DOMAIN levels /\ a \in Nat /\ m \in Nat
    BY <1>1, <1>2
  <2>2. ~ (m = l /\ a = k /\ q = levels[a].active /\ s <= MergeSize - (i + 1))
    BY <1>4, <1>6, <2>1 DEF MergedInto
  <2>3. CASE a # l /\ m # l
    <3>1. q \in DOMAIN levels[a].runs /\ x \in At(a, q).writes /\ s \in DOMAIN levels[m].runs /\ y \in At(m, s).writes
      BY <1>3, <1>6, <2>3
    <3>2. ~ MergedInto(a, q, m, s)
      BY <2>3 DEF MergedInto
    <3> QED
      BY <1>6, <2>1, <3>1, <3>2 DEF AgeInv
  <2>4. CASE a # l /\ m = l
    <3>1. q \in DOMAIN levels[a].runs /\ x \in At(a, q).writes /\ s + 1 \in DOMAIN levels[m].runs /\ y \in At(m, s + 1).writes
      BY <1>3, <1>6, <2>4
    <3>2. ~ MergedInto(a, q, m, s + 1)
      <4>1. s \in Nat
        BY <1>5, <1>6
      <4>2. s + 1 <= MergeSize - i => s <= MergeSize - (i + 1)
        BY <1>1, <4>1
      <4> QED
        BY <2>2, <2>4, <4>2 DEF MergedInto
    <3> QED
      BY <1>6, <2>1, <2>4, <3>1, <3>2 DEF AgeInv
  <2>5. CASE a = l /\ m # l
    <3>1. q + 1 \in DOMAIN levels[a].runs /\ x \in At(a, q + 1).writes /\ s \in DOMAIN levels[m].runs /\ y \in At(m, s).writes
      BY <1>3, <1>6, <2>5
    <3>2. ~ MergedInto(a, q + 1, m, s)
      BY <2>5 DEF MergedInto
    <3> QED
      BY <1>6, <2>1, <2>5, <3>1, <3>2 DEF AgeInv
  <2>6. CASE a = l /\ m = l
    <3>1. /\ q + 1 \in DOMAIN levels[a].runs /\ x \in At(a, q + 1).writes
          /\ s + 1 \in DOMAIN levels[m].runs /\ y \in At(m, s + 1).writes /\ q < s
      BY <1>1, <1>3, <1>6, <2>1, <2>6
    <3>2. ~ MergedInto(a, q + 1, m, s + 1)
      BY <1>1, <2>6 DEF MergedInto
    <3>3. q + 1 < s + 1
      BY <1>5, <1>6, <3>1
    <3> QED
      BY <2>1, <2>6, <3>1, <3>2, <3>3 DEF AgeInv
  <2> QED
    BY <2>3, <2>4, <2>5, <2>6
<1>7. ASSUME NEW m \in DOMAIN levels', NEW s \in DOMAIN levels'[m].runs,
             NEW x \in At(m, s)'.writes, NEW y \in toMerge \union buffer
      PROVE  x < y
  BY <1>2, <1>3, <1>7 DEF AgeInv
<1>8. AgeInv'
  <2>1. buffer' = buffer /\ toMerge' = toMerge
    BY DEF programVars
  <2>2. \A x \in toMerge, y \in buffer : x < y
    BY DEF AgeInv
  <2> QED
    BY <1>6, <1>7, <2>1, <2>2 DEF AgeInv
<1>9. KeepInv'
  <2>1. c \in DOMAIN levels'[k].runs /\ At(k, c)' = At(k, c) /\ k \in DOMAIN levels'
    BY <1>1 DEF Shrunk, At
  <2>2. ASSUME NEW m \in DOMAIN levels, NEW s \in DOMAIN levels[m].runs, NEW x \in At(m, s).writes
        PROVE  x \in InRuns'
    <3>1. CASE m # l
      <4>1. s \in DOMAIN levels'[m].runs /\ At(m, s)' = At(m, s) /\ m \in DOMAIN levels'
        BY <2>2, <3>1 DEF Shrunk, At
      <4> QED
        BY <2>2, <4>1 DEF InRuns
    <3>2. CASE m = l /\ s = 1
      BY <2>1, <2>2, <3>2 DEF InRuns
    <3>3. CASE m = l /\ s # 1
      <4>1. s - 1 \in DOMAIN levels'[l].runs /\ l \in DOMAIN levels'
        <5>1. Len(levels'[l].runs) = Len(levels[l].runs) - 1
          BY DEF Shrunk
        <5>2. l \in DOMAIN levels' /\ DOMAIN levels'[l].runs = 1..Len(levels[l].runs) - 1
          BY <1>5, <5>1 DEF Shrunk
        <5>3. s \in 1..Len(levels[l].runs)
          BY <1>1, <2>2, <3>3
        <5>4. s - 1 \in 1..Len(levels[l].runs) - 1
          BY <1>1, <3>3, <5>3
        <5> QED
          BY <5>2, <5>4
      <4> QED
        BY <1>1, <1>3, <2>2, <3>3, <4>1 DEF InRuns
    <3> QED
      BY <3>1, <3>2, <3>3
  <2>3. InRuns \subseteq InRuns'
    BY <2>2 DEF InRuns
  <2> QED
    BY <2>3 DEF KeepInv, programVars
<1> QED
  BY <1>8, <1>9

\* The destructor deletes the runs of a level from the first on.
LEMMA DestroyRunOrder ==
  ASSUME LevelTypes, PlaceInv, AgeInv, at = "destroy", NEW l \in DOMAIN levels, LevelTypes', Shrunk(l),
         UNCHANGED <<toMerge, buffer>>
  PROVE  AgeInv'
<1>1. Ordered
  BY InOrder
<1>2. \A m \in DOMAIN levels' : \A s \in DOMAIN levels'[m].runs :
        /\ m \in DOMAIN levels
        /\ m # l => s \in DOMAIN levels[m].runs /\ At(m, s)' = At(m, s)
        /\ m = l => s + 1 \in DOMAIN levels[m].runs /\ At(m, s)' = At(m, s + 1)
  BY DEF Shrunk, At
<1>3. levels' \in Seq(LevelRec)
  BY DEF LevelTypes
<1>4. \A m \in DOMAIN levels' : levels'[m] \in LevelRec /\ m \in Nat
  BY <1>3
<1>5. \A m \in DOMAIN levels' : \A s \in DOMAIN levels'[m].runs : s \in Nat
  BY <1>4 DEF LevelRec
<1>6. ASSUME NEW a \in DOMAIN levels', NEW m \in DOMAIN levels',
             NEW q \in DOMAIN levels'[a].runs, NEW s \in DOMAIN levels'[m].runs, a > m \/ (a = m /\ q < s),
             NEW x \in At(a, q)'.writes, NEW y \in At(m, s)'.writes
      PROVE  x < y
  <2>1. CASE a = m
    <3>1. CASE a = l
      <4>1. q < s => q + 1 < s + 1
        BY <1>5, <1>6
      <4> QED
        BY <1>1, <1>2, <1>4, <1>6, <2>1, <3>1, <4>1 DEF Ordered
    <3>2. CASE a # l
      BY <1>1, <1>2, <1>4, <1>6, <2>1, <3>2 DEF Ordered
    <3> QED
      BY <3>1, <3>2
  <2>2. CASE a # m
    <3>1. PICK p \in DOMAIN levels[a].runs : x \in At(a, p).writes
      BY <1>2, <1>6
    <3>2. PICK t \in DOMAIN levels[m].runs : y \in At(m, t).writes
      BY <1>2, <1>6
    <3> QED
      BY <1>1, <1>2, <1>6, <2>2, <3>1, <3>2 DEF Ordered
  <2> QED
    BY <2>1, <2>2
<1>7. ASSUME NEW m \in DOMAIN levels', NEW s \in DOMAIN levels'[m].runs,
             NEW x \in At(m, s)'.writes, NEW y \in toMerge \union buffer
      PROVE  x < y
  BY <1>2, <1>7 DEF AgeInv
<1> QED
  BY <1>6, <1>7 DEF AgeInv

\* What is in the runs has been written.
LEMMA Written ==
  ASSUME FilesInv, NEW l \in DOMAIN levels, NEW r \in DOMAIN levels[l].runs
  PROVE  At(l, r).writes \subseteq 1..writes
<1>1. At(l, r).file \in DOMAIN data /\ data[At(l, r).file] = At(l, r).writes
  BY DEF FilesInv, OwnInv, DirInv, Range
<1> QED
  BY <1>1 DEF FilesInv, DirInv

\* A new write is younger than all others, also when the buffer goes to the merge
\* thread before it.
LEMMA InsertOrder ==
  ASSUME FilesInv, PlaceInv, AgeInv, KeepInv, MainInv, mpc \in {"line", "load"}, InsertKey,
         mpc' = mpc, UNCHANGED before
  PROVE  /\ AgeInv' /\ KeepInv' /\ levels' = levels /\ writes' = writes + 1
         /\ toMerge' \subseteq 1..writes' /\ buffer' \subseteq 1..writes'
<1>1. writes \in Nat /\ writes' = writes + 1 /\ toMerge \subseteq 1..writes /\ buffer \subseteq 1..writes
      /\ before.writes \in 0..writes
  BY DEF MainInv, InsertKey
<1>2. levels' = levels /\ (at' # "free" \/ (at' = at /\ i' = i /\ depth' = depth))
  BY DEF InsertKey, Merge, runFilesVars, fileVars, workVars
<1>3. \/ buffer' = buffer \union {writes'} /\ toMerge' = toMerge /\ (at' = at /\ i' = i /\ depth' = depth)
      \/ buffer' = {writes'} /\ toMerge' = buffer /\ toMerge = {} /\ at = "idle" /\ at' # "free"
  BY DEF InsertKey, Merge, runFilesVars, workVars, PlaceInv
<1>4. \A m \in DOMAIN levels : \A s \in DOMAIN levels[m].runs : At(m, s).writes \subseteq 1..writes /\ At(m, s)' = At(m, s)
  BY <1>2, Written DEF At
<1>5. ASSUME NEW k \in DOMAIN levels, NEW m \in DOMAIN levels,
             NEW q \in DOMAIN levels[k].runs, NEW s \in DOMAIN levels[m].runs, k > m \/ (k = m /\ q < s),
             ~ MergedInto(k, q, m, s)', NEW x \in At(k, q).writes, NEW y \in At(m, s).writes
      PROVE  x < y
  <2>1. ~ MergedInto(k, q, m, s)
    BY <1>2, <1>3, <1>5 DEF MergedInto
  <2> QED
    BY <1>5, <2>1 DEF AgeInv
<1>6. ASSUME NEW m \in DOMAIN levels, NEW s \in DOMAIN levels[m].runs, NEW x \in At(m, s).writes,
             NEW y \in toMerge' \union buffer'
      PROVE  x < y
  <2>1. x < writes'
    <3>1. x \in 1..writes
      BY <1>4, <1>6
    <3> QED
      BY <1>1, <3>1
  <2>2. y = writes' \/ y \in toMerge \union buffer
    BY <1>3, <1>6
  <2> QED
    BY <1>6, <2>1, <2>2 DEF AgeInv
<1>7. ASSUME NEW x \in toMerge', NEW y \in buffer' PROVE x < y
  <2>1. x < writes'
    <3>1. x \in 1..writes
      BY <1>1, <1>3, <1>7
    <3> QED
      BY <1>1, <3>1
  <2>2. y = writes' \/ (x \in toMerge /\ y \in buffer)
    BY <1>3, <1>7
  <2> QED
    BY <2>1, <2>2 DEF AgeInv
<1>8. AgeInv'
  BY <1>2, <1>4, <1>5, <1>6, <1>7 DEF AgeInv
<1>9. InRuns' = InRuns
  BY <1>2 DEF InRuns, At
<1>10. KeepInv'
  <2>1. before.writes + 1..writes \subseteq buffer \union toMerge \union InRuns
    BY DEF KeepInv
  <2>2. before.writes + 1..writes' = (before.writes + 1..writes) \union {writes'}
    BY <1>1
  <2> QED
    BY <1>3, <1>9, <2>1, <2>2 DEF KeepInv
<1>11. toMerge' \subseteq 1..writes' /\ buffer' \subseteq 1..writes'
  <2>1. 1..writes \subseteq 1..writes' /\ writes' \in 1..writes'
    BY <1>1
  <2> QED
    BY <1>1, <1>3, <2>1
<1> QED
  BY <1>1, <1>2, <1>8, <1>10, <1>11

----------------------------------------------------------------------------
(* Names and numbers of runs *)

\* The number of levels only changes with its set.
LEMMA SameLevels ==
  ASSUME LevelTypes, LevelTypes', DOMAIN levels' = DOMAIN levels
  PROVE  Len(levels') = Len(levels)
<1>1. /\ DOMAIN levels = 1..Len(levels) /\ DOMAIN levels' = 1..Len(levels')
      /\ Len(levels) \in Nat /\ Len(levels') \in Nat
  BY DEF LevelTypes
<1> QED
  BY <1>1

\* Outside of the loops that delete and rename, each run has the id of its place.
LEMMA PlainNames ==
  ASSUME LevelTypes, NameInv, at \notin {"free", "destroy", "rename"}
  PROVE  \A m \in DOMAIN levels : \A s \in DOMAIN levels[m].runs : At(m, s).name = <<m, s - 1>>
<1> SUFFICES ASSUME NEW m \in DOMAIN levels, NEW s \in DOMAIN levels[m].runs
             PROVE  At(m, s).name = <<m, s - 1>>
  OBVIOUS
<1>1. At(m, s).name = <<m, s - 1 + Ahead(m, s)>> /\ s \in Nat
  BY PlaceTypes DEF NameInv
<1>2. Ahead(m, s) = 0
  BY DEF Ahead
<1>3. s - 1 + Ahead(m, s) = s - 1
  BY <1>1, <1>2
<1> QED
  BY <1>1, <1>3

\* And back.
LEMMA PlainNamesAgain ==
  ASSUME LevelTypes', at' \notin {"free", "destroy", "rename"},
         \A m \in DOMAIN levels' : \A s \in DOMAIN levels'[m].runs : At(m, s)'.name = <<m, s - 1>>
  PROVE  NameInv'
<1> SUFFICES ASSUME NEW m \in DOMAIN levels', NEW s \in DOMAIN levels'[m].runs
             PROVE  At(m, s)'.name = <<m, s - 1 + Ahead(m, s)'>>
  BY DEF NameInv
<1>1. levels' \in Seq(LevelRec)
  BY DEF LevelTypes
<1>2. levels'[m] \in LevelRec
  BY <1>1
<1>3. s \in Nat
  BY <1>2 DEF LevelRec
<1>4. Ahead(m, s)' = 0
  BY DEF Ahead
<1>5. s - 1 + Ahead(m, s)' = s - 1
  BY <1>3, <1>4
<1> QED
  BY <1>5

\* The levels down to d stay full.
LEMMA StillFull ==
  ASSUME LevelTypes, NEW d \in Nat, d <= Len(levels), FullTo(d),
         \A m \in DOMAIN levels : m <= d => levels'[m].active = levels[m].active
  PROVE  FullTo(d)'
<1>1. \A m \in 1..d : m \in DOMAIN levels /\ m <= d
  BY DEF LevelTypes
<1> QED
  BY <1>1 DEF FullTo

\* The next run that is constructed or created gets an id that no run of its level has.
LEMMA NewRunPlaces ==
  ASSUME FilesInv, PlacesInv, NEW l \in DOMAIN levels,
         (at = "construct" /\ l = depth + 1) \/ (at = "create" /\ l = depth), i < NumRuns,
         NewRun(l), UNCHANGED <<at, depth, toMerge, programVars>>
  PROVE  FilesInv' /\ PlacesInv' /\ SameWrites
<1>1. LevelTypes /\ NameInv /\ LengthInv /\ PlaceInv
  BY DEF FilesInv, PlacesInv
<1>2. /\ i \in Nat /\ NumRuns \in Nat /\ MergeSize \in 1..NumRuns /\ depth \in Nat
      /\ l \in Nat /\ l >= 1 /\ Len(levels[l].runs) = i /\ DOMAIN levels[l].runs = 1..i
      /\ levels[l].active \in 0..NumRuns
  <2>1. i \in Nat /\ depth \in Nat /\ Len(levels[l].runs) = i
    BY <1>1 DEF LengthInv, PlaceInv, RunsThere
  <2> QED
    BY <1>1, <2>1, PlaceTypes, Parameters
<1>3. \A m \in DOMAIN levels : \A s \in DOMAIN levels[m].runs : At(m, s).name = <<m, s - 1>>
  BY <1>1, PlainNames
<1>4. PICK n \in Names : n = <<l, i>>
  <2>1. <<l, i>> \in Names
    BY <1>2 DEF Names
  <2> QED
    BY <2>1
<1>5. \A m \in DOMAIN levels : \A s \in DOMAIN levels[m].runs : At(m, s).name # n
  <2> SUFFICES ASSUME NEW m \in DOMAIN levels, NEW s \in DOMAIN levels[m].runs, At(m, s).name = n PROVE FALSE
    OBVIOUS
  <2>1. <<m, s - 1>> = <<l, i>>
    BY <1>3, <1>4
  <2>2. m = l /\ s - 1 = i
    BY <2>1
  <2>3. s \in 1..i
    BY <1>2, <2>2
  <2> QED
    BY <1>2, <2>2, <2>3
<1>6. PICK k : k = Len(levels[l].runs) + 1
  OBVIOUS
<1>7. FilesInv' /\ i' = i + 1 /\ Grown(l, n, k)
  <2>1. UNCHANGED <<writes, before, mpc>>
    BY DEF programVars
  <2> QED
    BY <1>4, <1>5, <1>6, <2>1, NewRunFiles
<1>8. k = i + 1
  BY <1>2, <1>6
<1>9. LevelTypes' /\ DOMAIN levels' = DOMAIN levels /\ Len(levels') = Len(levels)
  <2>1. LevelTypes' /\ DOMAIN levels' = DOMAIN levels
    BY <1>7 DEF FilesInv, Grown
  <2> QED
    BY <1>1, <2>1, SameLevels
<1>10. /\ \A m \in DOMAIN levels : levels'[m].active = levels[m].active
       /\ \A m \in DOMAIN levels : m # l => levels'[m] = levels[m]
       /\ Len(levels'[l].runs) = i + 1
  BY <1>7, <1>8 DEF Grown
<1>11. \A m \in DOMAIN levels' : \A s \in DOMAIN levels'[m].runs :
         \/ m = l /\ s = k /\ At(m, s)'.name = n /\ At(m, s)'.writes = {}
         \/ m \in DOMAIN levels /\ s \in DOMAIN levels[m].runs /\ At(m, s)' = At(m, s)
  BY <1>7 DEF Grown, At
<1>12. NameInv'
  <2>1. ASSUME NEW m \in DOMAIN levels', NEW s \in DOMAIN levels'[m].runs PROVE At(m, s)'.name = <<m, s - 1>>
    <3>1. CASE m = l /\ s = k /\ At(m, s)'.name = n
      <4>1. s - 1 = i
        BY <1>2, <1>8, <3>1
      <4> QED
        BY <1>4, <3>1, <4>1
    <3>2. CASE m \in DOMAIN levels /\ s \in DOMAIN levels[m].runs /\ At(m, s)' = At(m, s)
      BY <1>3, <3>2
    <3> QED
      BY <1>11, <2>1, <3>1, <3>2
  <2> QED
    BY <1>9, <2>1, PlainNamesAgain
<1>13. LengthInv'
  <2> SUFFICES ASSUME NEW m \in DOMAIN levels'
               PROVE  /\ Len(levels'[m].runs) = RunsThere(m)' /\ Len(levels'[m].runs) <= NumRuns
                      /\ \A s \in DOMAIN levels'[m].runs : s > levels'[m].active => At(m, s)'.writes = {}
    BY DEF LengthInv
  <2>1. \A s \in DOMAIN levels'[m].runs : s > levels'[m].active => At(m, s)'.writes = {}
    BY <1>1, <1>9, <1>10, <1>11 DEF LengthInv
  <2>2. CASE m = l
    <3>1. RunsThere(m)' = i + 1
      BY <1>7, <2>2 DEF RunsThere
    <3> QED
      BY <1>2, <1>10, <2>1, <2>2, <3>1
  <2>3. CASE m # l
    <3>1. RunsThere(m)' = RunsThere(m)
      BY <2>3 DEF RunsThere
    <3>2. Len(levels[m].runs) = RunsThere(m) /\ Len(levels[m].runs) <= NumRuns
      BY <1>1, <1>9 DEF LengthInv
    <3> QED
      BY <1>9, <1>10, <2>1, <2>3, <3>1, <3>2
  <2> QED
    BY <2>2, <2>3
<1>14. PlaceInv'
  <2>1. i' \in 0..NumRuns
    BY <1>2, <1>7
  <2>2. CASE at = "construct"
    <3>1. depth + 1 = Len(levels) /\ levels[depth + 1].active = 0 /\ FullTo(depth) /\ (depth = 0 => toMerge = {})
      BY <1>1, <2>2 DEF PlaceInv
    <3>2. FullTo(depth)'
      <4>1. PICK d \in Nat : d = depth /\ d <= Len(levels)
        BY <1>2, <3>1
      <4>2. FullTo(d)'
        BY <1>1, <1>10, <3>1, <4>1, StillFull
      <4> QED
        BY <4>1, <4>2 DEF FullTo
    <3> QED
      BY <1>2, <1>9, <1>10, <2>1, <2>2, <3>1, <3>2 DEF PlaceInv
  <2>3. CASE at = "create"
    <3>1. /\ depth \in 1..Len(levels) - 1 /\ FullTo(depth - 1) /\ levels[depth].active = NumRuns - MergeSize
          /\ i \in NumRuns - MergeSize..NumRuns
      BY <1>1, <2>3 DEF PlaceInv
    <3>2. Len(levels) \in Nat /\ depth \in DOMAIN levels
      BY <1>1, <3>1 DEF LevelTypes
    <3>3. FullTo(depth - 1)'
      <4>1. PICK d \in Nat : d = depth - 1 /\ d <= Len(levels)
        BY <1>2, <3>1, <3>2
      <4>2. FullTo(d)'
        BY <1>1, <1>10, <3>1, <4>1, StillFull
      <4> QED
        BY <4>1, <4>2 DEF FullTo
    <3>4. i' \in NumRuns - MergeSize..NumRuns
      BY <1>2, <1>7, <3>1
    <3> QED
      BY <1>2, <1>9, <1>10, <2>1, <2>3, <3>1, <3>2, <3>3, <3>4 DEF PlaceInv
  <2> QED
    BY <2>2, <2>3
<1>15. SameWrites
  BY <1>7, SameAfterGrown
<1> QED
  BY <1>7, <1>12, <1>13, <1>14, <1>15 DEF PlacesInv

----------------------------------------------------------------------------
(* The steps of the merge thread and of the constructor *)

\* While the thread works main waits, or goes on with its input.
LEMMA MainStays ==
  ASSUME MainInv, UNCHANGED programVars, toMerge' \subseteq 1..writes,
         at \notin {"none", "destroy", "idle"}, at' \notin {"none", "destroy"},
         at = "construct" /\ depth = 0 => at' = "idle" \/ (at' = "construct" /\ depth' = 0),
         at' = "construct" /\ depth' = 0 => at = "construct" /\ depth = 0
  PROVE  MainInv'
<1>1. /\ mpc' = mpc /\ args' = args /\ file' = file /\ lines' = lines /\ pairs' = pairs
      /\ buffer' = buffer /\ writes' = writes /\ starts' = starts /\ before' = before
  BY DEF programVars
<1>2. mpc \in {"construct", "open", "line", "load"}
  BY DEF MainInv
<1> QED
  BY <1>1, <1>2 DEF MainInv

\* ConstructRun and CreateRun.
LEMMA NewRunStep ==
  ASSUME ProgramInv, ConstructRun \/ CreateRun, UNCHANGED programVars
  PROVE  ProgramInv'
<1>1. /\ FilesInv /\ PlacesInv /\ AgeInv /\ KeepInv /\ MainInv /\ LevelTypes /\ PlaceInv
  BY DEF ProgramInv, FilesInv, PlacesInv
<1>2. PICK l : (at = "construct" /\ l = depth + 1) \/ (at = "create" /\ l = depth /\ l \in 1..Len(levels) - 1)
  BY <1>1 DEF ConstructRun, CreateRun, PlaceInv
<1>3. l \in DOMAIN levels
  BY <1>1, <1>2 DEF PlaceInv, LevelTypes
<1>4. NewRun(l) /\ i < NumRuns /\ UNCHANGED <<at, depth, toMerge>>
  BY <1>2 DEF ConstructRun, CreateRun
<1>5. FilesInv' /\ PlacesInv' /\ SameWrites
  BY <1>1, <1>2, <1>3, <1>4, NewRunPlaces
<1>6. AgeInv' /\ KeepInv'
  BY <1>1, <1>2, <1>4, <1>5, SameOrder
<1>7. MainInv'
  <2>1. toMerge' \subseteq 1..writes
    BY <1>1, <1>4 DEF MainInv
  <2> QED
    BY <1>1, <1>2, <1>4, <2>1, MainStays
<1> QED
  BY <1>1, <1>5, <1>6, <1>7 DEF ProgramInv

\* The names and numbers of runs, when only the thread has moved on.
LEMMA SamePlaces ==
  ASSUME LevelTypes, LengthInv, levels' = levels, at' # "destroy",
         \A m \in DOMAIN levels : \A s \in DOMAIN levels[m].runs : Ahead(m, s)' = Ahead(m, s),
         \A m \in DOMAIN levels : RunsThere(m)' = RunsThere(m), at # "destroy", NameInv
  PROVE  NameInv' /\ LengthInv'
<1>1. NameInv'
  BY DEF NameInv, At
<1>2. LengthInv'
  BY DEF LengthInv, At
<1> QED
  BY <1>1, <1>2

\* Constructed.
LEMMA ConstructedStep ==
  ASSUME ProgramInv, Constructed, UNCHANGED programVars
  PROVE  ProgramInv'
<1>1. /\ FilesInv /\ NameInv /\ LengthInv /\ PlaceInv /\ AgeInv /\ KeepInv /\ MainInv /\ LevelTypes
  BY DEF ProgramInv, FilesInv, PlacesInv
<1>2. /\ at = "construct" /\ i = NumRuns /\ at' = (IF depth = 0 THEN "idle" ELSE "add_runs")
      /\ levels' = levels /\ dir' = dir /\ data' = data /\ depth' = depth /\ i' = i /\ toMerge' = toMerge
  BY DEF Constructed, fileVars
<1>3. /\ depth + 1 = Len(levels) /\ levels[depth + 1].active = 0 /\ FullTo(depth) /\ (depth = 0 => toMerge = {})
      /\ depth \in Nat /\ Len(levels) \in Nat /\ NumRuns \in Nat \ {0} /\ NumRuns \in 0..NumRuns
  BY <1>1, <1>2, Parameters DEF PlaceInv, LevelTypes
<1>4. FilesInv'
  <2>1. writes \in Nat /\ mpc # "off" /\ UNCHANGED <<fileVars, before, writes>>
    BY <1>1, <1>2 DEF MainInv, programVars, fileVars
  <2> QED
    BY <1>1, <2>1, SameFiles
<1>5. NameInv' /\ LengthInv'
  <2>1. \A m \in DOMAIN levels : \A s \in DOMAIN levels[m].runs : Ahead(m, s)' = Ahead(m, s)
    BY <1>2 DEF Ahead
  <2>2. \A m \in DOMAIN levels : RunsThere(m)' = RunsThere(m)
    BY <1>2 DEF RunsThere
  <2> QED
    BY <1>1, <1>2, <2>1, <2>2, SamePlaces
<1>6. PlaceInv'
  <2>1. FullTo(depth)'
    BY <1>2, <1>3 DEF FullTo
  <2>2. CASE depth = 0
    BY <1>2, <1>3, <2>2 DEF PlaceInv
  <2>3. CASE depth # 0
    <3>1. depth \in 1..Len(levels) - 1 /\ levels[depth + 1].active < NumRuns
      BY <1>3, <2>3
    <3> QED
      BY <1>2, <1>3, <2>1, <2>3, <3>1 DEF PlaceInv
  <2> QED
    BY <2>2, <2>3
<1>7. AgeInv' /\ KeepInv'
  <2>1. SameWrites
    BY <1>2, SameAfterNothing
  <2> QED
    BY <1>1, <1>2, <2>1, SameOrder
<1>8. MainInv'
  <2>1. toMerge' \subseteq 1..writes
    BY <1>1, <1>2 DEF MainInv
  <2> QED
    BY <1>1, <1>2, <2>1, MainStays
<1> QED
  BY <1>4, <1>5, <1>6, <1>7, <1>8 DEF ProgramInv, PlacesInv

\* mergeRunsToLevel at the last level makes a new one.
LEMMA DescendDeeper ==
  ASSUME ProgramInv, at = "descend", depth = Len(levels), levels' = Append(levels, FreshLevel),
         at' = "construct", i' = 0, UNCHANGED <<dir, data, depth, toMerge, programVars>>
  PROVE  ProgramInv'
<1>1. /\ FilesInv /\ NameInv /\ LengthInv /\ PlaceInv /\ AgeInv /\ KeepInv /\ MainInv /\ LevelTypes
  BY DEF ProgramInv, FilesInv, PlacesInv
<1>2. /\ depth \in Nat /\ depth >= 1 /\ FullTo(depth) /\ NumRuns \in Nat /\ Len(levels) \in Nat
      /\ DOMAIN levels = 1..Len(levels)
  BY <1>1, Parameters DEF PlaceInv, LevelTypes
<1>3. PICK l : l = Len(levels) + 1
  OBVIOUS
<1>4. FilesInv' /\ Deeper(l)
  <2>1. UNCHANGED <<dir, data, writes, before, mpc>>
    BY DEF programVars
  <2> QED
    BY <1>1, <1>3, <2>1, DeeperFiles
<1>5. /\ LevelTypes' /\ DOMAIN levels' = DOMAIN levels \union {l} /\ Len(levels') = l
      /\ \A m \in DOMAIN levels : m # l /\ levels'[m] = levels[m]
      /\ Len(levels'[l].runs) = 0 /\ DOMAIN levels'[l].runs = {} /\ levels'[l].active = 0
  BY <1>4 DEF Deeper, FilesInv
<1>6. NameInv'
  <2>1. \A m \in DOMAIN levels : \A s \in DOMAIN levels[m].runs : At(m, s).name = <<m, s - 1>>
    BY <1>1, PlainNames
  <2>2. \A m \in DOMAIN levels' : \A s \in DOMAIN levels'[m].runs : At(m, s)'.name = <<m, s - 1>>
    BY <1>5, <2>1 DEF At
  <2> QED
    BY <1>5, <2>2, PlainNamesAgain
<1>7. LengthInv'
  <2> SUFFICES ASSUME NEW m \in DOMAIN levels'
               PROVE  /\ Len(levels'[m].runs) = RunsThere(m)' /\ Len(levels'[m].runs) <= NumRuns
                      /\ \A s \in DOMAIN levels'[m].runs : s > levels'[m].active => At(m, s)'.writes = {}
    BY DEF LengthInv
  <2>1. CASE m = l
    <3>1. RunsThere(m)' = 0
      BY <1>3, <2>1 DEF RunsThere
    <3> QED
      BY <1>2, <1>5, <2>1, <3>1
  <2>2. CASE m \in DOMAIN levels
    <3>1. m # depth + 1
      BY <1>3, <1>5, <2>2
    <3>2. RunsThere(m)' = NumRuns /\ RunsThere(m) = NumRuns
      BY <3>1 DEF RunsThere
    <3>3. /\ Len(levels[m].runs) = RunsThere(m) /\ Len(levels[m].runs) <= NumRuns
          /\ \A s \in DOMAIN levels[m].runs : s > levels[m].active => At(m, s).writes = {}
      BY <1>1, <2>2 DEF LengthInv
    <3> QED
      BY <1>5, <2>2, <3>2, <3>3 DEF At
  <2> QED
    BY <1>5, <2>1, <2>2
<1>8. PlaceInv'
  <2>1. FullTo(depth)'
    BY <1>2, <1>5 DEF FullTo
  <2> QED
    BY <1>2, <1>3, <1>5, <2>1 DEF PlaceInv
<1>9. AgeInv' /\ KeepInv'
  <2>1. SameWrites
    BY <1>4, SameAfterDeeper
  <2> QED
    BY <1>1, <2>1, SameOrder
<1>10. MainInv'
  <2>1. toMerge' \subseteq 1..writes
    BY <1>1 DEF MainInv
  <2> QED
    BY <1>1, <1>2, <2>1, MainStays
<1> QED
  BY <1>4, <1>6, <1>7, <1>8, <1>9, <1>10 DEF ProgramInv, PlacesInv

\* Steps that change no run and are not in the loops of freeMergedRuns.
LEMMA MovesOn ==
  ASSUME ProgramInv, at \in {"descend", "create", "idle"}, at' \in {"descend", "add_runs", "add"},
         at = "create" => i = NumRuns, levels' = levels, dir' = dir, data' = data, PlaceInv',
         UNCHANGED <<before, mpc>>, writes' \in Nat, writes' >= writes
  PROVE  FilesInv' /\ PlacesInv'
<1>1. FilesInv /\ NameInv /\ LengthInv /\ PlaceInv /\ LevelTypes /\ LevelTypes'
  BY DEF ProgramInv, FilesInv, PlacesInv, LevelTypes
<1>2. FilesInv'
  <2>1. writes \in Nat /\ UNCHANGED <<fileVars, before>> /\ (mpc' = "off" \/ mpc # "off")
    BY DEF ProgramInv, MainInv, fileVars
  <2> QED
    BY <1>1, <2>1, SameFiles
<1>3. NameInv' /\ LengthInv'
  <2>1. \A m \in DOMAIN levels : \A s \in DOMAIN levels[m].runs : Ahead(m, s)' = Ahead(m, s)
    BY DEF Ahead
  <2>2. \A m \in DOMAIN levels : RunsThere(m)' = RunsThere(m)
    BY DEF RunsThere
  <2> QED
    BY <1>1, <2>1, <2>2, SamePlaces
<1> QED
  BY <1>2, <1>3 DEF PlacesInv

\* Descend.
LEMMA DescendStep ==
  ASSUME ProgramInv, Descend, UNCHANGED programVars
  PROVE  ProgramInv'
<1>1. /\ FilesInv /\ NameInv /\ LengthInv /\ PlaceInv /\ AgeInv /\ KeepInv /\ MainInv /\ LevelTypes
  BY DEF ProgramInv, FilesInv, PlacesInv
<1>2. /\ at = "descend" /\ depth \in 1..Len(levels) /\ FullTo(depth) /\ NumRuns \in Nat /\ Len(levels) \in Nat
      /\ DOMAIN levels = 1..Len(levels) /\ depth \in Nat /\ depth >= 1 /\ i \in 0..NumRuns
  BY <1>1, Parameters DEF PlaceInv, LevelTypes, Descend
<1>3. dir' = dir /\ data' = data /\ toMerge' = toMerge
  BY DEF Descend
<1>4. CASE depth = Len(levels)
  BY <1>2, <1>3, <1>4, DescendDeeper DEF Descend
<1>5. CASE depth # Len(levels)
  <2>1. levels' = levels /\ i' = i /\ depth < Len(levels) /\ depth + 1 \in DOMAIN levels
    <3>1. levels' = levels /\ i' = i
      BY <1>5 DEF Descend
    <3>2. depth < Len(levels)
      BY <1>5 DEF Descend
    <3> QED
      BY <1>2, <3>1, <3>2
  <2>2. PlaceInv'
    <3>1. CASE LevelFull(depth + 1)
      <4>1. depth' = depth + 1 /\ at' = "descend"
        BY <1>2, <1>5, <3>1 DEF Descend
      <4>2. \A k \in 1..depth + 1 : k \in 1..depth \/ k = depth + 1
        BY <1>2
      <4>3. FullTo(depth)'
        BY <1>2, <2>1, <3>1, <4>1, <4>2 DEF FullTo, LevelFull
      <4> QED
        BY <1>2, <2>1, <4>1, <4>3 DEF PlaceInv
    <3>2. CASE ~ LevelFull(depth + 1)
      <4>1. depth' = depth /\ at' = "add_runs"
        BY <1>2, <1>5, <3>2 DEF Descend
      <4>2. levels[depth + 1].active < NumRuns
        <5>1. levels[depth + 1].active \in 0..NumRuns /\ levels[depth + 1].active # NumRuns
          BY <1>1, <2>1, <3>2, PlaceTypes DEF LevelFull
        <5> QED
          BY <1>2, <5>1
      <4>3. FullTo(depth)'
        BY <1>2, <2>1, <4>1 DEF FullTo
      <4> QED
        BY <1>2, <2>1, <4>1, <4>2, <4>3 DEF PlaceInv
    <3> QED
      BY <3>1, <3>2
  <2>3. at' \in {"descend", "add_runs"}
    BY <1>2, <1>5 DEF Descend
  <2>4. FilesInv' /\ PlacesInv'
    <3>1. UNCHANGED <<before, mpc>> /\ writes' \in Nat /\ writes' >= writes
      BY <1>1 DEF MainInv, programVars
    <3> QED
      BY <1>2, <1>3, <2>1, <2>2, <2>3, <3>1, MovesOn
  <2>5. AgeInv' /\ KeepInv'
    <3>1. SameWrites
      BY <2>1, SameAfterNothing
    <3> QED
      BY <1>1, <1>2, <1>3, <3>1, SameOrder
  <2>6. MainInv'
    <3>1. toMerge' \subseteq 1..writes
      BY <1>1, <1>3 DEF MainInv
    <3> QED
      BY <1>1, <1>2, <2>3, <3>1, MainStays
  <2> QED
    BY <2>4, <2>5, <2>6 DEF ProgramInv
<1> QED
  BY <1>4, <1>5

\* After a run is filled the names, numbers and levels are as before.
LEMMA FilledPlaces ==
  ASSUME LevelTypes, LevelTypes', NameInv, LengthInv, NEW l \in DOMAIN levels, NEW r \in DOMAIN levels[l].runs,
         r = levels[l].active + 1, NEW w, Filled(l, r, w), at \in {"add_runs", "add"}, at' \in {"free", "idle"},
         at' = "free" => i' = 0, depth' = depth
  PROVE  NameInv' /\ LengthInv' /\ Len(levels') = Len(levels)
<1>1. /\ DOMAIN levels' = DOMAIN levels /\ \A m \in DOMAIN levels : m # l => levels'[m] = levels[m]
      /\ Len(levels'[l].runs) = Len(levels[l].runs) /\ levels'[l].active = r
      /\ DOMAIN levels'[l].runs = DOMAIN levels[l].runs
      /\ \A s \in DOMAIN levels[l].runs : At(l, s)'.name = At(l, s).name
  BY DEF Filled
<1>2. \A m \in DOMAIN levels : Len(levels'[m].runs) = NumRuns /\ NumRuns \in Nat /\ Len(levels[m].runs) = NumRuns
  BY <1>1, Parameters DEF LengthInv, RunsThere
<1>3. NameInv'
  <2> SUFFICES ASSUME NEW m \in DOMAIN levels', NEW s \in DOMAIN levels'[m].runs
               PROVE  At(m, s)'.name = <<m, s - 1 + Ahead(m, s)'>>
    BY DEF NameInv
  <2>1. s \in DOMAIN levels[m].runs /\ At(m, s)'.name = At(m, s).name
    BY <1>1 DEF At
  <2>2. At(m, s).name = <<m, s - 1>>
    BY <1>1, <2>1, PlainNames
  <2>3. s \in Nat
    BY <1>1, <2>1, PlaceTypes
  <2>4. Ahead(m, s)' = 0
    BY <1>1, <1>2 DEF Ahead
  <2>5. s - 1 + Ahead(m, s)' = s - 1
    BY <2>3, <2>4
  <2> QED
    BY <2>1, <2>2, <2>5
<1>4. LengthInv'
  <2> SUFFICES ASSUME NEW m \in DOMAIN levels'
               PROVE  /\ Len(levels'[m].runs) = RunsThere(m)' /\ Len(levels'[m].runs) <= NumRuns
                      /\ \A s \in DOMAIN levels'[m].runs : s > levels'[m].active => At(m, s)'.writes = {}
    BY DEF LengthInv
  <2>1. RunsThere(m)' = NumRuns
    BY <1>1, <1>2 DEF RunsThere
  <2>2. \A s \in DOMAIN levels'[m].runs : s > levels'[m].active => At(m, s)'.writes = {}
    <3>1. CASE m = l
      BY <3>1, BehindFilled
    <3>2. CASE m # l
      BY <1>1, <3>2 DEF LengthInv, At
    <3> QED
      BY <3>1, <3>2
  <2> QED
    BY <1>1, <1>2, <2>1, <2>2
<1> QED
  BY <1>1, <1>3, <1>4, SameLevels

\* AddRuns.
LEMMA AddRunsStep ==
  ASSUME ProgramInv, AddRuns, UNCHANGED programVars
  PROVE  ProgramInv'
<1>1. /\ FilesInv /\ NameInv /\ LengthInv /\ PlaceInv /\ AgeInv /\ KeepInv /\ MainInv /\ LevelTypes /\ OwnInv /\ Apart
  BY NamesApart DEF ProgramInv, FilesInv, PlacesInv
<1>2. /\ at = "add_runs" /\ depth \in 1..Len(levels) - 1 /\ FullTo(depth) /\ levels[depth + 1].active < NumRuns
      /\ NumRuns \in Nat /\ MergeSize \in 1..NumRuns /\ Len(levels) \in Nat /\ DOMAIN levels = 1..Len(levels)
  BY <1>1, Parameters DEF PlaceInv, LevelTypes, AddRuns
<1>3. PICK l : l = depth + 1
  OBVIOUS
<1>4. l \in DOMAIN levels /\ depth \in DOMAIN levels /\ depth \in Nat /\ l # depth
  BY <1>2, <1>3
<1>5. PICK r : r = levels[l].active + 1
  OBVIOUS
<1>6. Len(levels[l].runs) = NumRuns /\ Len(levels[depth].runs) = NumRuns
  BY <1>1, <1>2, <1>4 DEF LengthInv, RunsThere
<1>7. r \in DOMAIN levels[l].runs /\ r <= NumRuns /\ r >= 1
  <2>1. levels[l].active \in 0..NumRuns /\ DOMAIN levels[l].runs = 1..NumRuns
    BY <1>1, <1>4, <1>6, PlaceTypes
  <2> QED
    BY <1>2, <1>3, <1>5, <2>1
<1>8. PICK w : w = ToNextLevel(depth)
  OBVIOUS
<1>9. \A x : x \in w <=> \E t \in 1..MergeSize : x \in At(depth, t).writes
  BY <1>1, <1>4, <1>6, <1>8, ToNextLevelIs
<1>10. w \subseteq 1..writes /\ w \in SUBSET Nat
  <2>1. \A t \in 1..MergeSize : t \in DOMAIN levels[depth].runs
    BY <1>1, <1>2, <1>4, <1>6, PlaceTypes
  <2>2. \A t \in 1..MergeSize : At(depth, t).writes \subseteq 1..writes
    BY <1>1, <1>4, <2>1, Written
  <2>3. writes \in Nat
    BY <1>1 DEF MainInv
  <2>4. w \subseteq 1..writes
    BY <1>9, <2>2
  <2> QED
    BY <2>3, <2>4
<1>11. FillRun(l, w) /\ at' = "free" /\ i' = 0 /\ dir' = dir /\ depth' = depth /\ toMerge' = toMerge
  BY <1>3, <1>8 DEF AddRuns, ToNextLevel
<1>12. FilesInv' /\ Filled(l, r, w)
  <2>1. UNCHANGED <<dir, writes, before, mpc>>
    BY <1>11 DEF programVars
  <2> QED
    BY <1>1, <1>4, <1>5, <1>7, <1>10, <1>11, <2>1, FillRunFiles
<1>13. NameInv' /\ LengthInv' /\ Len(levels') = Len(levels)
  <2>1. LevelTypes'
    BY <1>12 DEF FilesInv
  <2> QED
    BY <1>1, <1>2, <1>4, <1>5, <1>7, <1>11, <1>12, <2>1, FilledPlaces
<1>14. PlaceInv'
  <2>1. FullTo(depth)'
    <3>1. \A m \in 1..depth : m \in DOMAIN levels /\ m # l
      BY <1>2, <1>3
    <3> QED
      BY <1>2, <1>11, <1>12, <3>1 DEF FullTo, Filled
  <2>2. levels'[l].active = r /\ levels'[l].runs[r].writes = w
    BY <1>12 DEF Filled, At
  <2>3. levels'[depth] = levels[depth] /\ \A t \in 1..MergeSize : levels[depth].runs[t].writes \subseteq w
    BY <1>4, <1>9, <1>12 DEF Filled, At
  <2>4. \A t \in 1..MergeSize - i' :
          levels'[depth'].runs[t].writes \subseteq levels'[depth' + 1].runs[levels'[depth' + 1].active].writes
    <3>1. MergeSize - 0 = MergeSize
      BY <1>2
    <3> QED
      BY <1>3, <1>11, <2>2, <2>3, <3>1
  <2>5. i' \in 0..NumRuns /\ i' \in 0..MergeSize
    BY <1>2, <1>11
  <2> QED
    BY <1>2, <1>3, <1>4, <1>7, <1>11, <1>13, <2>1, <2>2, <2>4, <2>5 DEF PlaceInv, At
<1>15. AgeInv' /\ KeepInv'
  <2>1. MergeSize <= Len(levels[depth].runs)
    BY <1>2, <1>6
  <2> QED
    BY <1>1, <1>2, <1>3, <1>4, <1>5, <1>7, <1>9, <1>11, <1>12, <2>1, AddRunsOrder
<1>16. MainInv'
  <2>1. toMerge' \subseteq 1..writes
    BY <1>1, <1>11 DEF MainInv
  <2> QED
    BY <1>1, <1>2, <1>11, <2>1, MainStays
<1> QED
  BY <1>12, <1>13, <1>14, <1>15, <1>16 DEF ProgramInv, PlacesInv

\* Add.
LEMMA AddStep ==
  ASSUME ProgramInv, Add, UNCHANGED programVars
  PROVE  ProgramInv'
<1>1. /\ FilesInv /\ NameInv /\ LengthInv /\ PlaceInv /\ AgeInv /\ KeepInv /\ MainInv /\ LevelTypes /\ OwnInv /\ Apart
  BY NamesApart DEF ProgramInv, FilesInv, PlacesInv
<1>2. /\ at = "add" /\ depth = 0 /\ levels[1].active < NumRuns
      /\ NumRuns \in Nat /\ 1 \in DOMAIN levels
  BY <1>1, Parameters DEF PlaceInv, LevelTypes, Add
<1>3. PICK r : r = levels[1].active + 1
  OBVIOUS
<1>4. Len(levels[1].runs) = NumRuns
  BY <1>1, <1>2 DEF LengthInv, RunsThere
<1>5. r \in DOMAIN levels[1].runs /\ r <= NumRuns
  <2>1. levels[1].active \in 0..NumRuns /\ DOMAIN levels[1].runs = 1..NumRuns
    BY <1>1, <1>2, <1>4, PlaceTypes
  <2> QED
    BY <1>2, <1>3, <2>1
<1>6. /\ FillRun(1, toMerge) /\ at' = "idle" /\ i' = i /\ dir' = dir /\ depth' = depth /\ toMerge' = {}
  BY DEF Add
<1>7. toMerge \subseteq 1..writes /\ toMerge \in SUBSET Nat
  <2>1. toMerge \subseteq 1..writes /\ writes \in Nat
    BY <1>1 DEF MainInv
  <2> QED
    BY <2>1
<1>8. FilesInv' /\ Filled(1, r, toMerge)
  <2>1. UNCHANGED <<dir, writes, before, mpc>>
    BY <1>6 DEF programVars
  <2> QED
    BY <1>1, <1>2, <1>3, <1>5, <1>6, <1>7, <2>1, FillRunFiles
<1>9. NameInv' /\ LengthInv' /\ Len(levels') = Len(levels)
  <2>1. LevelTypes'
    BY <1>8 DEF FilesInv
  <2> QED
    BY <1>1, <1>2, <1>3, <1>5, <1>6, <1>8, <2>1, FilledPlaces
<1>10. PlaceInv'
  BY <1>1, <1>2, <1>6, <1>9 DEF PlaceInv
<1>11. AgeInv' /\ KeepInv'
  BY <1>1, <1>2, <1>3, <1>5, <1>6, <1>8, AddOrder
<1>12. MainInv'
  <2>1. toMerge' \subseteq 1..writes
    BY <1>6
  <2> QED
    BY <1>1, <1>2, <1>6, <2>1, MainStays
<1> QED
  BY <1>8, <1>9, <1>10, <1>11, <1>12 DEF ProgramInv, PlacesInv

\* Return.
LEMMA ReturnStep ==
  ASSUME ProgramInv, Return, UNCHANGED programVars
  PROVE  ProgramInv'
<1>1. /\ PlaceInv /\ AgeInv /\ KeepInv /\ MainInv /\ LevelTypes
  BY DEF ProgramInv, FilesInv, PlacesInv
<1>2. /\ at = "create" /\ i = NumRuns /\ i' = 0 /\ depth' = depth - 1 /\ toMerge' = toMerge
      /\ levels' = levels /\ dir' = dir /\ data' = data /\ at' = (IF depth > 1 THEN "add_runs" ELSE "add")
  BY DEF Return, fileVars
<1>3. /\ depth \in 1..Len(levels) - 1 /\ FullTo(depth - 1) /\ levels[depth].active = NumRuns - MergeSize
      /\ NumRuns \in Nat /\ MergeSize \in 1..NumRuns /\ Len(levels) \in Nat
  BY <1>1, <1>2, Parameters DEF PlaceInv, LevelTypes
<1>4. PlaceInv'
  <2>1. FullTo(depth)'
    BY <1>2, <1>3 DEF FullTo
  <2>2. levels[depth].active < NumRuns /\ depth - 1 + 1 = depth
    BY <1>3
  <2>3. CASE depth > 1
    BY <1>2, <1>3, <2>1, <2>2, <2>3 DEF PlaceInv
  <2>4. CASE ~ (depth > 1)
    <3>1. depth = 1
      BY <1>3, <2>4
    <3> QED
      BY <1>2, <1>3, <2>1, <2>2, <3>1 DEF PlaceInv
  <2> QED
    BY <2>3, <2>4
<1>5. at' \in {"add_runs", "add"}
  BY <1>2
<1>6. FilesInv' /\ PlacesInv'
  <2>1. UNCHANGED <<before, mpc>> /\ writes' \in Nat /\ writes' >= writes
    BY <1>1 DEF MainInv, programVars
  <2> QED
    BY <1>2, <1>4, <1>5, <2>1, MovesOn
<1>7. AgeInv' /\ KeepInv'
  <2>1. SameWrites
    BY <1>2, SameAfterNothing
  <2> QED
    BY <1>1, <1>2, <2>1, SameOrder
<1>8. MainInv'
  <2>1. toMerge' \subseteq 1..writes
    BY <1>1, <1>2 DEF MainInv
  <2> QED
    BY <1>1, <1>2, <1>5, <2>1, MainStays
<1> QED
  BY <1>6, <1>7, <1>8 DEF ProgramInv

\* FreeRun.
LEMMA FreeRunStep ==
  ASSUME ProgramInv, FreeRun, UNCHANGED programVars
  PROVE  ProgramInv'
<1>1. /\ FilesInv /\ NameInv /\ LengthInv /\ PlaceInv /\ AgeInv /\ KeepInv /\ MainInv /\ LevelTypes /\ OwnInv /\ Apart
  BY NamesApart DEF ProgramInv, FilesInv, PlacesInv
<1>2. /\ at = "free" /\ depth \in 1..Len(levels) - 1 /\ FullTo(depth) /\ levels[depth + 1].active >= 1
      /\ NumRuns \in Nat /\ MergeSize \in 1..NumRuns /\ Len(levels) \in Nat /\ DOMAIN levels = 1..Len(levels)
      /\ i \in Nat /\ i < MergeSize
  BY <1>1, Parameters DEF PlaceInv, LevelTypes, FreeRun
<1>3. PICK l, k : l = depth /\ k = depth + 1
  OBVIOUS
<1>4. l \in DOMAIN levels /\ k \in DOMAIN levels /\ depth \in Nat /\ l # k
  BY <1>2, <1>3
<1>5. Len(levels[l].runs) = NumRuns - i /\ Len(levels[k].runs) = NumRuns
  BY <1>1, <1>2, <1>3, <1>4 DEF LengthInv, RunsThere
<1>6. /\ levels[l].runs \in Seq(RunRec) /\ DOMAIN levels[l].runs = 1..NumRuns - i
      /\ levels[k].active \in 0..NumRuns /\ DOMAIN levels[k].runs = 1..NumRuns
  BY <1>1, <1>4, <1>5, PlaceTypes
<1>7. levels[l].runs # << >>
  BY <1>2, <1>5
<1>8. DeleteRun(l) /\ at' = at /\ i' = i + 1 /\ depth' = depth /\ toMerge' = toMerge
  BY <1>3 DEF FreeRun
<1>9. FilesInv' /\ Shrunk(l)
  <2>1. UNCHANGED <<writes, before, mpc>>
    BY DEF programVars
  <2> QED
    BY <1>1, <1>4, <1>7, <1>8, <2>1, DeleteRunFiles
<1>10. LevelTypes' /\ DOMAIN levels' = DOMAIN levels /\ Len(levels') = Len(levels)
  <2>1. LevelTypes' /\ DOMAIN levels' = DOMAIN levels
    BY <1>9 DEF FilesInv, Shrunk
  <2> QED
    BY <1>1, <2>1, SameLevels
<1>11. /\ \A m \in DOMAIN levels : m # l => levels'[m] = levels[m]
       /\ Len(levels'[l].runs) = NumRuns - i - 1 /\ levels'[l].active = levels[l].active
       /\ \A s \in DOMAIN levels'[l].runs : s + 1 \in DOMAIN levels[l].runs /\ levels'[l].runs[s] = levels[l].runs[s + 1]
  BY <1>5, <1>9 DEF Shrunk, At
<1>12. DOMAIN levels'[l].runs = 1..NumRuns - i - 1
  <2>1. levels' \in Seq(LevelRec)
    BY <1>10 DEF LevelTypes
  <2>2. levels'[l] \in LevelRec
    BY <1>4, <1>10, <2>1
  <2>3. levels'[l].runs \in Seq(RunRec)
    BY <2>2 DEF LevelRec
  <2> QED
    BY <1>11, <2>3
<1>13. NameInv'
  <2> SUFFICES ASSUME NEW m \in DOMAIN levels', NEW s \in DOMAIN levels'[m].runs
               PROVE  At(m, s)'.name = <<m, s - 1 + Ahead(m, s)'>>
    BY DEF NameInv
  <2>1. CASE m = l
    <3>1. At(m, s)' = At(m, s + 1) /\ s + 1 \in DOMAIN levels[m].runs
      BY <1>11, <2>1 DEF At
    <3>2. At(m, s + 1).name = <<m, (s + 1) - 1 + Ahead(m, s + 1)>>
      BY <1>1, <1>4, <2>1, <3>1 DEF NameInv
    <3>3. Ahead(m, s + 1) = NumRuns - (NumRuns - i) /\ Ahead(m, s)' = NumRuns - (NumRuns - i - 1)
      BY <1>2, <1>5, <1>8, <1>11, <2>1 DEF Ahead
    <3>4. s \in Nat
      BY <1>2, <1>12, <2>1
    <3>5. (s + 1) - 1 + Ahead(m, s + 1) = s - 1 + Ahead(m, s)'
      BY <1>2, <3>3, <3>4
    <3> QED
      BY <3>1, <3>2, <3>5
  <2>2. CASE m # l
    <3>1. levels'[m] = levels[m] /\ m \in DOMAIN levels /\ s \in DOMAIN levels[m].runs /\ At(m, s)' = At(m, s)
      BY <1>10, <1>11, <2>2 DEF At
    <3>2. Ahead(m, s)' = Ahead(m, s)
      BY <1>2, <1>8, <3>1 DEF Ahead
    <3> QED
      BY <1>1, <3>1, <3>2 DEF NameInv
  <2> QED
    BY <2>1, <2>2
<1>14. LengthInv'
  <2> SUFFICES ASSUME NEW m \in DOMAIN levels'
               PROVE  /\ Len(levels'[m].runs) = RunsThere(m)' /\ Len(levels'[m].runs) <= NumRuns
                      /\ \A s \in DOMAIN levels'[m].runs : s > levels'[m].active => At(m, s)'.writes = {}
    BY DEF LengthInv
  <2>1. CASE m = l
    <3>1. RunsThere(m)' = NumRuns - (i + 1) /\ NumRuns - (i + 1) = NumRuns - i - 1
      BY <1>2, <1>3, <1>8, <2>1 DEF RunsThere
    <3>2. levels[l].active = NumRuns
      BY <1>2, <1>3 DEF FullTo
    <3>3. \A s \in DOMAIN levels'[m].runs : ~ (s > NumRuns)
      BY <1>2, <1>12, <2>1
    <3> QED
      BY <1>2, <1>11, <2>1, <3>1, <3>2, <3>3
  <2>2. CASE m # l
    <3>1. RunsThere(m)' = RunsThere(m)
      BY <1>2, <1>3, <1>8, <2>2 DEF RunsThere
    <3> QED
      BY <1>1, <1>2, <1>10, <1>11, <2>2, <3>1 DEF LengthInv, At
  <2> QED
    BY <2>1, <2>2
<1>15. \A r \in 1..MergeSize - i : At(l, r).writes \subseteq At(k, levels[k].active).writes
  BY <1>1, <1>2, <1>3 DEF PlaceInv
<1>16. PlaceInv'
  <2>1. FullTo(depth)'
    <3>1. \A m \in DOMAIN levels : levels'[m].active = levels[m].active
      BY <1>11
    <3>2. \A m \in 1..depth : m \in DOMAIN levels
      BY <1>2
    <3> QED
      BY <1>2, <1>8, <3>1, <3>2 DEF FullTo
  <2>2. \A r \in 1..MergeSize - i' :
          levels'[depth'].runs[r].writes \subseteq levels'[depth' + 1].runs[levels'[depth' + 1].active].writes
    <3> SUFFICES ASSUME NEW r \in 1..MergeSize - (i + 1)
                 PROVE  levels'[l].runs[r].writes \subseteq levels'[k].runs[levels'[k].active].writes
      BY <1>3, <1>8
    <3>1. r \in DOMAIN levels'[l].runs /\ r + 1 \in 1..MergeSize - i
      BY <1>2, <1>12
    <3>2. levels'[l].runs[r] = At(l, r + 1) /\ levels'[k] = levels[k]
      BY <1>4, <1>11, <3>1 DEF At
    <3> QED
      BY <1>15, <3>1, <3>2 DEF At
  <2>3. i' \in 0..NumRuns /\ i' \in 0..MergeSize
    BY <1>2, <1>8
  <2>4. levels'[depth + 1].active >= 1
    BY <1>2, <1>3, <1>4, <1>11
  <2> QED
    BY <1>2, <1>4, <1>8, <1>10, <2>1, <2>2, <2>3, <2>4 DEF PlaceInv, At
<1>17. AgeInv' /\ KeepInv'
  <2>1. PICK c \in DOMAIN levels[k].runs : c = levels[k].active
    BY <1>2, <1>3, <1>6
  <2>2. At(l, 1).writes \subseteq At(k, c).writes
    <3>1. 1 \in 1..MergeSize - i
      BY <1>2
    <3> QED
      BY <1>15, <2>1, <3>1
  <2> QED
    BY <1>1, <1>2, <1>3, <1>4, <1>7, <1>8, <1>9, <1>10, <2>1, <2>2, FreeRunOrder
<1>18. MainInv'
  <2>1. toMerge' \subseteq 1..writes
    BY <1>1, <1>8 DEF MainInv
  <2> QED
    BY <1>1, <1>2, <1>8, <2>1, MainStays
<1> QED
  BY <1>9, <1>13, <1>14, <1>16, <1>17, <1>18 DEF ProgramInv, PlacesInv

\* Freed.
LEMMA FreedStep ==
  ASSUME ProgramInv, Freed, UNCHANGED programVars
  PROVE  ProgramInv'
<1>1. /\ FilesInv /\ NameInv /\ LengthInv /\ PlaceInv /\ AgeInv /\ KeepInv /\ MainInv /\ LevelTypes
  BY DEF ProgramInv, FilesInv, PlacesInv
<1>2. /\ at = "free" /\ i = MergeSize /\ at' = "rename" /\ i' = 0
      /\ dir' = dir /\ data' = data /\ depth' = depth /\ toMerge' = toMerge
  BY DEF Freed
<1>3. /\ depth \in 1..Len(levels) - 1 /\ FullTo(depth)
      /\ NumRuns \in Nat /\ MergeSize \in 1..NumRuns /\ Len(levels) \in Nat /\ DOMAIN levels = 1..Len(levels)
  BY <1>1, <1>2, Parameters DEF PlaceInv, LevelTypes
<1>4. PICK l : l = depth
  OBVIOUS
<1>5. l \in DOMAIN levels /\ depth \in Nat /\ levels[l].active = NumRuns
  BY <1>3, <1>4 DEF FullTo
<1>6. Len(levels[l].runs) = NumRuns - MergeSize /\ DOMAIN levels[l].runs = 1..NumRuns - MergeSize
  <2>1. Len(levels[l].runs) = NumRuns - MergeSize
    BY <1>1, <1>2, <1>4, <1>5 DEF LengthInv, RunsThere
  <2> QED
    BY <1>1, <1>5, <2>1, PlaceTypes
<1>7. PICK a \in 0..NumRuns : a = NumRuns - MergeSize
  BY <1>3
<1>8. FilesInv' /\ Reduced(l, a)
  <2>1. levels' = [levels EXCEPT ![l].active = a]
    <3>1. levels[l].active - MergeSize = a
      BY <1>5, <1>7
    <3>2. levels' = [levels EXCEPT ![l].active = levels[l].active - MergeSize]
      BY <1>4, Zenon DEF Freed
    <3> QED
      BY <3>1, <3>2
  <2>2. UNCHANGED <<dir, data, writes, before, mpc>>
    BY <1>2 DEF programVars
  <2> QED
    BY <1>1, <1>5, <2>1, <2>2, FreedFiles
<1>9. LevelTypes' /\ DOMAIN levels' = DOMAIN levels /\ Len(levels') = Len(levels)
  <2>1. LevelTypes' /\ DOMAIN levels' = DOMAIN levels
    BY <1>8 DEF FilesInv, Reduced
  <2> QED
    BY <1>1, <2>1, SameLevels
<1>10. /\ \A m \in DOMAIN levels : levels'[m].runs = levels[m].runs
       /\ levels'[l].active = a /\ \A m \in DOMAIN levels : m # l => levels'[m] = levels[m]
  BY <1>8 DEF Reduced
<1>11. NameInv'
  <2> SUFFICES ASSUME NEW m \in DOMAIN levels', NEW s \in DOMAIN levels'[m].runs
               PROVE  At(m, s)'.name = <<m, s - 1 + Ahead(m, s)'>>
    BY DEF NameInv
  <2>1. m \in DOMAIN levels /\ s \in DOMAIN levels[m].runs /\ At(m, s)' = At(m, s)
    BY <1>9, <1>10 DEF At
  <2>2. Ahead(m, s)' = Ahead(m, s)
    <3>1. CASE m = l
      <4>1. s >= 1 /\ s \in Nat
        BY <1>3, <1>6, <2>1, <3>1
      <4>2. Ahead(m, s)' = MergeSize
        BY <1>2, <1>4, <3>1, <4>1 DEF Ahead
      <4>3. Ahead(m, s) = NumRuns - (NumRuns - MergeSize)
        BY <1>2, <1>6, <3>1 DEF Ahead
      <4> QED
        BY <1>3, <4>2, <4>3
    <3>2. CASE m # l
      <4>1. Ahead(m, s)' = 0
        BY <1>2, <1>4, <3>2 DEF Ahead
      <4>2. Len(levels[m].runs) = NumRuns
        BY <1>1, <1>2, <1>4, <2>1, <3>2 DEF LengthInv, RunsThere
      <4>3. Ahead(m, s) = NumRuns - NumRuns
        BY <1>2, <4>2 DEF Ahead
      <4> QED
        BY <1>3, <4>1, <4>3
    <3> QED
      BY <3>1, <3>2
  <2> QED
    BY <1>1, <2>1, <2>2 DEF NameInv
<1>12. LengthInv'
  <2> SUFFICES ASSUME NEW m \in DOMAIN levels'
               PROVE  /\ Len(levels'[m].runs) = RunsThere(m)' /\ Len(levels'[m].runs) <= NumRuns
                      /\ \A s \in DOMAIN levels'[m].runs : s > levels'[m].active => At(m, s)'.writes = {}
    BY DEF LengthInv
  <2>1. CASE m = l
    <3>1. RunsThere(m)' = NumRuns - MergeSize
      BY <1>2, <1>4, <2>1 DEF RunsThere
    <3>2. \A s \in DOMAIN levels'[m].runs : ~ (s > a)
      BY <1>3, <1>5, <1>6, <1>7, <1>10, <2>1
    <3>3. Len(levels'[m].runs) = NumRuns - MergeSize /\ NumRuns - MergeSize <= NumRuns /\ levels'[m].active = a
      BY <1>3, <1>5, <1>6, <1>10, <2>1
    <3> QED
      BY <3>1, <3>2, <3>3
  <2>2. CASE m # l
    <3>1. RunsThere(m)' = RunsThere(m)
      BY <1>2, <1>4, <2>2 DEF RunsThere
    <3> QED
      BY <1>1, <1>2, <1>9, <1>10, <2>2, <3>1 DEF LengthInv, At
  <2> QED
    BY <2>1, <2>2
<1>13. PlaceInv'
  <2>1. FullTo(depth - 1)'
    <3>1. \A m \in 1..depth - 1 : m \in DOMAIN levels /\ m # l /\ m \in 1..depth
      BY <1>3, <1>4
    <3> QED
      BY <1>2, <1>3, <1>10, <3>1 DEF FullTo
  <2>2. i' \in 0..NumRuns /\ i' \in 0..NumRuns - MergeSize
    BY <1>2, <1>3
  <2> QED
    BY <1>2, <1>3, <1>4, <1>5, <1>7, <1>9, <1>10, <2>1, <2>2 DEF PlaceInv
<1>14. AgeInv' /\ KeepInv'
  <2>1. SameWrites
    BY <1>5, <1>8, SameAfterReduced
  <2> QED
    BY <1>1, <1>2, <2>1, SameOrder
<1>15. MainInv'
  <2>1. toMerge' \subseteq 1..writes
    BY <1>1, <1>2 DEF MainInv
  <2> QED
    BY <1>1, <1>2, <2>1, MainStays
<1> QED
  BY <1>8, <1>11, <1>12, <1>13, <1>14, <1>15 DEF ProgramInv, PlacesInv

\* AllRenamed.
LEMMA AllRenamedStep ==
  ASSUME ProgramInv, AllRenamed, UNCHANGED programVars
  PROVE  ProgramInv'
<1>1. /\ FilesInv /\ NameInv /\ LengthInv /\ PlaceInv /\ AgeInv /\ KeepInv /\ MainInv /\ LevelTypes
  BY DEF ProgramInv, FilesInv, PlacesInv
<1>2. /\ at = "rename" /\ i = levels[depth].active /\ at' = "create" /\ i' = i
      /\ levels' = levels /\ dir' = dir /\ data' = data /\ depth' = depth /\ toMerge' = toMerge
  BY DEF AllRenamed, fileVars
<1>3. /\ depth \in 1..Len(levels) - 1 /\ FullTo(depth - 1) /\ levels[depth].active = NumRuns - MergeSize
      /\ NumRuns \in Nat /\ MergeSize \in 1..NumRuns /\ Len(levels) \in Nat /\ DOMAIN levels = 1..Len(levels)
      /\ depth \in DOMAIN levels /\ depth \in Nat
  BY <1>1, <1>2, Parameters DEF PlaceInv, LevelTypes
<1>4. Len(levels[depth].runs) = NumRuns - MergeSize /\ DOMAIN levels[depth].runs = 1..NumRuns - MergeSize
  <2>1. Len(levels[depth].runs) = NumRuns - MergeSize
    BY <1>1, <1>2, <1>3 DEF LengthInv, RunsThere
  <2> QED
    BY <1>1, <1>3, <2>1, PlaceTypes
<1>5. FilesInv'
  <2>1. writes \in Nat /\ mpc # "off" /\ UNCHANGED <<fileVars, before, writes>>
    BY <1>1, <1>2 DEF MainInv, programVars, fileVars
  <2> QED
    BY <1>1, <2>1, SameFiles
<1>6. NameInv' /\ LengthInv'
  <2>1. ASSUME NEW m \in DOMAIN levels, NEW s \in DOMAIN levels[m].runs PROVE Ahead(m, s)' = Ahead(m, s)
    <3>1. ~ (m = depth /\ s > i)
      BY <1>2, <1>3, <1>4
    <3> QED
      BY <1>2, <3>1 DEF Ahead
  <2>2. \A m \in DOMAIN levels : RunsThere(m)' = RunsThere(m)
    BY <1>2, <1>3 DEF RunsThere
  <2> QED
    BY <1>1, <1>2, <2>1, <2>2, SamePlaces
<1>7. PlaceInv'
  <2>1. FullTo(depth - 1)'
    BY <1>2, <1>3 DEF FullTo
  <2>2. i' \in 0..NumRuns /\ i' \in NumRuns - MergeSize..NumRuns
    BY <1>2, <1>3
  <2> QED
    BY <1>2, <1>3, <2>1, <2>2 DEF PlaceInv
<1>8. AgeInv' /\ KeepInv'
  <2>1. SameWrites
    BY <1>2, SameAfterNothing
  <2> QED
    BY <1>1, <1>2, <2>1, SameOrder
<1>9. MainInv'
  <2>1. toMerge' \subseteq 1..writes
    BY <1>1, <1>2 DEF MainInv
  <2> QED
    BY <1>1, <1>2, <2>1, MainStays
<1> QED
  BY <1>5, <1>6, <1>7, <1>8, <1>9 DEF ProgramInv, PlacesInv

\* RenameRun.
LEMMA RenameRunStep ==
  ASSUME ProgramInv, RenameRun, UNCHANGED programVars
  PROVE  ProgramInv'
<1>1. /\ FilesInv /\ NameInv /\ LengthInv /\ PlaceInv /\ AgeInv /\ KeepInv /\ MainInv /\ LevelTypes /\ Apart
  BY NamesApart DEF ProgramInv, FilesInv, PlacesInv
<1>2. /\ at = "rename" /\ i < levels[depth].active /\ at' = at /\ i' = i + 1 /\ depth' = depth /\ toMerge' = toMerge
  BY DEF RenameRun
<1>3. /\ depth \in 1..Len(levels) - 1 /\ FullTo(depth - 1) /\ levels[depth].active = NumRuns - MergeSize
      /\ NumRuns \in Nat /\ MergeSize \in 1..NumRuns /\ Len(levels) \in Nat /\ DOMAIN levels = 1..Len(levels)
      /\ i \in Nat
  BY <1>1, <1>2, Parameters DEF PlaceInv, LevelTypes
<1>4. PICK l : l = depth
  OBVIOUS
<1>5. l \in DOMAIN levels /\ l \in Nat /\ l >= 1
  BY <1>3, <1>4
<1>6. Len(levels[l].runs) = NumRuns - MergeSize /\ DOMAIN levels[l].runs = 1..NumRuns - MergeSize
  <2>1. Len(levels[l].runs) = NumRuns - MergeSize
    BY <1>1, <1>2, <1>4, <1>5 DEF LengthInv, RunsThere
  <2> QED
    BY <1>1, <1>5, <2>1, PlaceTypes
<1>7. PICK r \in DOMAIN levels[l].runs : r = i + 1
  BY <1>2, <1>3, <1>4, <1>6
<1>8. PICK new \in Names : new = <<l, i>>
  <2>1. <<l, i>> \in Names
    BY <1>3, <1>5 DEF Names
  <2> QED
    BY <2>1
<1>9. \A m \in DOMAIN levels : \A s \in DOMAIN levels[m].runs : At(m, s).name # new
  <2> SUFFICES ASSUME NEW m \in DOMAIN levels, NEW s \in DOMAIN levels[m].runs, At(m, s).name = new PROVE FALSE
    OBVIOUS
  <2>1. <<m, s - 1 + Ahead(m, s)>> = <<l, i>>
    BY <1>1, <1>8 DEF NameInv
  <2>2. m = l /\ s - 1 + Ahead(l, s) = i
    BY <2>1
  <2>3. s \in Nat
    BY <1>6, <2>2
  <2> QED
    BY <1>2, <1>3, <1>4, <2>2, <2>3 DEF Ahead
<1>10. FilesInv' /\ Named(l, r, new)
  <2>1. UNCHANGED <<writes, before, mpc>>
    BY DEF programVars
  <2> QED
    BY <1>1, <1>3, <1>4, <1>5, <1>7, <1>8, <1>9, <2>1, RenameRunFiles
<1>11. LevelTypes' /\ DOMAIN levels' = DOMAIN levels /\ Len(levels') = Len(levels)
  <2>1. LevelTypes' /\ DOMAIN levels' = DOMAIN levels
    BY <1>10 DEF FilesInv, Named
  <2> QED
    BY <1>1, <2>1, SameLevels
<1>12. /\ \A m \in DOMAIN levels : m # l => levels'[m] = levels[m]
       /\ \A m \in DOMAIN levels : levels'[m].active = levels[m].active /\ Len(levels'[m].runs) = Len(levels[m].runs)
       /\ \A m \in DOMAIN levels : DOMAIN levels'[m].runs = DOMAIN levels[m].runs
       /\ \A m \in DOMAIN levels : \A s \in DOMAIN levels[m].runs :
            /\ At(m, s)'.writes = At(m, s).writes /\ (~ (m = l /\ s = r) => At(m, s)' = At(m, s))
       /\ At(l, r)'.name = new
  BY <1>10 DEF Named, At
<1>13. NameInv'
  <2> SUFFICES ASSUME NEW m \in DOMAIN levels', NEW s \in DOMAIN levels'[m].runs
               PROVE  At(m, s)'.name = <<m, s - 1 + Ahead(m, s)'>>
    BY DEF NameInv
  <2>1. m \in DOMAIN levels /\ s \in DOMAIN levels[m].runs
    BY <1>11, <1>12
  <2>2. CASE m = l /\ s = r
    <3>1. Ahead(m, s)' = 0
      BY <1>2, <1>3, <1>7, <2>2 DEF Ahead
    <3>2. s - 1 + Ahead(m, s)' = i
      BY <1>3, <1>7, <2>2, <3>1
    <3> QED
      BY <1>8, <1>12, <2>2, <3>2
  <2>3. CASE ~ (m = l /\ s = r)
    <3>1. Ahead(m, s)' = Ahead(m, s)
      <4>1. s \in Nat
        BY <1>1, <2>1, PlaceTypes
      <4>2. m = depth => (s > i + 1 <=> s > i)
        BY <1>3, <1>4, <1>7, <2>3, <4>1
      <4> QED
        BY <1>2, <4>2 DEF Ahead
    <3> QED
      BY <1>1, <1>12, <2>1, <2>3, <3>1 DEF NameInv
  <2> QED
    BY <2>2, <2>3
<1>14. LengthInv'
  <2>1. \A m \in DOMAIN levels : RunsThere(m)' = RunsThere(m)
    BY <1>2 DEF RunsThere
  <2> QED
    BY <1>1, <1>2, <1>11, <1>12, <2>1 DEF LengthInv
<1>15. PlaceInv'
  <2>1. FullTo(depth - 1)'
    <3>1. \A m \in 1..depth - 1 : m \in DOMAIN levels
      BY <1>3
    <3> QED
      BY <1>2, <1>3, <1>12, <3>1 DEF FullTo
  <2>2. i' \in 0..NumRuns /\ i' \in 0..NumRuns - MergeSize
    BY <1>2, <1>3
  <2>3. levels'[depth].active = NumRuns - MergeSize
    BY <1>3, <1>4, <1>5, <1>12
  <2> QED
    BY <1>2, <1>3, <1>4, <1>5, <1>11, <2>1, <2>2, <2>3 DEF PlaceInv
<1>16. AgeInv' /\ KeepInv'
  <2>1. SameWrites
    BY <1>5, <1>10, SameAfterNamed
  <2> QED
    BY <1>1, <1>2, <2>1, SameOrder
<1>17. MainInv'
  <2>1. toMerge' \subseteq 1..writes
    BY <1>1, <1>2 DEF MainInv
  <2> QED
    BY <1>1, <1>2, <2>1, MainStays
<1> QED
  BY <1>10, <1>13, <1>14, <1>15, <1>16, <1>17 DEF ProgramInv, PlacesInv

----------------------------------------------------------------------------
(* The steps of main *)

\* DestroyRun.
LEMMA DestroyRunStep ==
  ASSUME ProgramInv, DestroyRun, UNCHANGED programVars
  PROVE  ProgramInv'
<1>1. /\ FilesInv /\ NameInv /\ LengthInv /\ PlaceInv /\ AgeInv /\ KeepInv /\ MainInv /\ LevelTypes /\ Apart
  BY NamesApart DEF ProgramInv, FilesInv, PlacesInv
<1>2. /\ at = "destroy" /\ RunsLeft # {} /\ UNCHANGED workVars
      /\ at' = at /\ i' = i /\ depth' = depth /\ toMerge' = toMerge
  BY DEF DestroyRun, workVars
<1>3. PICK l \in DOMAIN levels : l = Min(RunsLeft) /\ levels[l].runs # << >>
  <2>1. RunsLeft \in SUBSET Nat
    BY <1>1 DEF RunsLeft, LevelTypes
  <2>2. Min(RunsLeft) \in RunsLeft
    BY <1>2, <2>1, MinOfNats
  <2> QED
    BY <2>2 DEF RunsLeft
<1>4. FilesInv' /\ Shrunk(l)
  <2>1. DeleteRun(l)
    BY <1>3 DEF DestroyRun
  <2>2. UNCHANGED <<writes, before, mpc>>
    BY DEF programVars
  <2> QED
    BY <1>1, <1>3, <2>1, <2>2, DeleteRunFiles
<1>5. LevelTypes' /\ DOMAIN levels' = DOMAIN levels /\ Len(levels') = Len(levels)
  <2>1. LevelTypes' /\ DOMAIN levels' = DOMAIN levels
    BY <1>4 DEF FilesInv, Shrunk
  <2> QED
    BY <1>1, <2>1, SameLevels
<1>6. /\ \A m \in DOMAIN levels : m # l => levels'[m] = levels[m]
      /\ Len(levels'[l].runs) = Len(levels[l].runs) - 1 /\ levels'[l].active = levels[l].active
      /\ \A s \in DOMAIN levels'[l].runs : s + 1 \in DOMAIN levels[l].runs /\ At(l, s)' = At(l, s + 1)
  BY <1>4 DEF Shrunk
<1>7. /\ Len(levels[l].runs) \in Nat /\ NumRuns \in Nat /\ levels[l].active \in Nat
      /\ \A s \in DOMAIN levels'[l].runs : s \in Nat
  <2>1. levels' \in Seq(LevelRec)
    BY <1>5 DEF LevelTypes
  <2>2. levels'[l] \in LevelRec
    BY <1>5, <2>1
  <2>3. levels'[l].runs \in Seq(RunRec)
    BY <2>2 DEF LevelRec
  <2> QED
    BY <1>1, <2>3, PlaceTypes, Parameters
<1>8. NameInv'
  <2> SUFFICES ASSUME NEW m \in DOMAIN levels', NEW s \in DOMAIN levels'[m].runs
               PROVE  At(m, s)'.name = <<m, s - 1 + Ahead(m, s)'>>
    BY DEF NameInv
  <2>1. CASE m = l
    <3>1. At(m, s)' = At(m, s + 1) /\ s + 1 \in DOMAIN levels[m].runs
      BY <1>6, <2>1
    <3>2. At(m, s + 1).name = <<m, (s + 1) - 1 + Ahead(m, s + 1)>>
      BY <1>1, <2>1, <3>1 DEF NameInv
    <3>3. Ahead(m, s + 1) = NumRuns - Len(levels[l].runs) /\ Ahead(m, s)' = NumRuns - (Len(levels[l].runs) - 1)
      BY <1>2, <1>6, <2>1 DEF Ahead
    <3>4. (s + 1) - 1 + Ahead(m, s + 1) = s - 1 + Ahead(m, s)'
      <4>1. PICK n \in Nat : n = Len(levels[l].runs)
        BY <1>7
      <4>2. s \in Nat /\ NumRuns \in Nat
        BY <1>7, <2>1
      <4>3. (s + 1) - 1 + (NumRuns - n) = s - 1 + (NumRuns - (n - 1))
        BY <4>2
      <4> QED
        BY <3>3, <4>1, <4>3
    <3> QED
      BY <3>1, <3>2, <3>4
  <2>2. CASE m # l
    <3>1. levels'[m] = levels[m] /\ m \in DOMAIN levels /\ s \in DOMAIN levels[m].runs /\ At(m, s)' = At(m, s)
      BY <1>5, <1>6, <2>2 DEF At
    <3>2. Ahead(m, s)' = Ahead(m, s)
      BY <1>2, <3>1 DEF Ahead
    <3> QED
      BY <1>1, <3>1, <3>2 DEF NameInv
  <2> QED
    BY <2>1, <2>2
<1>9. LengthInv'
  <2> SUFFICES ASSUME NEW m \in DOMAIN levels'
               PROVE  /\ Len(levels'[m].runs) <= NumRuns
                      /\ \A s \in DOMAIN levels'[m].runs : s > levels'[m].active => At(m, s)'.writes = {}
    BY <1>2 DEF LengthInv
  <2>1. /\ Len(levels[m].runs) <= NumRuns
        /\ \A s \in DOMAIN levels[m].runs : s > levels[m].active => At(m, s).writes = {}
    BY <1>1, <1>5 DEF LengthInv
  <2>2. CASE m = l
    <3>1. \A s \in DOMAIN levels'[m].runs : s > levels'[m].active => At(m, s)'.writes = {}
      <4> SUFFICES ASSUME NEW s \in DOMAIN levels'[m].runs, s > levels'[m].active PROVE At(m, s)'.writes = {}
        OBVIOUS
      <4>1. s + 1 > levels[m].active /\ s + 1 \in DOMAIN levels[m].runs /\ At(m, s)' = At(m, s + 1)
        BY <1>6, <1>7, <2>2
      <4> QED
        BY <2>1, <4>1
    <3> QED
      BY <1>6, <1>7, <2>1, <2>2, <3>1
  <2>3. CASE m # l
    BY <1>5, <1>6, <2>1, <2>3 DEF At
  <2> QED
    BY <2>2, <2>3
<1>10. PlaceInv'
  BY <1>1, <1>2, <1>5 DEF PlaceInv
<1>11. AgeInv'
  <2>1. UNCHANGED <<toMerge, buffer>>
    BY <1>2 DEF programVars
  <2> QED
    BY <1>1, <1>2, <1>4, <1>5, <2>1, DestroyRunOrder
<1>12. KeepInv' /\ MainInv'
  BY <1>1, <1>2 DEF KeepInv, MainInv, programVars
<1> QED
  BY <1>4, <1>8, <1>9, <1>10, <1>11, <1>12 DEF ProgramInv, PlacesInv

\* Without levels there is nothing to say of the runs.
LEMMA NoLevels ==
  ASSUME DOMAIN levels' = {}, Len(levels') = 0, levels' = << >>, at' = "none", depth' = 0, i' \in 0..NumRuns,
         toMerge' = {}
  PROVE  PlacesInv' /\ AgeInv'
<1>1. NameInv' /\ LengthInv'
  BY DEF NameInv, LengthInv
<1>2. PlaceInv'
  BY DEF PlaceInv
<1>3. AgeInv'
  BY DEF AgeInv
<1> QED
  BY <1>1, <1>2, <1>3 DEF PlacesInv

\* Destroyed.
LEMMA DestroyedStep ==
  ASSUME ProgramInv, Destroyed, UNCHANGED programVars
  PROVE  ProgramInv'
<1>1. /\ FilesInv /\ PlaceInv /\ MainInv /\ LevelTypes
  BY DEF ProgramInv, FilesInv, PlacesInv
<1>2. /\ at = "destroy" /\ RunsLeft = {} /\ at' = "none" /\ levels' = << >> /\ data' = Settle(data, dir, << >>)
      /\ dir' = dir /\ depth' = depth /\ i' = i /\ toMerge' = toMerge
  BY DEF Destroyed
<1>3. FilesInv' /\ DOMAIN levels' = {} /\ Len(levels') = 0
  <2>1. \A l \in DOMAIN levels : levels[l].runs = << >>
    BY <1>2 DEF RunsLeft
  <2>2. mpc' = mpc /\ UNCHANGED <<dir, writes, before>>
    BY <1>2 DEF programVars
  <2> QED
    BY <1>1, <1>2, <2>1, <2>2, GoneFiles
<1>4. PlacesInv' /\ AgeInv'
  <2>1. depth' = 0 /\ toMerge' = {} /\ i' \in 0..NumRuns
    BY <1>1, <1>2 DEF PlaceInv
  <2> QED
    BY <1>2, <1>3, <2>1, NoLevels
<1>5. KeepInv' /\ MainInv'
  BY <1>1, <1>2 DEF KeepInv, MainInv, programVars
<1> QED
  BY <1>3, <1>4, <1>5 DEF ProgramInv

\* Die, at any step.
LEMMA DieStep == ASSUME ProgramInv, Die PROVE ProgramInv'
<1>1. /\ FilesInv /\ MainInv
  BY DEF ProgramInv
<1>2. /\ levels' = << >> /\ data' = Settle(data, dir, << >>) /\ dir' = dir
      /\ at' = "none" /\ depth' = 0 /\ i' = 0 /\ toMerge' = {}
      /\ mpc' = "off" /\ buffer' = {} /\ args' = 0 /\ file' = 0 /\ lines' = 0 /\ pairs' = 0
      /\ writes' = writes /\ starts' = starts /\ before' = before
  BY DEF Die, Stop
<1>3. FilesInv' /\ DOMAIN levels' = {} /\ Len(levels') = 0
  BY <1>1, <1>2, GoneFiles
<1>4. PlacesInv' /\ AgeInv'
  <2>1. i' \in 0..NumRuns
    BY <1>2, Parameters
  <2> QED
    BY <1>2, <1>3, <2>1, NoLevels
<1>5. KeepInv' /\ MainInv'
  BY <1>1, <1>2, Parameters DEF KeepInv, MainInv
<1> QED
  BY <1>3, <1>4, <1>5 DEF ProgramInv

\* Start.
LEMMA StartStep == ASSUME ProgramInv, Start PROVE ProgramInv'
<1>1. /\ FilesInv /\ PlaceInv /\ MainInv
  BY DEF ProgramInv, PlacesInv
<1>2. /\ mpc \in {"off", "returned"} /\ starts < MaxStarts /\ starts' = starts + 1 /\ args' \in 0..MaxArgs
      /\ at' = "construct" /\ depth' = 0 /\ i' = 0 /\ levels' = << FreshLevel >>
      /\ dir' = dir /\ data' = data /\ toMerge' = toMerge /\ mpc' = "construct" /\ buffer' = {}
      /\ before' = [names |-> DOMAIN dir, writes |-> writes]
      /\ file' = file /\ lines' = lines /\ pairs' = pairs /\ writes' = writes
  BY <1>1 DEF Start, Running, Construct, MainInv
<1>3. at = "none" /\ toMerge = {} /\ file = 0
  BY <1>1, <1>2 DEF MainInv, PlaceInv
<1>4. /\ FilesInv' /\ DOMAIN levels' = {1} /\ Len(levels') = 1
      /\ DOMAIN levels'[1].runs = {} /\ Len(levels'[1].runs) = 0 /\ levels'[1].active = 0
  BY <1>1, <1>2, FirstFiles
<1>5. NameInv' /\ LengthInv'
  <2>1. RunsThere(1)' = 0
    BY <1>2 DEF RunsThere
  <2> QED
    BY <1>4, <2>1, Parameters DEF NameInv, LengthInv
<1>6. PlaceInv'
  <2>1. FullTo(depth)'
    BY <1>2 DEF FullTo
  <2>2. i' \in 0..NumRuns
    BY <1>2, Parameters
  <2> QED
    BY <1>2, <1>3, <1>4, <2>1, <2>2 DEF PlaceInv
<1>7. AgeInv'
  BY <1>2, <1>3, <1>4 DEF AgeInv
<1>8. KeepInv'
  BY <1>2 DEF KeepInv
<1>9. MainInv'
  <2>1. before'.writes = writes
    BY <1>2
  <2>2. starts' \in 0..MaxStarts
    BY <1>1, <1>2, Parameters DEF MainInv
  <2>3. file' = 0 /\ file' <= args' + 1 /\ file' \in Nat
    <3>1. PICK a \in Nat : args' = a
      BY <1>2
    <3>2. 0 <= a + 1
      OBVIOUS
    <3>3. file' = 0
      BY <1>2, <1>3
    <3> QED
      BY <3>1, <3>2, <3>3
  <2>4. writes \in Nat /\ writes \in 0..writes
    BY <1>1 DEF MainInv
  <2> QED
    BY <1>1, <1>2, <1>3, <2>1, <2>2, <2>3, <2>4 DEF MainInv
<1> QED
  BY <1>4, <1>5, <1>6, <1>7, <1>8, <1>9 DEF ProgramInv, PlacesInv

\* Steps of main that leave the tree and the buffer alone.
LEMMA StillStep ==
  ASSUME ProgramInv, UNCHANGED <<runFilesVars, buffer, writes, before>>, mpc # "off" \/ mpc' = "off",
         mpc' \in {"open", "line", "load"} => mpc \in {"construct", "open", "line", "load"}
  PROVE  FilesInv' /\ PlacesInv' /\ AgeInv' /\ KeepInv'
<1>1. /\ FilesInv /\ NameInv /\ LengthInv /\ PlaceInv /\ AgeInv /\ KeepInv /\ MainInv
  BY DEF ProgramInv, PlacesInv
<1>2. levels' = levels /\ at' = at /\ depth' = depth /\ i' = i /\ toMerge' = toMerge /\ dir' = dir /\ data' = data
  BY DEF runFilesVars, fileVars, workVars
<1>3. FilesInv'
  <2>1. UNCHANGED <<fileVars, before>> /\ writes \in Nat /\ writes' = writes
    BY <1>1 DEF runFilesVars, MainInv
  <2> QED
    BY <1>1, <2>1, SameFiles
<1>4. NameInv'
  BY <1>1, <1>2 DEF NameInv, Ahead, At
<1>5. LengthInv'
  BY <1>1, <1>2 DEF LengthInv, RunsThere, At
<1>6. PlaceInv'
  BY <1>1, <1>2 DEF PlaceInv, FullTo, At
<1>7. AgeInv'
  BY <1>1, <1>2 DEF AgeInv, MergedInto, At
<1>8. KeepInv'
  <2>1. InRuns' = InRuns
    BY <1>2 DEF InRuns, At
  <2>2. mpc = "construct" => before.writes + 1..writes = {}
    BY <1>1 DEF MainInv
  <2> QED
    BY <1>1, <1>2, <2>1, <2>2 DEF KeepInv
<1> QED
  BY <1>3, <1>4, <1>5, <1>6, <1>7, <1>8 DEF PlacesInv

\* Interactive, Batch, OpenFirst, OpenAgain, EndOfFile: main goes on to its next input.
LEMMA InputStep ==
  ASSUME ProgramInv, Interactive \/ Batch \/ OpenFirst \/ OpenAgain \/ EndOfFile
  PROVE  ProgramInv'
<1>1. PlaceInv /\ MainInv
  BY DEF ProgramInv, PlacesInv
<1>2. /\ UNCHANGED <<runFilesVars, buffer, writes, before>> /\ mpc # "off"
      /\ mpc \in {"construct", "open", "line", "load"}
  BY DEF Interactive, Batch, OpenFirst, OpenAgain, EndOfFile
<1>3. FilesInv' /\ PlacesInv' /\ AgeInv' /\ KeepInv'
  BY <1>2, StillStep
<1>4. /\ at' = at /\ depth' = depth /\ toMerge' = toMerge /\ buffer' = buffer /\ writes' = writes /\ before' = before
      /\ args' = args /\ starts' = starts /\ pairs' = pairs
  BY <1>2 DEF runFilesVars, workVars, Interactive, Batch, OpenFirst, OpenAgain, EndOfFile
<1>5. MainInv'
  <2>1. CASE Interactive
    <3>1. mpc = "construct" /\ at = "idle" /\ args = 1 /\ mpc' = "line" /\ lines' \in 0..MaxLines /\ file' = file
      BY <2>1 DEF Interactive
    <3> QED
      BY <1>1, <1>4, <3>1 DEF MainInv
  <2>2. CASE Batch
    <3>1. mpc = "construct" /\ at = "idle" /\ mpc' = "open" /\ file' = 1 /\ lines' = lines
      BY <2>2 DEF Batch
    <3>2. args \in Nat /\ 1 <= args + 1 /\ 1 \in 1..args + 1
      BY <1>1, Parameters DEF MainInv
    <3> QED
      BY <1>1, <1>4, <3>1, <3>2 DEF MainInv
  <2>3. CASE OpenFirst
    <3>1. mpc = "open" /\ file = 1 /\ file <= args /\ mpc' = "line" /\ lines' \in 0..MaxLines /\ file' = file
      BY <2>3 DEF OpenFirst
    <3>2. args \in Nat /\ file \in 1..args
      BY <1>1, <3>1, Parameters DEF MainInv
    <3> QED
      BY <1>1, <1>4, <3>1, <3>2 DEF MainInv
  <2>4. CASE OpenAgain
    <3>1. mpc = "open" /\ file > 1 /\ file <= args /\ mpc' = mpc /\ lines' = lines /\ file' = file + 1
      BY <2>4 DEF OpenAgain
    <3>2. args \in Nat /\ file' \in 1..args + 1 /\ file' \in Nat /\ file' <= args + 1
      BY <1>1, <3>1, Parameters DEF MainInv
    <3> QED
      BY <1>1, <1>4, <3>1, <3>2 DEF MainInv
  <2>5. CASE EndOfFile
    <3>1. mpc = "line" /\ args # 1 /\ mpc' = "open" /\ file' = file + 1 /\ lines' = lines
      BY <2>5 DEF EndOfFile
    <3>2. args \in Nat /\ file \in 1..args
      BY <1>1, <3>1, Parameters DEF MainInv
    <3>3. file' \in 1..args + 1 /\ file' \in Nat /\ file' <= args + 1
      BY <3>1, <3>2
    <3> QED
      BY <1>1, <1>4, <3>1, <3>2, <3>3 DEF MainInv
  <2> QED
    BY <2>1, <2>2, <2>3, <2>4, <2>5
<1> QED
  BY <1>3, <1>5 DEF ProgramInv

\* Load, Loaded, Read, NoCommand: queryLine without a write.
LEMMA LineStep ==
  ASSUME ProgramInv, Load \/ Loaded \/ Read \/ NoCommand
  PROVE  ProgramInv'
<1>1. PlaceInv /\ MainInv
  BY DEF ProgramInv, PlacesInv
<1>2. /\ UNCHANGED <<runFilesVars, buffer, writes, before>> /\ mpc # "off"
      /\ mpc \in {"line", "load"} /\ mpc' \in {"line", "load"}
  BY DEF Load, Loaded, Read, NoCommand
<1>3. FilesInv' /\ PlacesInv' /\ AgeInv' /\ KeepInv'
  BY <1>2, StillStep
<1>4. /\ at' = at /\ depth' = depth /\ toMerge' = toMerge /\ buffer' = buffer /\ writes' = writes /\ before' = before
      /\ args' = args /\ starts' = starts /\ file' = file
  BY <1>2 DEF runFilesVars, workVars, Load, Loaded, Read, NoCommand
<1>5. lines' \in 0..MaxLines
  <2>1. lines \in 0..MaxLines /\ MaxLines \in Nat
    BY <1>1, Parameters DEF MainInv
  <2>2. lines' = lines \/ (lines > 0 /\ lines' = lines - 1)
    BY DEF Load, Loaded, Read, NoCommand
  <2> QED
    BY <2>1, <2>2
<1>6. pairs' \in 0..MaxPairs
  <2>1. pairs \in 0..MaxPairs /\ MaxPairs \in Nat
    BY <1>1, Parameters DEF MainInv
  <2>2. CASE Load
    <3>1. PICK n \in 0..2 * MaxPairs + 1 : pairs' = n \div 2
      BY <2>2 DEF Load, PairsOf
    <3> QED
      BY <2>1, <3>1
  <2>3. CASE ~ Load
    <3>1. pairs' = pairs \/ pairs' = 0
      BY <2>3 DEF Loaded, Read, NoCommand
    <3> QED
      BY <2>1, <3>1
  <2> QED
    BY <2>2, <2>3
<1>7. MainInv'
  BY <1>1, <1>2, <1>4, <1>5, <1>6 DEF MainInv
<1> QED
  BY <1>3, <1>7 DEF ProgramInv

\* Write and LoadPair, also when they start a merge.
LEMMA WriteStep == ASSUME ProgramInv, Write \/ LoadPair PROVE ProgramInv'
<1>1. FilesInv /\ PlaceInv /\ AgeInv /\ KeepInv /\ MainInv /\ PlacesInv /\ LevelTypes
  BY DEF ProgramInv, PlacesInv, FilesInv
<1>2. /\ mpc \in {"line", "load"} /\ InsertKey /\ mpc' = mpc
      /\ args' = args /\ file' = file /\ starts' = starts /\ before' = before
  BY DEF Write, LoadPair
<1>3. /\ AgeInv' /\ KeepInv' /\ levels' = levels /\ writes' = writes + 1
      /\ toMerge' \subseteq 1..writes' /\ buffer' \subseteq 1..writes'
  BY <1>1, <1>2, InsertOrder
<1>4. writes \in Nat /\ writes' \in Nat /\ writes' >= writes
  BY <1>1, <1>3 DEF MainInv
<1>5. /\ FilesInv' /\ PlacesInv' /\ at' \notin {"none", "destroy"}
      /\ (at' = "construct" /\ depth' = 0) => (at = "construct" /\ depth = 0)
  <2>1. at \notin {"none", "destroy"}
    BY <1>1, <1>2 DEF MainInv
  <2>2. CASE UNCHANGED runFilesVars
    <3>1. levels' = levels /\ at' = at /\ depth' = depth /\ i' = i /\ toMerge' = toMerge /\ dir' = dir /\ data' = data
      BY <2>2 DEF runFilesVars, fileVars, workVars
    <3>2. FilesInv'
      <4>1. UNCHANGED <<fileVars, before>> /\ mpc # "off"
        BY <1>2, <3>1 DEF fileVars
      <4> QED
        BY <1>1, <1>4, <4>1, SameFiles
    <3>3. NameInv'
      BY <1>1, <3>1 DEF PlacesInv, NameInv, Ahead, At
    <3>4. LengthInv'
      BY <1>1, <3>1 DEF PlacesInv, LengthInv, RunsThere, At
    <3>5. PlaceInv'
      BY <1>1, <3>1 DEF PlaceInv, FullTo, At
    <3> QED
      BY <2>1, <3>1, <3>2, <3>3, <3>4, <3>5 DEF PlacesInv
  <2>3. CASE Merge(buffer)
    <3>1. /\ at = "idle" /\ dir' = dir /\ data' = data /\ levels' = levels /\ i' = i
          /\ \/ LevelFull(1) /\ at' = "descend" /\ depth' = 1
             \/ ~ LevelFull(1) /\ at' = "add" /\ depth' = depth
      BY <2>3 DEF Merge, fileVars
    <3>2. 1 \in DOMAIN levels /\ depth = 0 /\ Len(levels) >= 1 /\ Len(levels) \in Nat
      BY <1>1, <3>1 DEF PlaceInv, LevelTypes
    <3>3. levels[1].active \in 0..NumRuns /\ NumRuns \in Nat /\ i \in 0..NumRuns
      BY <1>1, <3>2, PlaceTypes, Parameters DEF PlaceInv
    <3>4. PlaceInv'
      <4>1. CASE LevelFull(1) /\ at' = "descend" /\ depth' = 1
        <5>1. FullTo(depth)'
          BY <3>1, <4>1 DEF FullTo, LevelFull
        <5> QED
          BY <3>1, <3>2, <3>3, <4>1, <5>1 DEF PlaceInv
      <4>2. CASE ~ LevelFull(1) /\ at' = "add" /\ depth' = depth
        <5>1. levels[1].active < NumRuns
          BY <3>3, <4>2 DEF LevelFull
        <5> QED
          BY <3>1, <3>2, <3>3, <4>2, <5>1 DEF PlaceInv
      <4> QED
        BY <3>1, <4>1, <4>2
    <3>5. at' \in {"descend", "add"}
      BY <3>1
    <3>6. FilesInv' /\ PlacesInv'
      BY <1>2, <1>4, <3>1, <3>4, <3>5, MovesOn
    <3> QED
      BY <3>5, <3>6
  <2> QED
    BY <1>2, <2>2, <2>3 DEF InsertKey
<1>6. lines' \in 0..MaxLines /\ pairs' \in 0..MaxPairs
  <2>1. lines \in 0..MaxLines /\ MaxLines \in Nat /\ pairs \in 0..MaxPairs /\ MaxPairs \in Nat
    BY <1>1, Parameters DEF MainInv
  <2>2. lines' = lines \/ (lines > 0 /\ lines' = lines - 1)
    BY DEF Write, LoadPair
  <2>3. pairs' = pairs \/ (pairs > 0 /\ pairs' = pairs - 1)
    BY DEF Write, LoadPair
  <2> QED
    BY <2>1, <2>2, <2>3
<1>7. MainInv'
  <2>1. before.writes \in 0..writes'
    BY <1>1, <1>3, <1>4 DEF MainInv
  <2>2. args \in 0..MaxArgs /\ file \in Nat /\ file <= args + 1 /\ starts \in 0..MaxStarts /\ (args = 1 \/ file \in 1..args)
    BY <1>1, <1>2 DEF MainInv
  <2>3. at' \notin {"none", "destroy"} /\ ~ (at' = "construct" /\ depth' = 0)
    BY <1>1, <1>2, <1>5 DEF MainInv
  <2> QED
    BY <1>2, <1>3, <1>4, <1>6, <2>1, <2>2, <2>3 DEF MainInv
<1> QED
  BY <1>3, <1>5, <1>7 DEF ProgramInv

\* ReturnZero.
LEMMA ReturnZeroStep == ASSUME ProgramInv, ReturnZero PROVE ProgramInv'
<1>1. /\ FilesInv /\ NameInv /\ LengthInv /\ PlaceInv /\ AgeInv /\ MainInv /\ LevelTypes
  BY DEF ProgramInv, PlacesInv, FilesInv
<1>2. /\ mpc = "open" /\ at = "idle" /\ at' = "destroy" /\ mpc' = "destroy"
      /\ levels' = levels /\ dir' = dir /\ data' = data /\ depth' = depth /\ i' = i /\ toMerge' = toMerge
      /\ args' = args /\ file' = file /\ lines' = lines /\ pairs' = pairs /\ buffer' = buffer /\ writes' = writes
      /\ starts' = starts /\ before' = before
  BY DEF ReturnZero, Destroy, fileVars
<1>3. FilesInv'
  <2>1. UNCHANGED <<fileVars, before>> /\ writes \in Nat /\ writes' = writes /\ mpc # "off"
    BY <1>1, <1>2 DEF fileVars, MainInv
  <2> QED
    BY <1>1, <2>1, SameFiles
<1>4. \A m \in DOMAIN levels : Len(levels[m].runs) = NumRuns /\ NumRuns \in Nat
  BY <1>1, <1>2, Parameters DEF LengthInv, RunsThere
<1>5. NameInv'
  <2> SUFFICES ASSUME NEW m \in DOMAIN levels, NEW s \in DOMAIN levels[m].runs
               PROVE  Ahead(m, s)' = Ahead(m, s)
    BY <1>1, <1>2 DEF NameInv, At
  <2>1. Len(levels[m].runs) = NumRuns /\ NumRuns - NumRuns = 0
    BY <1>4
  <2> QED
    BY <1>2, <2>1 DEF Ahead
<1>6. LengthInv'
  BY <1>1, <1>2 DEF LengthInv, At
<1>7. PlaceInv'
  BY <1>1, <1>2 DEF PlaceInv
<1>8. AgeInv'
  BY <1>1, <1>2 DEF AgeInv, MergedInto, At
<1>9. KeepInv' /\ MainInv'
  BY <1>1, <1>2 DEF KeepInv, MainInv
<1> QED
  BY <1>3, <1>5, <1>6, <1>7, <1>8, <1>9 DEF ProgramInv, PlacesInv

\* Returned.
LEMMA ReturnedStep == ASSUME ProgramInv, Returned PROVE ProgramInv'
<1>1. /\ FilesInv /\ PlaceInv /\ MainInv
  BY DEF ProgramInv, PlacesInv
<1>2. /\ mpc = "destroy" /\ at = "none" /\ mpc' = "returned" /\ buffer' = {} /\ args' = 0 /\ file' = 0
      /\ levels' = levels /\ dir' = dir /\ data' = data /\ at' = at /\ depth' = depth /\ i' = i /\ toMerge' = toMerge
      /\ lines' = lines /\ pairs' = pairs /\ writes' = writes /\ starts' = starts /\ before' = before
  BY DEF Returned, runFilesVars, fileVars, workVars
<1>3. FilesInv'
  <2>1. UNCHANGED <<fileVars, before>> /\ writes \in Nat /\ writes' = writes /\ mpc # "off"
    BY <1>1, <1>2 DEF fileVars, MainInv
  <2> QED
    BY <1>1, <2>1, SameFiles
<1>4. PlacesInv' /\ AgeInv'
  <2>1. levels = << >> /\ depth = 0 /\ toMerge = {} /\ i \in 0..NumRuns
    BY <1>1, <1>2 DEF PlaceInv
  <2>2. DOMAIN levels' = {} /\ Len(levels') = 0
    BY <1>2, <2>1
  <2> QED
    BY <1>2, <2>1, <2>2, NoLevels
<1>5. KeepInv' /\ MainInv'
  BY <1>1, <1>2, Parameters DEF KeepInv, MainInv
<1> QED
  BY <1>3, <1>4, <1>5 DEF ProgramInv

----------------------------------------------------------------------------
(* The invariant holds *)

\* At the start there is no file and no process.
LEMMA ProgramInvInit == Init => ProgramInv
<1> SUFFICES ASSUME Init PROVE ProgramInv
  OBVIOUS
<1>1. /\ dir = << >> /\ data = << >> /\ levels = << >> /\ at = "none" /\ depth = 0 /\ i = 0 /\ toMerge = {}
      /\ mpc = "off" /\ args = 0 /\ file = 0 /\ lines = 0 /\ pairs = 0 /\ buffer = {} /\ writes = 0 /\ starts = 0
      /\ before = [names |-> {}, writes |-> 0]
  BY DEF Init
<1>2. DOMAIN dir = {} /\ DOMAIN data = {} /\ DOMAIN levels = {} /\ levels \in Seq(LevelRec) /\ before.writes = 0
  BY <1>1
<1>3. FilesInv
  <2>1. Range(dir) = {}
    BY <1>2 DEF Range
  <2>2. IsFiniteSet(DOMAIN data)
    BY <1>2, FS_EmptySet
  <2> QED
    BY <1>1, <1>2, <2>1, <2>2 DEF FilesInv, LevelTypes, DirInv, OwnInv, ForeignInv
<1>4. NameInv /\ LengthInv
  BY <1>2 DEF NameInv, LengthInv
<1>5. PlaceInv
  BY <1>1, Parameters DEF PlaceInv
<1>6. AgeInv /\ KeepInv
  BY <1>1, <1>2 DEF AgeInv, KeepInv
<1>7. MainInv
  BY <1>1, <1>2, Parameters DEF MainInv
<1> QED
  BY <1>3, <1>4, <1>5, <1>6, <1>7 DEF ProgramInv, PlacesInv

\* EmptyLines and Over, and steps of nobody.
LEMMA NoStep == ASSUME ProgramInv, UNCHANGED vars PROVE ProgramInv'
<1>1. /\ UNCHANGED <<runFilesVars, buffer, writes, before>> /\ (mpc # "off" \/ mpc' = "off")
      /\ mpc' \in {"open", "line", "load"} => mpc \in {"construct", "open", "line", "load"}
  BY DEF vars, programVars
<1>2. FilesInv' /\ PlacesInv' /\ AgeInv' /\ KeepInv'
  BY <1>1, StillStep
<1>3. MainInv'
  BY DEF ProgramInv, MainInv, vars, programVars, runFilesVars, workVars
<1> QED
  BY <1>2, <1>3 DEF ProgramInv

\* Each step keeps the invariant: one case for each action of the two threads.
LEMMA ProgramInvNext == ProgramInv /\ [Next]_vars => ProgramInv'
<1> SUFFICES ASSUME ProgramInv, [Next]_vars PROVE ProgramInv'
  OBVIOUS
<1>1. CASE Start
  BY <1>1, StartStep
<1>2. CASE Die
  BY <1>2, DieStep
<1>3. CASE Merging
  <2>1. UNCHANGED programVars
    BY <1>3 DEF Merging
  <2>2. CASE Descend
    BY <2>1, <2>2, DescendStep
  <2>3. CASE ConstructRun \/ CreateRun
    BY <2>1, <2>3, NewRunStep
  <2>4. CASE Constructed
    BY <2>1, <2>4, ConstructedStep
  <2>5. CASE AddRuns
    BY <2>1, <2>5, AddRunsStep
  <2>6. CASE FreeRun
    BY <2>1, <2>6, FreeRunStep
  <2>7. CASE Freed
    BY <2>1, <2>7, FreedStep
  <2>8. CASE RenameRun
    BY <2>1, <2>8, RenameRunStep
  <2>9. CASE AllRenamed
    BY <2>1, <2>9, AllRenamedStep
  <2>10. CASE Return
    BY <2>1, <2>10, ReturnStep
  <2>11. CASE Add
    BY <2>1, <2>11, AddStep
  <2> QED
    BY <1>3, <2>2, <2>3, <2>4, <2>5, <2>6, <2>7, <2>8, <2>9, <2>10, <2>11 DEF Merging, MergeThread
<1>4. CASE MainThread /\ UNCHANGED programVars
  <2>1. CASE ConstructRun
    BY <1>4, <2>1, NewRunStep
  <2>2. CASE Constructed
    BY <1>4, <2>2, ConstructedStep
  <2>3. CASE DestroyRun
    BY <1>4, <2>3, DestroyRunStep
  <2>4. CASE Destroyed
    BY <1>4, <2>4, DestroyedStep
  <2> QED
    BY <1>4, <2>1, <2>2, <2>3, <2>4 DEF MainThread
<1>5. CASE Interactive \/ Batch \/ OpenFirst \/ OpenAgain \/ EndOfFile
  BY <1>5, InputStep
<1>6. CASE Load \/ Loaded \/ Read \/ NoCommand
  BY <1>6, LineStep
<1>7. CASE Write \/ LoadPair
  BY <1>7, WriteStep
<1>8. CASE ReturnZero
  BY <1>8, ReturnZeroStep
<1>9. CASE Returned
  BY <1>9, ReturnedStep
<1>10. CASE EmptyLines \/ Over \/ UNCHANGED vars
  BY <1>10, NoStep DEF EmptyLines, Over
<1> QED
  BY <1>1, <1>2, <1>3, <1>4, <1>5, <1>6, <1>7, <1>8, <1>9, <1>10 DEF Next, Main

\* The invariant, of which all else follows.
LEMMA ProgramInvHolds == Spec => []ProgramInv
  BY ProgramInvInit, ProgramInvNext, PTL DEF Spec

----------------------------------------------------------------------------
(* What follows *)

\* A run of the tree is at a place of a level.
LEMMA LiveRunAt ==
  ASSUME LevelTypes, NEW run \in LiveRuns
  PROVE  \E l \in DOMAIN levels : \E r \in DOMAIN levels[l].runs : run = At(l, r)
<1>1. PICK level \in ToSet(levels) : run \in ToSet(level.runs)
  BY DEF LiveRuns
<1>2. PICK l \in DOMAIN levels : level = levels[l]
  BY DEF ToSet
<1>3. PICK r \in DOMAIN levels[l].runs : run = levels[l].runs[r]
  BY <1>1, <1>2 DEF ToSet
<1> QED
  BY <1>3 DEF At

\* And each run at a place is one of the tree.
LEMMA AtIsLive ==
  ASSUME NEW l \in DOMAIN levels, NEW r \in DOMAIN levels[l].runs
  PROVE  At(l, r) \in LiveRuns
<1>1. levels[l] \in ToSet(levels) /\ At(l, r) \in ToSet(levels[l].runs)
  BY DEF ToSet, At
<1> QED
  BY <1>1 DEF LiveRuns

\* The types of the variables.
THEOREM ProgramTypeCorrect == Spec => []TypeOK
<1>1. ASSUME ProgramInv PROVE TypeOK
  <2>1. FilesInv /\ LevelTypes /\ DirInv /\ OwnInv /\ LengthInv /\ PlaceInv /\ MainInv
    BY <1>1 DEF ProgramInv, PlacesInv, FilesInv
  <2>2. \A n \in DOMAIN dir : n \in Names /\ dir[n] \in DOMAIN data
    BY <2>1 DEF DirInv, Range
  <2>3. DOMAIN data = FilesOf(dir, levels)
    <3>1. ASSUME NEW level \in ToSet(levels), NEW run \in ToSet(level.runs) PROVE run.file \in Range(dir)
      <4>1. run \in LiveRuns
        BY <3>1 DEF LiveRuns
      <4>2. PICK l \in DOMAIN levels : \E r \in DOMAIN levels[l].runs : run = At(l, r)
        BY <2>1, <4>1, LiveRunAt
      <4>3. PICK r \in DOMAIN levels[l].runs : run = At(l, r)
        BY <4>2
      <4> QED
        BY <2>1, <4>3 DEF OwnInv, Range
    <3>2. DOMAIN data = Range(dir)
      BY <2>1 DEF DirInv
    <3> QED
      BY <3>1, <3>2 DEF FilesOf
  <2>4. \A f \in DOMAIN data : data[f] \subseteq 1..writes
    BY <2>1 DEF DirInv
  <2>5. ASSUME NEW l \in DOMAIN levels
        PROVE  levels[l].runs \in Seq(Runs) /\ Len(levels[l].runs) <= NumRuns /\ levels[l].active \in 0..NumRuns
    <3>1. levels[l].runs \in Seq(RunRec) /\ levels[l].active \in 0..NumRuns
      BY <2>1, PlaceTypes
    <3>2. ASSUME NEW r \in DOMAIN levels[l].runs PROVE levels[l].runs[r] \in Runs
      <4>1. At(l, r) \in RunRec /\ At(l, r) = levels[l].runs[r]
        BY <3>1 DEF At
      <4>2. At(l, r).writes \subseteq 1..writes
        BY <2>1, Written
      <4>3. At(l, r).file \in DOMAIN data
        BY <2>1 DEF OwnInv, DirInv, Range
      <4> QED
        BY <4>1, <4>2, <4>3 DEF RunRec, Runs
    <3>3. levels[l].runs \in Seq(Runs)
      BY <3>1, <3>2
    <3> QED
      BY <2>1, <3>1, <3>3 DEF LengthInv
  <2>6. depth \in 0..Len(levels) /\ i \in 0..NumRuns
        /\ at \in {"none", "construct", "idle", "descend", "add_runs", "free", "rename", "create", "add", "destroy"}
    <3>1. Len(levels) \in Nat
      BY <2>1 DEF LevelTypes
    <3> QED
      BY <2>1, <3>1 DEF PlaceInv
  <2>7. file \in 0..MaxArgs + 1
    BY <2>1, Parameters DEF MainInv
  <2> QED
    BY <2>1, <2>2, <2>3, <2>4, <2>5, <2>6, <2>7 DEF TypeOK, MainInv
<1> QED
  BY <1>1, ProgramInvHolds, PTL

\* Each run has its own name and file, at every step of the renaming, and what it
\* has written is in the file, whatever was left there by others.
THEOREM RunsOwnTheirFiles == Spec => []OwnFiles
<1>1. ASSUME ProgramInv PROVE OwnFiles
  <2>1. LevelTypes /\ OwnInv /\ Apart
    BY <1>1, NamesApart DEF ProgramInv, PlacesInv, FilesInv
  <2>2. ASSUME NEW run \in LiveRuns
        PROVE  run.name \in DOMAIN dir /\ dir[run.name] = run.file /\ data[run.file] = run.writes
    <3>1. PICK l \in DOMAIN levels : \E r \in DOMAIN levels[l].runs : run = At(l, r)
      BY <2>1, LiveRunAt
    <3>2. PICK r \in DOMAIN levels[l].runs : run = At(l, r)
      BY <3>1
    <3> QED
      BY <2>1, <3>2 DEF OwnInv
  <2>3. \A l, m \in DOMAIN levels : \A r \in DOMAIN levels[l].runs, s \in DOMAIN levels[m].runs :
          levels[l].runs[r].name = levels[m].runs[s].name => l = m /\ r = s
    BY <2>1 DEF Apart, At
  <2> QED
    BY <2>2, <2>3 DEF OwnFiles
<1> QED
  BY <1>1, ProgramInvHolds, PTL

\* At every step of a merge each write of the process is in the buffer, with the merge
\* thread or in a file that has a name.
THEOREM NoWriteLost == Spec => []NothingLost
<1>1. ASSUME ProgramInv PROVE NothingLost
  <2>1. LevelTypes /\ OwnInv /\ KeepInv
    BY <1>1 DEF ProgramInv, FilesInv
  <2>2. ASSUME NEW l \in DOMAIN levels, NEW r \in DOMAIN levels[l].runs, NEW x \in At(l, r).writes
        PROVE  x \in OnDisk
    <3>1. At(l, r) \in LiveRuns
      BY AtIsLive
    <3>2. At(l, r).name \in DOMAIN dir /\ x \in data[dir[At(l, r).name]]
      BY <2>1, <2>2 DEF OwnInv
    <3> QED
      BY <3>1, <3>2 DEF OnDisk
  <2>3. InRuns \subseteq OnDisk
    BY <2>2 DEF InRuns
  <2> QED
    BY <2>1, <2>3 DEF KeepInv, NothingLost
<1> QED
  BY <1>1, ProgramInvHolds, PTL

\* By level and name the runs are in the order of their writes, in every state but those
\* in which freeMergedRuns has still to delete runs of the merge that has just been
\* made; only these are out of order, only with the result of the merge, and what is in
\* their files is in its file.
THEOREM RunsByAge == Spec => []AgeOrder
<1>1. ASSUME ProgramInv PROVE AgeOrder
  <2> SUFFICES ASSUME NEW run \in LiveRuns, NEW other \in LiveRuns,
                      \/ run.name[1] > other.name[1]
                      \/ run.name[1] = other.name[1] /\ run.name[2] < other.name[2]
               PROVE  \/ \A x \in data[run.file], y \in data[other.file] : x < y
                      \/ /\ at = "free" /\ run = MergeResult /\ other \in Doomed
                         /\ data[other.file] \subseteq data[run.file]
    BY DEF AgeOrder
  <2>1. LevelTypes /\ OwnInv /\ NameInv /\ PlaceInv /\ AgeInv
    BY <1>1 DEF ProgramInv, FilesInv, PlacesInv
  <2>2. PICK l \in DOMAIN levels : \E r \in DOMAIN levels[l].runs : run = At(l, r)
    BY <2>1, LiveRunAt
  <2>3. PICK r \in DOMAIN levels[l].runs : run = At(l, r)
    BY <2>2
  <2>4. PICK m \in DOMAIN levels : \E s \in DOMAIN levels[m].runs : other = At(m, s)
    BY <2>1, LiveRunAt
  <2>5. PICK s \in DOMAIN levels[m].runs : other = At(m, s)
    BY <2>4
  <2>6. data[run.file] = At(l, r).writes /\ data[other.file] = At(m, s).writes
    BY <2>1, <2>3, <2>5 DEF OwnInv
  <2>7. /\ run.name[1] = l /\ run.name[2] = r - 1 + Ahead(l, r)
        /\ other.name[1] = m /\ other.name[2] = s - 1 + Ahead(m, s)
    BY <2>1, <2>3, <2>5 DEF NameInv
  <2>8. l > m \/ (l = m /\ r < s)
    <3>1. CASE l > m
      BY <3>1
    <3>2. CASE l = m /\ r - 1 + Ahead(l, r) < s - 1 + Ahead(l, s)
      <4>1. r \in Nat /\ s \in Nat /\ Len(levels[l].runs) \in Nat /\ NumRuns \in Nat /\ MergeSize \in Nat /\ i \in Nat
        BY <2>1, <2>3, <2>5, <3>2, PlaceTypes, Parameters DEF PlaceInv
      <4>2. r < s
        BY <3>2, <4>1 DEF Ahead
      <4> QED
        BY <3>2, <4>2
    <3> QED
      BY <2>7, <3>1, <3>2
  <2>9. CASE MergedInto(l, r, m, s)
    <3>1. at = "free" /\ m = depth /\ l = depth + 1 /\ r = levels[l].active /\ s <= MergeSize - i
      BY <2>9 DEF MergedInto
    <3>2. s \in 1..MergeSize - i
      BY <2>1, <2>5, <3>1, PlaceTypes, Parameters DEF PlaceInv
    <3>3. At(m, s).writes \subseteq At(l, r).writes
      BY <2>1, <3>1, <3>2 DEF PlaceInv
    <3>4. run = MergeResult /\ other \in Doomed
      BY <2>3, <2>5, <3>1, <3>2 DEF MergeResult, Doomed, At
    <3> QED
      BY <2>6, <3>1, <3>3, <3>4
  <2>10. CASE ~ MergedInto(l, r, m, s)
    BY <2>1, <2>6, <2>8, <2>10 DEF AgeInv
  <2> QED
    BY <2>9, <2>10
<1> QED
  BY <1>1, ProgramInvHolds, PTL

\* A process that returns from main leaves only files that were there before it, with
\* nothing of its own in them.
THEOREM ExitsClean == Spec => []CleanExit
<1>1. ASSUME ProgramInv PROVE CleanExit
  <2> SUFFICES ASSUME mpc = "returned", NEW n \in DOMAIN dir
               PROVE  n \in before.names /\ data[dir[n]] \subseteq 1..before.writes
    BY DEF CleanExit
  <2>1. levels = << >>
    BY <1>1 DEF ProgramInv, PlacesInv, PlaceInv, MainInv
  <2>2. DOMAIN levels = {}
    BY <2>1
  <2> QED
    BY <1>1, <2>2 DEF ProgramInv, FilesInv, ForeignInv
<1> QED
  BY <1>1, ProgramInvHolds, PTL
=============================================================================
