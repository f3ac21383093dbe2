------------------------------ MODULE RunFiles ------------------------------
(***************************************************************************)
(* The files of the disk runs.  Each DiskRun maps a file C_<level>_<id> of *)
(* the working directory.  The constructors of LSM and DiskLevel create    *)
(* the files, a merge fills one, and freeMergedRuns removes the files of   *)
(* the merged runs, gives those that stay the names from 0 on and creates  *)
(* new ones; the destructors remove all.                                   *)
(*                                                                         *)
(* Only one thread works on the files at a time: the main thread in the    *)
(* constructor and in the destructor, which joins the merge thread, and    *)
(* the merge thread in between.  `at' is where it is.                      *)
(*                                                                         *)
(* Runs are indexed from 1, their ids and the loops from 0, as in the      *)
(* code.  A file is not its name: it is there as long as a name leads to   *)
(* it or a run maps it, and the data in it is the set of the writes that   *)
(* were put into it.                                                       *)
(***************************************************************************)
EXTENDS Integers, SequencesExt

CONSTANTS
  NumRuns,       \* _numRuns, runs of a level
  MergeSize      \* _mergeSize, runs that are merged into the next level at once

ASSUME LevelAssumption == NumRuns \in Nat \ {0} /\ MergeSize \in 1..NumRuns

VARIABLES
  dir,           \* the directory: the file each name leads to
  data,          \* data[f]: what was written to file f
  levels,        \* diskLevels: the runs of each level, and how many are active
  at,            \* where the thread that works on the files is
  depth,         \* the argument of the innermost mergeRunsToLevel, 0 outside
  i,             \* the counter of the loop it is in
  toMerge        \* the writes merge_runs has collected

fileVars == <<dir, data, levels>>
workVars == <<at, depth, i, toMerge>>
runFilesVars == <<fileVars, workVars>>

----------------------------------------------------------------------------
(* Names and files *)

\* A run: its _filename, as level and id, the file it maps and what it put there.
Run(name, file, writes) == [name |-> name, file |-> file, writes |-> writes]

FreshLevel == [runs |-> << >>, active |-> 0]

LevelFull(l) == levels[l].active = NumRuns

\* The files a directory and a tree refer to, which are those that exist.
FilesOf(d, lvls) == Range(d) \union UNION {{r.file : r \in ToSet(l.runs)} : l \in ToSet(lvls)}

\* A file no name and no run refers to any more is gone.
Settle(contents, d, lvls) == Restrict(contents, FilesOf(d, lvls) \intersect DOMAIN contents)

\* The runs of the tree that are not deleted.
LiveRuns == UNION {ToSet(l.runs) : l \in ToSet(levels)}

FreeFile == Min((1..Cardinality(DOMAIN data) + 1) \ DOMAIN data)

\* f with the value v for x.
Put(f, x, v) == [y \in DOMAIN f \union {x} |-> IF y = x THEN v ELSE f[y]]

\* A bug for Removed: the file keeps its name.
RemovedNot(d, name) == d

\* remove(name).
Removed(d, name) == Restrict(d, DOMAIN d \ {name})

\* rename(old, new): a file that was called new loses that name.
Renamed(d, old, new) == Put(Restrict(d, DOMAIN d \ {old}), new, d[old])

\* A bug for Opened: the flag O_TRUNC is left out.
OpenedAsIs(contents, f) == IF f \in DOMAIN contents THEN contents ELSE Put(contents, f, {})

\* open with O_CREAT and O_TRUNC, and a write that stretches the file.
Opened(contents, f) == Put(contents, f, {})

----------------------------------------------------------------------------
(* DiskRun: constructor and destructor *)

\* new DiskRun for run i of level l, and push_back.
NewRun(l) ==
  LET name == <<l, i>>
      f    == IF name \in DOMAIN dir THEN dir[name] ELSE FreeFile
  IN  /\ dir' = Put(dir, name, f)
      /\ data' = Opened(data, f)
      /\ levels' = [levels EXCEPT ![l].runs = Append(@, Run(name, f, {}))]
      /\ i' = i + 1

\* delete of the first run of level l: unmapped, closed and its name removed.
DeleteRun(l) ==
  /\ dir' = Removed(dir, Head(levels[l].runs).name)
  /\ levels' = [levels EXCEPT ![l].runs = Tail(@)]
  /\ data' = Settle(data, dir', levels')

\* The next run of level l takes these writes and is active.
FillRun(l, writes) ==
  LET r == levels[l].active + 1
  IN  /\ data' = [data EXCEPT ![levels[l].runs[r].file] = writes]
      /\ levels' = [levels EXCEPT ![l].runs[r].writes = writes, ![l].active = r]

----------------------------------------------------------------------------
(* The constructor and the destructor of the tree *)

\* LSM's constructor, up to the loop of DiskLevel's constructor for level 1.
Construct ==
  /\ at = "none"
  /\ at' = "construct" /\ depth' = 0 /\ i' = 0
  /\ levels' = << FreshLevel >>
  /\ UNCHANGED <<dir, data, toMerge>>

\* The loop of DiskLevel's constructor, called by LSM's or by mergeRunsToLevel.
ConstructRun ==
  /\ at = "construct" /\ i < NumRuns
  /\ NewRun(depth + 1)
  /\ UNCHANGED <<at, depth, toMerge>>

Constructed ==
  /\ at = "construct" /\ i = NumRuns
  /\ at' = IF depth = 0 THEN "idle" ELSE "add_runs"
  /\ UNCHANGED <<fileVars, depth, i, toMerge>>

\* ~LSM after the join: all levels, and in DiskLevel's destructor all their runs.
Destroy ==
  /\ at = "idle"
  /\ at' = "destroy"
  /\ UNCHANGED <<fileVars, depth, i, toMerge>>

RunsLeft == {l \in DOMAIN levels : levels[l].runs # << >>}

DestroyRun ==
  /\ at = "destroy" /\ RunsLeft # {}
  /\ DeleteRun(Min(RunsLeft))
  /\ UNCHANGED workVars

Destroyed ==
  /\ at = "destroy" /\ RunsLeft = {}
  /\ at' = "none"
  /\ levels' = << >> /\ data' = Settle(data, dir, << >>)
  /\ UNCHANGED <<dir, depth, i, toMerge>>

\* The process ends: killed, by exit after a call of the system has failed, or by
\* an exception nobody catches.  Its memory goes, the directory stays.
Stop ==
  /\ at' = "none" /\ depth' = 0 /\ i' = 0 /\ toMerge' = {}
  /\ levels' = << >> /\ data' = Settle(data, dir, << >>)
  /\ UNCHANGED dir

----------------------------------------------------------------------------
(* A merge: merge_runs, mergeRunsToLevel, addRuns, freeMergedRuns *)

\* merge_runs has copied and sorted its runs and asks whether level 1 is full.
Merge(writes) ==
  /\ at = "idle"
  /\ toMerge' = writes
  /\ IF LevelFull(1) THEN at' = "descend" /\ depth' = 1
                     ELSE at' = "add" /\ UNCHANGED depth
  /\ UNCHANGED <<fileVars, i>>

\* mergeRunsToLevel(depth) until it calls itself, creates a level or has room.
Descend ==
  /\ at = "descend"
  /\ \/ /\ depth = Len(levels)
        /\ levels' = Append(levels, FreshLevel)
        /\ at' = "construct" /\ i' = 0 /\ UNCHANGED depth
     \/ /\ depth < Len(levels) /\ LevelFull(depth + 1)
        /\ depth' = depth + 1 /\ UNCHANGED <<levels, at, i>>
     \/ /\ depth < Len(levels) /\ ~LevelFull(depth + 1)
        /\ at' = "add_runs" /\ UNCHANGED <<levels, depth, i>>
  /\ UNCHANGED <<dir, data, toMerge>>

\* A bug for RunsToMerge: the newest runs of the level.
NewestRuns(l) == SubSeq(levels[l].runs, NumRuns - MergeSize + 1, NumRuns)

\* getRunsToMerge.
RunsToMerge(l) == SubSeq(levels[l].runs, 1, MergeSize)

\* addRuns: what is in the files of the runs goes to a run of the next level.
AddRuns ==
  /\ at = "add_runs"
  /\ FillRun(depth + 1, UNION {data[r.file] : r \in ToSet(RunsToMerge(depth))})
  /\ at' = "free" /\ i' = 0
  /\ UNCHANGED <<dir, depth, toMerge>>

\* freeMergedRuns, first loop: the runs that were merged are deleted.  It asserts that
\* there are MergeSize of them and that they are of this level: it is given the list of
\* getRunsToMerge, and the runs of a level never leave it.
FreeRun ==
  /\ at = "free" /\ i < MergeSize
  /\ DeleteRun(depth)
  /\ i' = i + 1
  /\ UNCHANGED <<at, depth, toMerge>>

\* erase has been done; _activeRun -= _mergeSize.
Freed ==
  /\ at = "free" /\ i = MergeSize
  /\ levels' = [levels EXCEPT ![depth].active = @ - MergeSize]
  /\ at' = "rename" /\ i' = 0
  /\ UNCHANGED <<dir, data, depth, toMerge>>

\* A bug for RunToRename: the loop goes down from the last run.
LastToRename == levels[depth].active - 1 - i

\* The run that the second loop of freeMergedRuns is at.
RunToRename == i

\* Its body: a run that stays gets the name of its new place.
RenameRun ==
  /\ at = "rename" /\ i < levels[depth].active
  /\ LET r   == RunToRename + 1
         new == <<depth, RunToRename>>
     IN  /\ dir' = Renamed(dir, levels[depth].runs[r].name, new)
         /\ levels' = [levels EXCEPT ![depth].runs[r].name = new]
         /\ data' = Settle(data, dir', levels')
  /\ i' = i + 1
  /\ UNCHANGED <<at, depth, toMerge>>

\* The third loop starts where the second one ended.
AllRenamed ==
  /\ at = "rename" /\ i = levels[depth].active
  /\ at' = "create"
  /\ UNCHANGED <<fileVars, depth, i, toMerge>>

\* Its body: a new run for each place that has become free.
CreateRun ==
  /\ at = "create" /\ i < NumRuns
  /\ NewRun(depth)
  /\ UNCHANGED <<at, depth, toMerge>>

\* freeMergedRuns and mergeRunsToLevel(depth) return.
Return ==
  /\ at = "create" /\ i = NumRuns
  /\ at' = IF depth > 1 THEN "add_runs" ELSE "add"
  /\ depth' = depth - 1 /\ i' = 0
  /\ UNCHANGED <<fileVars, toMerge>>

\* addRunByArray, and the end of merge_runs.
Add ==
  /\ at = "add"
  /\ FillRun(1, toMerge)
  /\ at' = "idle" /\ toMerge' = {}
  /\ UNCHANGED <<dir, depth, i>>

MergeThread ==
  \/ Descend \/ (depth > 0 /\ (ConstructRun \/ Constructed)) \/ AddRuns
  \/ FreeRun \/ Freed \/ RenameRun \/ AllRenamed \/ CreateRun \/ Return \/ Add

MainThread ==
  \/ (depth = 0 /\ (ConstructRun \/ Constructed)) \/ DestroyRun \/ Destroyed

=============================================================================
