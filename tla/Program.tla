------------------------------ MODULE Program ------------------------------
(***************************************************************************)
(* The program of main.cpp and the files of its tree, in a directory that  *)
(* an earlier process may have left files in: main, queryLine and          *)
(* loadFromBin in the main thread, with the merge thread of RunFiles       *)
(* beside it.                                                              *)
(*                                                                         *)
(* A command is what it does to the tree: a write, a load of pairs, a read *)
(* that waits for the merge thread, or nothing.  The writes are numbered;  *)
(* each is of a new key, as a key that is written again takes no room.     *)
(***************************************************************************)
EXTENDS RunFiles

CONSTANTS
  BufferSize,    \* the writes the buffer takes, all of which are merged at once
  MaxArgs,       \* bound: arguments on the command line
  MaxLines,      \* bound: lines of a file, or typed in
  MaxPairs,      \* bound: pairs in a file that 'l' loads
  MaxWrites,     \* bound: writes of a process
  MaxStarts      \* bound: processes, one after the other

ASSUME ProgramAssumption ==
  /\ BufferSize \in Nat \ {0}
  /\ {MaxArgs, MaxLines, MaxPairs, MaxWrites, MaxStarts} \subseteq Nat

VARIABLES
  mpc,           \* where main is; "off" without a process, "returned" after return 0
  args,          \* argc - 1
  file,          \* main's i, the argument it is at
  lines,         \* the lines that are left of the input, after it was opened
  pairs,         \* the pairs that loadFromBin has still to insert
  buffer,        \* the writes in C_0
  writes,        \* the number of writes so far, by all processes
  starts,        \* the processes so far
  before         \* history: the directory and the writes when the process started

programVars == <<mpc, args, file, lines, pairs, buffer, writes, starts, before>>
vars == <<runFilesVars, programVars>>

Running == mpc \notin {"off", "returned"}

----------------------------------------------------------------------------
(* insert_key *)

\* insert_key; delete_key is the same with another value.  When the buffer is full
\* it waits for the merge thread and starts a new one.
InsertKey ==
  /\ writes - before.writes < MaxWrites
  /\ writes' = writes + 1
  /\ \/ /\ Cardinality(buffer) < BufferSize
        /\ buffer' = buffer \union {writes'}
        /\ UNCHANGED runFilesVars
     \/ /\ Cardinality(buffer) = BufferSize
        /\ Merge(buffer)
        /\ buffer' = {writes'}

----------------------------------------------------------------------------
(* main, queryLine and loadFromBin *)

\* The process starts, and main constructs its tree.
Start ==
  /\ ~Running /\ starts < MaxStarts
  /\ starts' = starts + 1
  /\ \E n \in 0..MaxArgs : args' = n
  /\ Construct
  /\ mpc' = "construct" /\ buffer' = {}
  /\ before' = [names |-> DOMAIN dir, writes |-> writes]
  /\ UNCHANGED <<file, lines, pairs, writes>>

\* With one argument, whatever it is, main reads commands from the terminal.
Interactive ==
  /\ mpc = "construct" /\ at = "idle" /\ args = 1
  /\ mpc' = "line"
  /\ \E n \in 0..MaxLines : lines' = n
  /\ UNCHANGED <<runFilesVars, args, file, pairs, buffer, writes, starts, before>>

\* Otherwise the arguments are files of commands.
Batch ==
  /\ mpc = "construct" /\ at = "idle" /\ args # 1
  /\ mpc' = "open" /\ file' = 1
  /\ UNCHANGED <<runFilesVars, args, lines, pairs, buffer, writes, starts, before>>

\* The first file is opened; when it cannot be, main calls exit.
OpenFirst ==
  /\ mpc = "open" /\ file = 1 /\ file <= args
  /\ mpc' = "line"
  /\ \E n \in 0..MaxLines : lines' = n
  /\ UNCHANGED <<runFilesVars, args, file, pairs, buffer, writes, starts, before>>

\* The stream is still open, so opening a file again fails: is_open answers true,
\* and getline false.
OpenAgain ==
  /\ mpc = "open" /\ file > 1 /\ file <= args
  /\ file' = file + 1
  /\ UNCHANGED <<runFilesVars, mpc, args, lines, pairs, buffer, writes, starts, before>>

\* queryLine, commands 'p' and 'd'.
Write ==
  /\ mpc = "line" /\ lines > 0
  /\ InsertKey
  /\ lines' = lines - 1
  /\ UNCHANGED <<mpc, args, file, pairs, starts, before>>

\* A bug for PairsOf: the last integer is taken for a key without a value.
PairsOfRoundedUp(n) == (n + 1) \div 2

\* The pairs loadFromBin makes of n integers: one that is left over is not inserted.
PairsOf(n) == n \div 2

\* Command 'l', with a file of integers that is read into an array.
Load ==
  /\ mpc = "line" /\ lines > 0
  /\ \E n \in 0..2 * MaxPairs + 1 : pairs' = PairsOf(n)
  /\ lines' = lines - 1 /\ mpc' = "load"
  /\ UNCHANGED <<runFilesVars, args, file, buffer, writes, starts, before>>

\* The loop of loadFromBin.
LoadPair ==
  /\ mpc = "load" /\ pairs > 0
  /\ InsertKey
  /\ pairs' = pairs - 1
  /\ UNCHANGED <<mpc, args, file, lines, starts, before>>

Loaded ==
  /\ mpc = "load" /\ (pairs = 0 \/ writes - before.writes = MaxWrites)
  /\ mpc' = "line" /\ pairs' = 0
  /\ UNCHANGED <<runFilesVars, args, file, lines, buffer, writes, starts, before>>

\* Commands 'r' and 's', and 'g' of a key that is not in the buffer, which read the
\* disk after the merge thread has ended.
Read ==
  /\ mpc = "line" /\ lines > 0 /\ at = "idle"
  /\ lines' = lines - 1
  /\ UNCHANGED <<runFilesVars, mpc, args, file, pairs, buffer, writes, starts, before>>

\* Command 'g' of a key in the buffer, an empty line or a letter without a case.
NoCommand ==
  /\ mpc = "line" /\ lines > 0
  /\ lines' = lines - 1
  /\ UNCHANGED <<runFilesVars, mpc, args, file, pairs, buffer, writes, starts, before>>

\* A bug for EndOfFile: main goes on with the same argument.
EndOfFileAgain ==
  /\ mpc = "line" /\ lines = 0 /\ args # 1
  /\ mpc' = "open"
  /\ UNCHANGED <<runFilesVars, args, file, lines, pairs, buffer, writes, starts, before>>

\* The end of a file.
EndOfFile ==
  /\ mpc = "line" /\ lines = 0 /\ args # 1
  /\ mpc' = "open" /\ file' = file + 1
  /\ UNCHANGED <<runFilesVars, args, lines, pairs, buffer, writes, starts, before>>

\* The end of what is typed in, which main does not test: it goes on with empty
\* lines.
EmptyLines ==
  /\ mpc = "line" /\ lines = 0 /\ args = 1
  /\ UNCHANGED vars

\* return 0: the tree is destroyed, which waits for the merge thread.
ReturnZero ==
  /\ mpc = "open" /\ file > args
  /\ Destroy
  /\ mpc' = "destroy"
  /\ UNCHANGED <<args, file, lines, pairs, buffer, writes, starts, before>>

Returned ==
  /\ mpc = "destroy" /\ at = "none"
  /\ mpc' = "returned" /\ buffer' = {}
  /\ args' = 0 /\ file' = 0
  /\ UNCHANGED <<runFilesVars, lines, pairs, writes, starts, before>>

\* The process ends at any step: it is killed; it calls exit, as it does when a file
\* cannot be opened, mapped, renamed or removed; or stoi throws for a word of a
\* command that is not a number or is missing, which nobody catches.
Die ==
  /\ Running
  /\ Stop
  /\ mpc' = "off" /\ buffer' = {}
  /\ args' = 0 /\ file' = 0 /\ lines' = 0 /\ pairs' = 0
  /\ UNCHANGED <<writes, starts, before>>

\* No process is left to start.
Over == ~Running /\ starts = MaxStarts /\ UNCHANGED vars

----------------------------------------------------------------------------
Init ==
  /\ dir = << >> /\ data = << >> /\ levels = << >>
  /\ at = "none" /\ depth = 0 /\ i = 0 /\ toMerge = {}
  /\ mpc = "off" /\ args = 0 /\ file = 0 /\ lines = 0 /\ pairs = 0
  /\ buffer = {} /\ writes = 0 /\ starts = 0
  /\ before = [names |-> {}, writes |-> 0]

Main ==
  \/ Interactive \/ Batch \/ OpenFirst \/ OpenAgain
  \/ Write \/ Load \/ LoadPair \/ Loaded \/ Read \/ NoCommand
  \/ EndOfFile \/ EmptyLines \/ ReturnZero \/ Returned
  \/ MainThread /\ UNCHANGED programVars

Merging == MergeThread /\ UNCHANGED programVars

Next == Start \/ Main \/ Merging \/ Die \/ Over

\* Both threads are scheduled.
Spec == Init /\ [][Next]_vars /\ WF_vars(Main) /\ WF_vars(Merging)

----------------------------------------------------------------------------
(* Properties *)

Names == (Nat \ {0}) \X Nat

Runs == [name : Names, file : DOMAIN data, writes : SUBSET (1..writes)]

TypeOK ==
  /\ \A n \in DOMAIN dir : n \in Names /\ dir[n] \in DOMAIN data
  /\ DOMAIN data = FilesOf(dir, levels)
  /\ \A f \in DOMAIN data : data[f] \subseteq 1..writes
  /\ \A l \in DOMAIN levels :
       /\ levels[l].runs \in Seq(Runs)
       /\ Len(levels[l].runs) <= NumRuns /\ levels[l].active \in 0..NumRuns
  /\ at \in {"none", "construct", "idle", "descend", "add_runs", "free", "rename", "create",
             "add", "destroy"}
  /\ depth \in 0..Len(levels) /\ i \in 0..NumRuns
  /\ toMerge \subseteq 1..writes /\ buffer \subseteq 1..writes
  /\ mpc \in {"off", "construct", "open", "line", "load", "destroy", "returned"}
  /\ args \in 0..MaxArgs /\ file \in 0..MaxArgs + 1
  /\ lines \in 0..MaxLines /\ pairs \in 0..MaxPairs
  /\ writes \in Nat /\ starts \in 0..MaxStarts

\* The name of each run leads to its own file and no other run has that name, also
\* while the runs of a level are renamed; and in the file is what this process has
\* written to the run, nothing that an earlier process or a run that had the name
\* before has left.  (addRuns looks at what is in the file before it writes there.)
OwnFiles ==
  /\ \A run \in LiveRuns :
       /\ run.name \in DOMAIN dir /\ dir[run.name] = run.file
       /\ data[run.file] = run.writes
  /\ \A l, m \in DOMAIN levels : \A r \in DOMAIN levels[l].runs, s \in DOMAIN levels[m].runs :
       levels[l].runs[r].name = levels[m].runs[s].name => l = m /\ r = s

\* The writes in the files that the names of the runs lead to.
OnDisk == UNION {data[dir[r.name]] : r \in {s \in LiveRuns : s.name \in DOMAIN dir}}

\* Every write of this process is in the buffer, with the merge thread or in a file
\* that has a name: between the removal, the renaming and the creation of files too,
\* so that a process that dies there leaves all that was on disk in the directory.
NothingLost ==
  mpc \in {"open", "line", "load"} =>
    before.writes + 1..writes \subseteq buffer \union toMerge \union OnDisk

\* The runs that freeMergedRuns has still to delete, and the run they were merged into.
Doomed == {levels[depth].runs[n] : n \in 1..MergeSize - i}

MergeResult == levels[depth + 1].runs[levels[depth + 1].active]

\* The levels from the bottom up, and in a level the runs by their ids, list the
\* writes in the order in which they were made, in the directory as in the tree.  Only
\* while freeMergedRuns deletes the runs of a merge, one after the other, are those
\* that are left there twice, and then all that is in them is in the result as well.
AgeOrder ==
  \A r, s \in LiveRuns :
    r.name[1] > s.name[1] \/ (r.name[1] = s.name[1] /\ r.name[2] < s.name[2]) =>
      \/ \A x \in data[r.file], y \in data[s.file] : x < y
      \/ /\ at = "free" /\ r = MergeResult /\ s \in Doomed
         /\ data[s.file] \subseteq data[r.file]

\* A process that returns from main leaves no file of its own behind, though its
\* levels and the names of their files have changed all the time.
CleanExit ==
  mpc = "returned" =>
    /\ DOMAIN dir \subseteq before.names
    /\ \A n \in DOMAIN dir : data[dir[n]] \subseteq 1..before.writes

\* A program that was started on files comes to its end, with all merges done.
Ends == mpc = "open" ~> ~Running
=============================================================================
