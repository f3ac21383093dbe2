# A verification of sLSM-Tree

sLSM-Tree is a log-structured merge tree in C++: keys and values are written to
skip lists in memory, a thread merges full skip lists into sorted runs on disk, and
full disk levels are merged into the next level. This directory has TLA+ models of
it, the TLC configurations that check them and TLAPS proofs about them. Source
lines below are those of `src/src/` in the repository.

## 1. The system

| part | state | operations |
|---|---|---|
| LSM tree, `lsm.hpp` | buffer `C_0` of skip lists, a Bloom filter for each, `_activeRun`, `diskLevels`, `mergeThread`, `mergeLock` | `insert_key`, `delete_key`, `lookup`, `range`, `size`, `num_buffer`, `printElts`, `printStats`, `~LSM`; inside: `do_merge`, `merge_runs`, `mergeRunsToLevel` |
| `DiskLevel`, `diskLevel.hpp` | a vector of runs, `_activeRun` of them in use | `addRuns` (merge with a `StaticHeap`), `addRunByArray`, `getRunsToMerge`, `freeMergedRuns`, `levelFull`, `levelEmpty`, `lookup` |
| `DiskRun`, `diskRun.hpp` | a mapped file with a sorted array, its length, fence pointers, a Bloom filter, first and last key | `writeData`, `setCapacity`, `constructIndex`, `lookup`, `range`, constructor and destructor |
| `SkipList`, `skipList.hpp` | nodes with forward pointers, the current maximal level, a count, smallest and largest key | `insert_key`, `lookup`, `get_all`, `get_all_in_range`; `delete_key` and `eltIn` have no caller |
| `BloomFilter`, `bloom.hpp` | bits | `add`, `mayContain` |
| `HashTable`, `hashMap.hpp` | a table with linear probing, its size and count | `putIfEmpty`, `resize`; `get` and `put` have no caller |
| `KVPair`, `Run`, `run.hpp` | a pair; an interface | comparison operators |
| `MurmurHash` | none | a hash function (third party) |
| `main.cpp` | the arguments, the input that is left | `main`, `queryLine`, `loadFromBin`; tests and benchmarks |

How they interact. The client's thread calls the tree. `insert_key` writes to the
active skip list; when the last one is full it calls `do_merge`, which waits for the
previous merge thread, starts a new one with pointers to the oldest skip lists, and
replaces these by fresh ones. The merge thread copies and deletes the skip lists,
sorts the copy, takes the lock and adds the array to disk level 1, after
`mergeRunsToLevel` has made room, recursively, in the levels below. `lookup` asks the
skip lists from the newest to the oldest, joins the merge thread and then asks the
levels from the top down. `range` does the same with all of them and throws out
repeated keys with a `HashTable`. A deletion is a write of the value `V_TOMBSTONE`
(INT_MIN). Everything the two threads share is passed at the start and at the join of
the thread; `mergeLock` is only taken by merge threads, of which there is one at a time.

What is hard:

- the client goes on while a merge runs: an entry is in the buffer, with the thread or
  on disk, and must be found in exactly one order of age;
- the old value of a key must never hide the new one, over runs, levels and merges,
  and deletions must hide what is older without being lost too early;
- cascades of merges need room in each level, and `addRuns` and `addRunByArray` only
  partly test for it;
- the active run index is one past the end inside `insert_key`;
- unsigned index arithmetic in the two-level binary search of `DiskRun`;
- forward pointers of the skip list on levels that came into use later;
- heap order, ties and tombstones in `addRuns`;
- resizing and unbounded probing in the hash table;
- numbers with a double role: INT_MIN, INT_MAX, 0.

- three loops of `freeMergedRuns` that remove, rename and create files, with runs that
  go on using theirs; a process that ends among them, and the next one that finds what
  is left;
- lookups in several threads, which all want to join the one merge thread.

The code has no recovery: files are truncated when they are opened and removed on exit.
What is asked of a restart is therefore that leftovers have no influence (`OwnFiles`,
`CleanExit`), and of the end of a process that it takes no data out of the directory
that was there (`NothingLost`).

What makes each part correct: the *tree* answers like a dictionary; *levels* never
overflow and stay in the order of age; the *result of a merge* is sorted, has each key
once and the newest entry of it; the *search in a run* is defined everywhere and exact;
the *skip list* stays sorted on each level, has no null pointer where it is searched, and
is a map with a correct count and correct bounds; a *filter* has no false negatives; the
*hash table* finds what was put in; every *file* belongs to one run under one name, the
names keep the order of age and none is left over; the *program* comes to its end. `PROJECT.json` lists the hazards line by line.

## 2. The modules

| module | models | properties |
|---|---|---|
| `KVStore` | the abstract dictionary: what a client may see | used as `ActsAsDictionary` |
| `RunReads` | what is asked of a run: filter tests, which of several entries of a key a search can meet | |
| `RunData` | skip lists and disk arrays as values, and what `insert_key`, `get_all_in_range` and `addRuns` do to them in one step | |
| `LSM` | the tree, the client and the merge thread | 12, see below |
| `AddRuns` | `DiskLevel::addRuns` with the heap, one loop turn at a time | 5 |
| `DiskRun` | `constructIndex`, `lookup`, `range` and both binary searches | 6 |
| `SkipList` | nodes, forward pointers and all calls the tree makes | 7 |
| `HashTable` | `putIfEmpty` and `resize` | 4 |
| `RunFiles` | the files of the runs: constructors and destructors, and the steps of a merge that touch files | (in `Program`) |
| `Program` | `main`, `queryLine`, `loadFromBin` on top of `RunFiles`; the end of a process at any step and the start of the next one | 6 |
| `Readers` | `lookup` in several threads, up to the join, as `concurrentLookupTest` calls it | `LookupsComeThrough` |
| `LSMProofs`, `DictionaryProofs` | theorems about `LSM` | 8 of its properties |
| `DiskRunProofs`, `AddRunsProofs`, `SkipListProofs`, `HashTableProofs`, `ProgramProofs` | theorems about these modules | 5, 4, 5, 3 and 5 properties |
| `FlattenLemmas` | lemmas about finite sets of numbers and `FlattenSeq` | |
| `MCLSM`, `MCDiskRun`, `MCSkipList`, `MCHashTable`, `MCReaders` | constants for TLC | |
| `MCAddRuns` | constants for TLC and the merges it starts with | |

The composition is by refinement of data. `LSM` treats a call of a skip list, of
`addRuns` or of a disk run's search as one step with a result given by an operator of
`RunData` or `RunReads`. The component modules model the code of these calls and check
that it has this result: `SkipList!IsBufferRun` and `AnswersAsRun` (against
`SkipInsert`, `EntriesInRange`), `AddRuns!MergesAsLSM` (against `HeapMerge`,
`DropLastTombstone`), `DiskRun!AnswersAsLSM` (against `Found`, `Slices`). `LSM` in turn
is checked against `KVStore`. Taking the calls as one step is sound because a skip list
and a disk run are only used by one thread at a time, which is what the joins are for
and what `NewestSurvives` and `ActsAsDictionary` would expose.

### LSM

Variables have the names of the code. A buffer run is a record of its map, count
and bounds; a disk run maps each key to the sequence of its entries, in array order.
Sequences of runs start with the oldest. `levels[l]` only lists active runs: the blank
ones behind them are determined by that.

The client is at `pc`: "ready", or waiting in a join ("insert_join", "lookup_join",
"range_join", "report_join", "destroy_join"). Between two joins nothing the client does
can interfere with the merge thread, so each part is one action: `Insert`, `InsertFull`
then `DoMerge`; `LookupBuffer`, or `LookupMiss` then `LookupDisk`; `RangeNone` for an empty range,
or `RangeBuffer` then `RangeDisk`; `Report` then `ReportJoined`; `Destroy` then `Destroyed`. The merge thread
is at `mtPC`: `Collect` (once per skip list), `Sort`, `Lock`, `Descend` (into
`mergeRunsToLevel`), `AddRuns`, `Free` (on the way back), `Add`, `Unlock`. An assertion
that fails, a run past the vector and an index -1 are states: "aborted", "overrun",
"index_underflow". `std::sort` compares keys only and is not stable, so `Sort` picks any
order of the entries of a key, and what a search meets among them is any of them.
`latest` is a history variable: the binding the client expects.

`RewriteBuffered = FALSE` restricts the client: it does not write a key that is in the
buffer. Without it the first finding below makes the tree answer with old values
whenever `NumToMerge > 1`; with it, or with `NumToMerge = 1`, the tree is a dictionary.

### AddRuns, DiskRun, SkipList, HashTable

Each has a `pc` for the place in the call and one action per loop turn. Arrays are
functions from 0, as in the code. `AddRuns` starts with any runs that can occur: sorted
arrays of any fill, also with several entries of a key, as the first finding leaves them
in level 1. `DiskRun` builds any sorted array, repeated keys
included, with any page size, and is then asked anything; index arithmetic is that of
unsigned numbers, with the largest number as the constant `Word`. `SkipList` lets
`generateNodeLevel` draw every level it can, 0 and -1 too. `HashTable` has any hash given
as a constant; INT_MIN is one of its keys, and with the tombstone it is EMPTY. `Occupied` is
`KVPair::operator!=` as C++ reads it: it takes an entry with the value 1 for a free slot and EMPTY
for an entry. A put of EMPTY, or of a key that a resize lost, counts again in `_elts`; `MaxElts`
bounds these puts. `AddRuns` has the assertion and the bounds of the file as states, "aborted" and
"out_of_bounds".

### RunFiles and Program

`RunFiles` is `LSM` seen from the directory. `dir` maps names to files, `data` files to
what was written into them, and a run has a name (`_filename`), the file it has mapped and,
as history, the writes it put there. A file goes away when neither a name nor a mapping
leads to it; `rename` replaces what had the new name; `Opened` truncates. Data are sets of
numbered writes: what a lookup makes of them is the subject of `LSM`. `at` is where the
thread that works on files is: in a constructor, in `mergeRunsToLevel`, in one of the
three loops of `freeMergedRuns`, with one action for each file that is removed, renamed or
created. `i` is the loop's counter; the second and the third loop share its value as they
do in the code.

`Program` adds the main thread. `mpc` is where `main` is: constructing the tree, opening
an argument, at a line, in `loadFromBin`, in the destructor. A line is an `InsertKey` ('p',
'd'), a load of `PairsOf(n)` pairs from n integers, a read that waits for the merge thread, or
nothing. `insert_key` on a full buffer waits until the merge thread is "idle" and hands the
buffer over. `Die` may happen at any step, in either thread: a signal, the `exit` after a call
of the system that fails, the exception `stoi` throws. The memory is gone then and the
directory stays; `Start` begins again in it. `Die` does not tear a single step, so the
content of one run is written as a whole.

### Readers

The threads of one round of `concurrentLookupTest` after the other. `mergeThread` is
running, ended or joined. `Joinable` and `Join` are two steps, as there is no lock.

## 3. The runs

| run | instance | what it shows |
|---|---|---|
| `whole` | one skip list of 2 keys, levels of 2 runs merged whole, 3 keys, 7 writes | `TypeOK`, `ShapeInv`, `NewestSurvives`, `NoFalseNegatives`, `ActsAsDictionary` with any rewriting and deleting; the last write merges a full level with keys in both runs |
| `half` | 3 skip lists of one key, 2 merged at once; one of 2 disk runs moves down; 4 keys, 8 writes; ranges between -1 and 3 | `NewestSurvives`, `RunsFit`, `ActsAsDictionary` with a run that stays in the buffer and several runs in one array |
| `deep` | one skip list of 3 keys, levels of one run, 10 writes | cascades to the third level: `AssertionsHold`, `RoomForMerge`, `NewestSurvives`, and `CallsReturn`, `MergesEnd` under fairness |
| `search` | arrays of up to 6 entries, 6 keys, pages of 1 to 3 | `SearchesAreDefined`, `LookupIsExact`, `RangeIsExact`, `AnswersAsLSM`, `CallsReturn` |
| `merge` | all ways to merge 4 runs with at most 5 entries of 3 keys, and 4 full runs of 8 keys in all, with the last key deleted or none | `StaysInFile`, `HeapInv`, `MergesAsLSM`, `MergeEnds` |
| `list` | 4 keys of both signs, 5 writes, 5 levels | `NoNull`, `ListShape`, `IsBufferRun`, `AnswersAsRun`, `CallsReturn` |
| `table` | 5 keys, 3 of them colliding, 3 values with 1, table of 2 slots growing to 16 | `KeysReachable`, `ReturnsOccupant`, `CallsReturn` |
| `files` | 5 runs per level, 2 merged at once, a buffer of 1 write; 17 writes; 2 arguments, 6 lines, 3 pairs; 2 processes | `OwnFiles`, `NothingLost`, `AgeOrder`, `CleanExit`, `Ends`, with merges that cascade to a third level |
| `stale`, `zero`, `last`, `together` | small | the findings of section 5 |

Why the bounds are enough. A merge of disk runs needs a full level 1 and one more
merge: 7 writes in `whole`, 8 in `half`; in `deep` the tenth write starts a merge that
goes down to a new third level. Three keys give runs that overlap partly. One value
besides the tombstone suffices because a value is never compared with another one:
current and old differ as present and deleted. One key is negative because skip lists
start their bounds at 0; one pair of keys shares filter bits, for false positives. Six
entries in pages of two make three pages, so that the loop over fence pointers takes more
than a turn and the last page may be full or not. Four runs in a heap have an inner node
with one child and one with two. Five levels in a skip list leave two that can become the
current maximum, one that is drawn but never used, and the top. Four full runs fill the file of
their result to the last slot, so that one slot more would be out of it. Five runs in a level of
which two are merged leave a state in which one of the two is deleted, and three to be renamed,
so that the order of renaming matters; 17 writes reach the third level. Two processes suffice because the second one starts with
whatever the first one can leave behind, and ends in all ways. Each passing run explores all
states under its bound; the bounds are
`MaxInserts`, `Bounds`, `MaxEntries`, `SmallKeys`, `SmallEntries`, `MaxCapacity`, `MaxElts`, `MaxArgs`, `MaxLines`, `MaxPairs`,
`MaxWrites`, `MaxStarts`, `MaxLookups`.

Fairness. `deep`: weak fairness of the client inside a call and of the merge thread,
which are two OS threads that are both scheduled; the client need not call again.
The mutex needs no more than that: only one merge thread exists at a time. `files`:
weak fairness of the main thread and of the merge thread for the same reason; a process
need not die, and `Ends` only speaks of a program that was started on files. The other
modules: weak fairness of the one thread inside a call.

TLC's deadlock check is on in every run but `table`: a destroyed tree and a finished merge have
an explicit stuttering step. In `table` range may stop to put keys at any time, as it does when
`MaxElts` leaves no put; a call that is stuck would violate `CallsReturn`. In `AddRuns`
"index_underflow" counts as an end of the merge (the merge is then empty, see section 5), never
"aborted" or "out_of_bounds".

## 4. The proofs

Each theorem has the form Spec => []P or says that every step has a property, and
holds for every value of the constants that the named assumptions of the modules allow. A
proof module begins with its inductive invariant, a conjunction of named parts; then come
lemmas about operators, a lemma per action, and the theorems. The inductive invariants
were checked with TLC on the instances of section 3 before they were proved.

`LSMProofs`, for every number of runs, run size, merge size, every set of integer keys,
any filter bits and any number of writes: `TypeCorrect`, `ShapeCorrect`,
`NoAssertionFails`, `MergesHaveRoom`, `RunsFitTheirFiles` (`RunsFit`). Assumptions: `ParamAssumption` (sizes are at least
1, merged runs at most all; `merged_frac` 0 is excluded, see the hazards) and
`DataAssumption` (keys are integers, the values, the tombstone and "absent" differ).
`ShapeInv` has three parts, and each needs the others. `BufferShape`: runs before the active
one have exactly `EltsPerRun` keys, so what `do_merge` hands over are full runs.
`MergeShape`: the merge thread owns full runs only, so the merged array has the length that
`addRunByArray` asserts. `LevelShape`: while `mergeRunsToLevel` is at a depth, all levels it
came through are full and the level below has room, so that `addRuns`, which does not
test it, has a run to write to. It is inductive together with the type invariant and the
finiteness of what is in a run (`FiniteRuns`, as the set of keys may be infinite).
`RunsFitTheirFiles` adds that the merge thread has as many entries as it has counted
(`ThreadCounts`), so that what the assertion compares is the length of the array, and that the
runs merged on a level together have no more entries than a run of the next level has room for.
The room of a level is the code's product of its `_runSize` and `_mergeSize` (`RunSize`), for
which the proof first shows that such a sequence of sizes exists.

`DictionaryProofs`, for trees of every size: `SkippedRunsLackTheKey` (`NoFalseNegatives`),
`MergesKeepNewest` (`NewestSurvives`) and `TreeIsADictionary`, that `LSM` implements `KVStore`
by the refinement mapping of `ActsAsDictionary`: every step is a step of the dictionary or
changes nothing a client can see. The invariant says of every key where its newest entry is
(`NewestInv`): in the buffer, with the merge thread, or in the first of the levels that has it; and
what the merge thread has copied, merged and added so far. Assumptions, each of which
a finding shows to be needed: `OneEntryPerKey` (one skip list per merge, or a client that does not
write a key again while it is in the buffer; without it `stale`), INT_MIN is not a key, and for
the refinement 0 is not a value (`zero`). `SkippedRunsLackTheKey` needs none of them.
It is about the skip lists of the buffer; the tests in front of the search of a disk run are in
`LookupCorrect`, except the one for INT_MIN (section 5).
`LookupsAnswerWithLast` and `RangesAnswerWithLast` state of every such tree what the runs `stale` and `zero`
find violated outside of these assumptions (`LookupsAreCurrent`, `RangesAreCurrent`): the
findings have no other cause. For lookups 0 is a value like any other.

`SkipListProofs`, for every set of keys, every MAXLEVEL of at least 3 and every level that is
drawn: `ListTypeCorrect`, `PointersLead` (`NoNull`), `LevelsAreLists` (`ListShape`), `ListIsARun`
(`IsBufferRun`), `ListAnswers` (`AnswersAsRun`). `ListInv` has the nesting of the levels and what a
search knows on its way down: the last node before the key on each level it has left. It holds
with the key INT_MAX as well; `ListIsARun` and `ListAnswers` assume that INT_MAX is not a key, and with that
`InsertedKeysHaveNodes` proves what the finding `last` shows violated.

`AddRunsProofs`, for every number of runs of any length and any overlap of their keys:
`MergeTypeCorrect`, `MergeStaysInFile`, `HeapGivesLeast` (`HeapInv`), `MergeIsHeapMerge`
(`MergesAsLSM`), without further assumptions. In the invariant push has a hole in the heap, and
heapify one pair that may be too large (`OrderInv`); the heap and the pair in hand have the next
entry of each run that is not used up, once (`HeldInv`); the entries placed come before all those
(`LastInv`); and slot after slot of the new run has, for one key after the other, the first entry
of the newest run among those placed (`ResultInv`). There are never more slots in use than
entries placed, and a product of two finite sets has room for these: that is the test the code
does without. Together with `DictionaryProofs` this covers a merge from the loop of the heap up
to the answer of the tree.

`HashTableProofs`, for every finite set of keys, every hash and every initial size:
`TableTypeCorrect`, `TableKeepsKeys` (`KeysReachable`), `PutIfEmptyAnswers` (`ReturnsOccupant`). The
middle of `resize` needs most of the invariant (`ResizeInv`): the old table still has every
key, the new one those of the slots passed, and the probes for a copied key meet no free slot
before it. The type invariant bounds the table by four slots per entry counted, so that a free slot is
always left. The value 1, which `operator!=` takes for a free slot (section 5), is a value like
the others: a key that was first stored with it may be lost from the first resize on, and is then
not in `Kept`, of which the two properties speak; all entries that are there stay apart and are
reached. There is no further assumption.

`DiskRunProofs`, for every length of the array, every page size, every set of keys and
every word size that can count the array: `RunTypeCorrect`, `SearchesDefined`, `LookupCorrect`,
`RangeCorrect`, `RunAnswersAsLSM`. `RunTypeCorrect` only says that min and max are unsigned
numbers; `SearchesDefined` that none which wrapped around is used. The invariant says where the key can still be: outside of `min..max` the
array and the fence pointers are on the known sides of it; in the fence pointer loop the
key lies strictly between the first and last one considered, which is why the loop cannot
run out without having found its page (the worry in the comment at `diskRun.hpp:203`).
`RunAnswersAsLSM` needs more of range than `RangeCorrect` says: that each of its ends separates
the smaller keys from the larger ones (`EndsOK`), or that no key of the run is in the range. As
the entries of a key are next to each other (`EntriesNext`), an end cuts the entries of its key
once and those of no other key. With it the answers `LSM` takes from a run are those of the
searches, for every run.

`ProgramProofs`, for levels of any number of runs, any merge size, any buffer, and any number of
processes that may die at every step and find whatever the earlier ones have left:
`ProgramTypeCorrect` (`TypeOK`), `RunsOwnTheirFiles` (`OwnFiles`), `NoWriteLost` (`NothingLost`),
`RunsByAge` (`AgeOrder`), `ExitsClean` (`CleanExit`). Assumptions: `LevelAssumption` and
`ProgramAssumption`, which say that the sizes are numbers and a merge takes between one run and
all of a level. The invariant `ProgramInv` has five parts. `FilesInv`: each name of a run leads to
the file it has mapped with what it wrote, and a name that no run has is from before the process.
`PlacesInv`: the id of a run is its place, except in the loops of `freeMergedRuns` and the
destructor, where it is ahead by the runs that are gone already (`Ahead`); this is what shows
that a rename or a new run never takes the name of another one. It needs the number of runs at each
turn of each loop (`RunsThere`), and that the levels above the one that is merged are full (`PlaceInv`).
`AgeInv`: the runs have the writes in the order of their levels and places, except that a run
which is about to be deleted is contained in the one it was merged into (`MergedInto`), which only
happens in the loop that deletes runs. `KeepInv`: each write
of the process is in the buffer, with the thread or in a run. `MainInv` says where `main` can be
while the merge thread is where it is.

Where a proof goes over the elements of a finite set or the turns of a loop that the model takes
as one step, the induction is `FlattenLemmas!SetInduction`: a set of numbers that has 0 and
with each number the next one has all. The operators of `FoldFunction` and `FoldSeq` are
defined by recursion over data with an operator as a parameter, which the provers cannot
instantiate; what is stated with them is left to TLC.

Every invariant and every refinement that a passing run checks is the statement of a theorem, and
so are the properties of the findings `stale`, `zero` and `last` under the conditions they break. Only
model-checked: liveness (`CallsReturn`, `MergesEnd`, `MergeEnds`, `Ends`), which is out of reach of the
proof system, and the lookups in several threads of `Readers`, of which the run shows a failure.

## 5. Findings

Each is a run that TLC ends with a counterexample; `PROJECT.json` quotes the lines.

- `stale` (`lsm.hpp:283`): with more than one skip list per merge, which is how `main`
  configures the tree, the entries of a key from several skip lists are sorted by key only
  and all kept. A lookup may then answer with the value that was overwritten.
- `zero` (`lsm.hpp:156, 180`): `range` takes the answer 0 of `putIfEmpty` for "new key". A
  key whose newest value is 0 is returned again with each older entry. The deleted key
  INT_MIN is the hash table's mark of a free slot, so its deletion is forgotten and an
  older value returned; with `Values = {v1}` the run ends with that case.
- `last` (`skipList.hpp:117`): the key INT_MAX is taken for the tail's. It gets no node, is not
  counted and is lost when its skip list is merged.
- `together` (`lsm.hpp:122`): two lookups in two threads can both find the merge thread
  joinable and both join it, which throws or is undefined. `concurrentLookupTest` sleeps for
  two seconds before its lookups, which ends the merge but does not join it.

Seen, without a run of its own:

- A merge that leaves no entry makes `constructIndex` read `map[-1]` (`diskRun.hpp:147`), although
  the code after the call allows for it (`diskLevel.hpp:183`). `LSM` reaches "index_underflow" when
  runs that hold one and the same deleted key are merged into a new last level, which takes
  skip lists of a single key.
- `operator!=` compares from left to right and takes an entry with the value 1 for an empty slot
  (`run.hpp:45`); `resize` (`hashMap.hpp:57`) loses it. `range` comes to resize only with more than
  4,096,000 keys. `table` has the value; its properties say that nothing else is lost.
- `lookup` skips a disk run whose largest key is INT_MIN (`diskLevel.hpp:245`), so the key is not
  found if nothing else is in the run. `Answers` has that test; the passing instances do not
  have the key.
- Tombstones in the last level are mostly kept, as `addRuns` tests the slot it is about to
  write (`diskLevel.hpp:161`); this costs space and no answer, and `DropLastTombstone` models it.
- `SkipList::delete_key` lowers the count when nothing was found (167), without a caller.
- With exactly one argument `main` reads commands from the terminal, whatever the argument is
  (`main.cpp:831`), and goes round for ever at the end of the input (`EmptyLines`). A second input
  file is never read, as the stream is still open (`OpenAgain`). `loadFromBin` drops an integer that is
  left over (743).

## 6. Not modelled

The lengths given to `mmap` and `munmap` (`munmap` gets the length after the merge, so pages
stay mapped), a write that is cut off in the middle of a run, and what a power failure
leaves of writes that were not synced: no code reads files of an earlier process, so nothing
could be stated about them. Two trees in one directory at a time, which would truncate each
other's files. How `queryLine` splits a line into words. The other tests and benchmarks of
`main.cpp`: they are sequences of calls that `LSM`'s client can make. The sizing of filters and
the value of the hash. Memory, timing and output. `HashTable::get` and `put`,
`SkipList::delete_key` and `eltIn`, `DiskRun::doubleSize` and `doMap`, which nothing calls. The key
INT_MAX in the tree model: `SkipList` has it, and its loss is the finding `last`. Several
threads that write, for which the tree has no means and the repository no caller.

## 7. Plan

Done, in this order: `LSM` with `KVStore`, its runs and `LSMProofs`; `DiskRun` and
`DiskRunProofs`; `AddRuns`; `SkipList`; `HashTable`; `RunFiles` with `Program`; `Readers`;
INT_MIN in `LSM` and `HashTable`.

Proved, in this order: `LSM`'s shape; the searches of `DiskRun`; `LSM` as a dictionary;
`SkipList`; `HashTable`; `AddRuns`; the types and answers of `DiskRun`; `Program`; the room for merges.

Left to prove:

1. What liveness rests on and is a safety property: measures that each step of the merge thread, of
   `DiskRun`'s searches and of the loops of `main` lowers, and that a thread which waits always leaves
   the one it waits for a step to take.
2. With INT_MIN as a key but no deletion of it: what is left of `TreeIsADictionary`, which leaves the
   key out altogether.

## 8. Running it

    tlc -config LSM_whole.cfg MCLSM.tla      # and the other runs listed in PROJECT.json
    tlapm LSMProofs.tla                      # and the other *Proofs modules, FlattenLemmas

Runs named in section 3 use the configuration `<module>_<run>.cfg`. Each property has a
mutant in `PROJECT.json`: a definition and a wrong version of it ("A bug for ...", next to it
in the module) with which the run finds the property violated.
