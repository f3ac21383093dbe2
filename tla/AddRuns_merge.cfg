SPECIFICATION MCSpec
CONSTANTS
  Tombstone = T
  Absent = A
  Keys = {1, 2, 3, 4, 5, 6, 7, 8}
  Values = {v1}
  NumMerged = 4
  RunSize = 2
  IntMax = 10
  MaxEntries = 8
  SmallKeys = {1, 2, 3}
  SmallEntries = 5
INVARIANTS TypeOK StaysInFile HeapInv MergesAsLSM
PROPERTY MergeEnds
