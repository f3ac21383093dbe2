SPECIFICATION Spec
CONSTANTS
  Tombstone = T
  Absent = A
  Zero = Zero
  IntMin <- MCIntMin
  Keys <- LeastKeys
  Values = {v1,Zero}
  NumRuns = 1
  EltsPerRun = 1
  NumToMerge = 1
  DiskRunsPerLevel = 2
  MergeSize = 2
  FilterBits <- MCFilterBits
  Bounds <- LeastEnds
  RewriteBuffered = TRUE
  MaxInserts = 6
INVARIANT RangesAreCurrent
