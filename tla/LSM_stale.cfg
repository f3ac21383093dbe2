SPECIFICATION Spec
CONSTANTS
  Tombstone = T
  Absent = A
  Zero = Zero
  IntMin <- MCIntMin
  Keys <- TwoKeys
  Values = {v1}
  NumRuns = 2
  EltsPerRun = 1
  NumToMerge = 2
  DiskRunsPerLevel = 2
  MergeSize = 2
  FilterBits <- MCFilterBits
  Bounds <- SomeEnds
  RewriteBuffered = TRUE
  MaxInserts = 6
INVARIANT LookupsAreCurrent
