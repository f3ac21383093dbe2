SPECIFICATION Spec
CONSTANTS
  Tombstone = T
  Absent = A
  Zero = Zero
  IntMin <- MCIntMin
  Keys <- FourKeys
  Values = {v1}
  NumRuns = 3
  EltsPerRun = 1
  NumToMerge = 2
  DiskRunsPerLevel = 2
  MergeSize = 1
  FilterBits <- MCFilterBits
  Bounds <- TwoEnds
  RewriteBuffered = FALSE
  MaxInserts = 8
INVARIANTS NewestSurvives RunsFit
PROPERTY ActsAsDictionary
