SPECIFICATION Spec
CONSTANTS
  Tombstone = T
  Absent = A
  Zero = Zero
  IntMin <- MCIntMin
  Keys <- ThreeKeys
  Values = {v1}
  NumRuns = 1
  EltsPerRun = 2
  NumToMerge = 1
  DiskRunsPerLevel = 2
  MergeSize = 2
  FilterBits <- MCFilterBits
  Bounds <- SomeEnds
  RewriteBuffered = TRUE
  MaxInserts = 7
INVARIANTS TypeOK ShapeInv NewestSurvives NoFalseNegatives
PROPERTY ActsAsDictionary
