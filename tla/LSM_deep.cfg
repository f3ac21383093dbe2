SPECIFICATION FairSpec
CONSTANTS
  Tombstone = T
  Absent = A
  Zero = Zero
  IntMin <- MCIntMin
  Keys <- ThreeKeys
  Values = {v1}
  NumRuns = 1
  EltsPerRun = 3
  NumToMerge = 1
  DiskRunsPerLevel = 1
  MergeSize = 1
  FilterBits <- MCFilterBits
  Bounds = {}
  RewriteBuffered = TRUE
  MaxInserts = 10
INVARIANTS AssertionsHold RoomForMerge NewestSurvives
PROPERTIES CallsReturn MergesEnd
