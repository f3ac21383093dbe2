SPECIFICATION Spec
CONSTANTS
  NumRuns = 5
  MergeSize = 2
  BufferSize = 1
  MaxArgs = 2
  MaxLines = 6
  MaxPairs = 3
  MaxWrites = 17
  MaxStarts = 2
INVARIANTS TypeOK OwnFiles NothingLost AgeOrder CleanExit
PROPERTY Ends
