SPECIFICATION FairSpec
CONSTANTS
  Nothing = Nothing
  Keys <- MCKeys
  Values <- MCValues
  Hash <- MCHash
  InitialSize = 2
  MaxElts = 3
  IntMin <- MCIntMin
INVARIANTS TypeOK KeysReachable
PROPERTIES ReturnsOccupant CallsReturn
CHECK_DEADLOCK FALSE
