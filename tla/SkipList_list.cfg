SPECIFICATION FairSpec
CONSTANTS
  Tombstone = T
  Absent = A
  p_listHead = head
  p_listTail = tail
  Null = null
  Keys <- MCKeys
  Values = {v1}
  MaxLevel = 5
  MinKey <- MCMinKey
  MaxKey = 4
  Bounds <- MCBounds
  MaxInserts = 5
INVARIANTS TypeOK NoNull ListShape IsBufferRun AnswersAsRun
PROPERTY CallsReturn
