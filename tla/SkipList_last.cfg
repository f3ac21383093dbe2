SPECIFICATION Spec
CONSTANTS
  Tombstone = T
  Absent = A
  p_listHead = head
  p_listTail = tail
  Null = null
  Keys <- KeysWithLast
  Values = {v1}
  MaxLevel = 5
  MinKey <- MCMinKey
  MaxKey = 4
  Bounds <- MCBounds
  MaxInserts = 5
INVARIANT NewKeysGetNodes
