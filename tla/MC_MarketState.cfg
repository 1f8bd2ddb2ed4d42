CONSTANTS
  a1 = a1
  a2 = a2
  s1 = s1
  s2 = s2
  v1 = v1
  v2 = v2
  NoValue = NoValue
  Addr <- MCAddr
  Slot <- MCSlot
  Val <- MCVal
  Updates <- MCUpdates
  MaxApplied = 3
  MaxBlock = 1
SPECIFICATION Spec
INVARIANTS
  TypeOK
  CacheIsLastWriterWins
