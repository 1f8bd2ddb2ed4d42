CONSTANTS
  a1 = a1
  a2 = a2
  s1 = s1
  v1 = v1
  NoValue = NoValue
  Addr <- MCAddr
  Slot <- MCSlot
  Val <- MCVal
  Receivers <- MCReceivers
  Diffs <- MCDiffs
  Capacity = 8
  MaxHeight = 3
  StartBlock = 0
  BatchSize = 2
  NumBatches = 2
  MaxConcurrent = 1
  Found <- MCFoundNone
  StartHeights = {2}
SPECIFICATION Spec
INVARIANT
  HistoryScanComplete
