CONSTANTS
  a1 = a1
  a2 = a2
  s1 = s1
  v1 = v1
  NoValue = NoValue
  Addr <- MCAddr
  Slot <- MCSlot
  Val <- MCVal
  Receivers <- MCReceivers
  Diffs <- MCDiffs
  Capacity = 8
  MaxHeight = 3
  StartBlock = 2
  BatchSize = 1
  NumBatches = 2
  MaxConcurrent = 1
  Found <- MCFound
  StartHeights = {1}
SPECIFICATION Spec
PROPERTY
  StopReachesProcessor
