SPECIFICATION FairSpec
CONSTANTS
  Threads = {t1, t2}
  NoThread = NoThread
  MaxCalls = 3
  BatchSizes = {0, 2}
  WriteBuffer = 1
  SmallBatch = 2
  LargeGroup = 3
  L0Compaction = 1
  L0Slowdown = 1
  L0Stop = 1
CHECK_DEADLOCK FALSE
PROPERTIES
  WritesReturn
  CloseReturns
