SPECIFICATION MCSpec
CONSTANTS
  Threads = {t1, t2, t3}
  NoThread = NoThread
  MaxCalls = 4
  BatchSizes = {0, 2}
  WriteBuffer = 1
  SmallBatch = 2
  LargeGroup = 3
  L0Compaction = 1
  L0Slowdown = 1
  L0Stop = 2
SYMMETRY Symmetry
INVARIANTS
  TypeOK
  SingleLeader
  UniqueSequences
  BatchesAtomic
  AckedVisible
  LogCoversMemtables
  SyncHonoured
  ImmHasFlusher
  L0Bounded
PROPERTY SnapshotsStable
