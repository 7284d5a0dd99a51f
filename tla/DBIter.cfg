SPECIFICATION Spec
CONSTANTS
  MaxByte = 4
  MaxTag = 99
  BlockRestartInterval = 2
  BlockSize = 5
  FilterBase = 7
  FalsePositives <- MCFalsePositives
  NumEntries = 3
  Databases <- MCDatabases
  Targets <- MCTargets
INVARIANTS
  DirectionHolds
  TableGetCorrect
PROPERTY
  IsCursor
