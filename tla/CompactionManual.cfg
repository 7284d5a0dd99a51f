SPECIFICATION FairSpec
CONSTANTS
  NumLevels = 4
  MaxMemCompactLevel = 2
  L0_CompactionTrigger = 3
  MaxFileSize = 2
  MaxGrandParentOverlap = 2
  ExpandedSizeLimit = 6
  MaxBytes <- RoomyLast
  MaxKey = 3
  MaxSeq = 5
  Deletions = {FALSE}
  MaxSnapshots = 0
  MaxSeeks = 0
  ManualRanges <- LowLevels
INVARIANTS
  ReadsUntilOverlap
CHECK_DEADLOCK FALSE
PROPERTY Settles
