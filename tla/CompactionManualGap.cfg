SPECIFICATION Spec
CONSTANTS
  NumLevels = 4
  MaxMemCompactLevel = 2
  L0_CompactionTrigger = 9
  MaxFileSize = 3
  MaxGrandParentOverlap = 2
  ExpandedSizeLimit = 6
  MaxBytes <- LargeLevels
  MaxKey = 3
  MaxSeq = 5
  Deletions = {FALSE, TRUE}
  MaxSnapshots = 0
  MaxSeeks = 0
  ManualRanges <- LevelOne
INVARIANTS
  LevelsDisjoint
CHECK_DEADLOCK FALSE
