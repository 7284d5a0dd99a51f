SPECIFICATION Spec
CONSTANTS
  NumLevels = 4
  MaxMemCompactLevel = 2
  L0_CompactionTrigger = 2
  MaxFileSize = 2
  MaxGrandParentOverlap = 2
  ExpandedSizeLimit = 6
  MaxBytes <- SmallLevels
  MaxKey = 2
  MaxSeq = 4
  Deletions = {FALSE, TRUE}
  MaxSnapshots = 1
  MaxSeeks = 1
  ManualRanges <- NoRanges
INVARIANTS
  LevelsDisjoint
  NewerAbove
  ReadsCorrect
  CompactionValid
CHECK_DEADLOCK FALSE
