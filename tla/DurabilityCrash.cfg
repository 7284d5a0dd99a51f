SPECIFICATION Spec
CONSTANTS
  MaxFile = 9
  MaxSeq = 2
  MaxCrash = 1
  MaxReaders = 1
  ReuseLogs = FALSE
  TornWrites = TRUE
  MachineCrashes = TRUE
  Errors = {}
CHECK_DEADLOCK FALSE
INVARIANTS
  TablesFound
  ProcessCrashSafe
  MachineCrashSafe
  Openable
  NothingForgotten
  PinnedFilesExist
  NumbersFresh
