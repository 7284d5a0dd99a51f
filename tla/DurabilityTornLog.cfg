SPECIFICATION Spec
CONSTANTS
  MaxFile = 9
  MaxSeq = 2
  MaxCrash = 1
  MaxReaders = 0
  ReuseLogs = FALSE
  TornWrites = TRUE
  MachineCrashes = TRUE
  Errors = {"log"}
CHECK_DEADLOCK FALSE
INVARIANTS
  ProcessCrashSafe
