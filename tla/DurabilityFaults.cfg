SPECIFICATION RepairSpec
CONSTANTS
  MaxFile = 7
  MaxSeq = 2
  MaxCrash = 1
  MaxReaders = 0
  MaxRepairs = 2
  ReuseLogs = TRUE
  TornWrites = FALSE
  MachineCrashes = FALSE
  Errors = {"log", "logsync", "close", "table", "manifest", "open"}
CHECK_DEADLOCK FALSE
INVARIANTS
  RepairKeeps
  RestServed
  NumbersFresh
