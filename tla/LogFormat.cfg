CONSTANTS
    BlockSize = 7
    HeaderSize = 3
    BufferSize = 3
    Lengths = {0, 1, 3, 4, 9}
    MaxRecords = 3
    MaxCrashes = 1
    MaxDamage = 1
SPECIFICATION Spec
INVARIANTS ReadsBack LossBounded
CHECK_DEADLOCK FALSE
