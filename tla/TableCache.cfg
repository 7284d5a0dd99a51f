CONSTANTS
    Threads = {t1, t2}
    Keys = {1, 2, 3}
    Hash <- MCHash
    Capacities = {0, 2}
    Charge <- MCCharge
    InitLength = 1
    MaxInserts = 5
    MaxAcquires <- MCMaxAcquires
SPECIFICATION Spec
SYMMETRY Symmetry
INVARIANTS RefsExact CacheExact LimitsExact
PROPERTY InsertEvicts
