SPECIFICATION Spec
CONSTANTS
    MaxCalls = 3
    MAX_CONCURRENT_REVIEWS = 1
    PoolThreads = 2
    MaxFaults = 1
    None = None
INVARIANTS
    JudgeCallsBounded
    PermitsAccounted
PROPERTIES
    EveryCallEnds
CHECK_DEADLOCK FALSE
