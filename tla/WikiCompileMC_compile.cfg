SPECIFICATION CompileSpec
CONSTANTS
    a = a
    b = b
    none = none
    NoSession = none
    Memories = 4
    SessionOf <- MCSessionOf
    Existing = {2, 3, 4}
    PageSize = 2
    MaxMemories = 2
    PackThreshold = 2
    Concurrency = 2
    MaxTime = 1
    MaxWrites = 2
    MaxRuns = 2
INVARIANTS
    CompileTypeOK
    PlanIsAPartition
    SessionsAreWhole
    
    FinishedIsProfiled
    
\* Both clocks and writes are bounded: the system may stop when they are used up.
CHECK_DEADLOCK FALSE
