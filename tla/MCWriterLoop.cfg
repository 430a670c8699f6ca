CONSTANTS
    NumBlocks = 2
    Threads = {t1, t2}
    CacheLimit = 1
    EvictBatch = 2
    Failing = TRUE
CHECK_DEADLOCK FALSE
SPECIFICATION Spec
INVARIANTS
    TypeOK
    SyncedSurvivesStop
PROPERTIES
    DirtyIsWritten
    SyncedIsWritten
    SyncEnds
    StopEnds
