CONSTANTS
    Files = {f1}
    NumBlocks = 1
    BlockSize = 1
    DbBlockSize = 1
    Bytes = {0, 1}
    Handles = {h1}
    Exclusive = TRUE
    CacheLimit = 0
    EvictBatch = 2
    MaxOrphans = 1
    MaxRows = 2
    MaxUse = 2
    MaxRestarts = 0
    Null = Null
    EmptyBlob = EmptyBlob
    Signature = Signature
CHECK_DEADLOCK FALSE
SPECIFICATION Spec
INVARIANTS
    DataSafe
    HashIsContent
