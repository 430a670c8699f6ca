CONSTANTS
    Files = {f1}
    NumBlocks = 2
    BlockSize = 1
    DbBlockSize = 1
    Bytes = {0, 1}
    Handles = {h1}
    Exclusive = TRUE
    CacheLimit = 9
    EvictBatch = 1
    MaxOrphans = 0
    MaxRows = 1
    MaxUse = 2
    MaxRestarts = 1
    Null = Null
    EmptyBlob = EmptyBlob
    Signature = Signature
CHECK_DEADLOCK FALSE
SPECIFICATION Spec
INVARIANTS
    TypeOK
    HashIsContent
    RowsWithinSize
    CacheInv
    SignatureSafe
PROPERTY TablesSpec
