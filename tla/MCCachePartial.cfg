CONSTANTS
    Files = {f1}
    NumBlocks = 1
    BlockSize = 2
    DbBlockSize = 1
    Bytes = {0, 1}
    Handles = {h1}
    Exclusive = TRUE
    CacheLimit = 9
    EvictBatch = 1
    MaxOrphans = 0
    MaxRows = 2
    MaxUse = 1
    MaxRestarts = 0
    Null = Null
    EmptyBlob = EmptyBlob
    Signature = Signature
CHECK_DEADLOCK FALSE
SPECIFICATION Spec
PROPERTIES
    FileContentsSpec
