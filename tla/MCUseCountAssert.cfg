CONSTANTS
    Files = {f1, f2}
    NumBlocks = 1
    BlockSize = 1
    DbBlockSize = 1
    Bytes = {0, 1}
    Handles = {h1, h2}
    Exclusive = TRUE
    CacheLimit = 9
    EvictBatch = 1
    MaxOrphans = 0
    MaxRows = 2
    MaxUse = 3
    MaxRestarts = 0
    Null = Null
    EmptyBlob = EmptyBlob
    Signature = Signature
SYMMETRY Symmetry
CHECK_DEADLOCK FALSE
SPECIFICATION Spec
INVARIANTS
    UseCountAssert
