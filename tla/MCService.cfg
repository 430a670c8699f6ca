CONSTANTS
    Names = {n1, n2}
    Handles = {h1, h2}
    NumFiles = 2
    BlockSize = 2
    MaxSize = 3
    Workers = {w1, w2}
    Null = Null
SYMMETRY Symmetry
SPECIFICATION Spec
INVARIANTS
    TypeOK
    HandleSizesAgree
    BlocksWithinSize
    RootIsMade
