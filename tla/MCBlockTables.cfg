CONSTANTS
    Keys = {k1, k2, k3}
    Hashes = {x1, x2, x3}
    Null = Null
    EmptyBlob = EmptyBlob
    Counts <- CallerCounts
    MaxRows = 3
    MaxUse = 3
SYMMETRY Symmetry
SPECIFICATION Spec
INVARIANTS
    TypeOK
    UniqueHash
PROPERTIES
    NeverDangles
    OthersKeepTheirBlock
