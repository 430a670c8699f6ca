CONSTANTS
    Conns = {c1, c2}
    Files = {f1, f2}
    Sizes = {0}
    Hashes = {x1, x2}
    Null = Null
    EmptyBlob = EmptyBlob
    Counts = {0, 1}
    MaxRows = 2
    MaxUse = 1
    Failing = {c1}
    MaxFailures = 1
SYMMETRY Symmetry
SPECIFICATION Spec
INVARIANTS
    TypeOK
    LockReleased
    MisdirectedOnce
PROPERTIES
    CommitsWhatWasAsked
    NumberAgrees
