CONSTANTS
    Threads = {t1, t2}
    Files = {f1, f2}
    Hashes = {x1, x2}
    MaxRows = 2
    MaxUse = 2
    Null = Null
    Foreign = Foreign
    Leaked = Leaked
SYMMETRY Symmetry
CHECK_DEADLOCK FALSE
SPECIFICATION Spec
INVARIANTS
    NoDeadlock
    CountsCoverUsers
    ReadsOwn
