SPECIFICATION Spec
CONSTANTS
    Savers = {p1, p2}
    LockTimeout = 1
    NoFile = NoFile
    Old = Old
SYMMETRY Symmetry
INVARIANT
    StoreIsWhole
CHECK_DEADLOCK FALSE
