SPECIFICATION Spec
CONSTANTS
    Sessions = {s1, s2}
    Runs = {r1, r2}
    Routes = {a1}
    NotStored = NotStored
    Compressing = FALSE
    CompressMin = 1
    CompressTail = 1
    PreservedTail = 2
    MaxMessages = 3
    MaxResults = 1
    MaxEdits = 1
SYMMETRY Symmetry
INVARIANTS
    PairsKept
    IdsDistinct
    
CHECK_DEADLOCK FALSE
