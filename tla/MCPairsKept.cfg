SPECIFICATION Spec
CONSTANTS
    Sessions = {s1}
    Runs = {r1}
    Routes = {a1}
    NotStored = NotStored
    Compressing = TRUE
    CompressMin = 0
    CompressTail = 1
    PreservedTail = 2
    MaxMessages = 3
    MaxResults = 3
    MaxEdits = 1
SYMMETRY Symmetry
INVARIANTS
    PairsKept
CHECK_DEADLOCK FALSE
