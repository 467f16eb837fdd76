SPECIFICATION FairSpec
CONSTANTS
    Sessions = {s1}
    Runs = {r1, r2}
    NoRun = NoRun
    NoSession = NoSession
    Absent = Absent
    MaxTroubles = 0
PROPERTIES
    
    PromptEnds
CHECK_DEADLOCK FALSE
