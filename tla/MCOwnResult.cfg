SPECIFICATION Spec
CONSTANTS
    s1 = s1
    c1 = c1
    Sessions = {s1}
    Runs = {r1, r2}
    NoRun = NoRun
    NoSession = NoSession
    Clients = {c1}
    All = All
    ScopeOf <- Subscriptions
    GlobalCapacity = 3
    SessionCapacity = 2
    NoId = NoId
    Bootstrap = Bootstrap
    NoBody = NoBody
    MaxOthers = 1
    MaxDrops = 1
INVARIANT
    OwnResult
CHECK_DEADLOCK FALSE
