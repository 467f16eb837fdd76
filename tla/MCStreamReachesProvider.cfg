SPECIFICATION ServicesSpec
CONSTANTS
    LoopRetries = 1
    AdapterRetries = 1
    MaxChunks = 2
    NoError = NoError
    LspCalls = {c1, c2}
    LspFiles = {f}
    MaxServers = 2
    NoLspFile = NoLspFile
    Savers = {p1, p2}
    LockTimeout = 1
    NoFile = NoFile
    Old = Old
INVARIANT
    StreamReachesProvider
CHECK_DEADLOCK FALSE
