SPECIFICATION MCSpec
CONSTANTS
    s1 = s1
    s2 = s2
    r1 = r1
    r2 = r2
    p1 = p1
    p2 = p2
    q1 = q1
    q2 = q2
    Sessions = {s1, s2}
    Runs = {r1, r2}
    Requests = {q1, q2}
    NoRun = NoRun
    NoSession = NoSession
    NoRequest = NoRequest
    status = status
    push = push
    none = none
    gitStar = gitStar
    pushStar = pushStar
    star = star
    RuleSessions = {s1, s2}
    RuleObjects = {status, push, none}
    Unnamed = none
    BashPatterns = {gitStar, pushStar}
    Everything = star
    RuleMatches <- Matches
    RuleConfigs <- Configs
    MaxAlways = 2
    AgRuns = {r1, r2}
    AgSessions = {s1, s2}
    Nobody = Nobody
    SelCalls = {c1, c2, c3}
    SelQueries = {x}
    SelTTL = 2
    MaxCached = 1
    MaxSelTime = 3
    NoSearch = NoSearch
    PgSessions = {1, 2, 3}
    PageLimit = 2
    MaxPgTime = 2
    McpNames = {n1, n2}
    McpOps = {o1, o2}
    MaxClients = 2
    McpNobody = McpNobody
    AcpSessions = {s1, s2}
    AcpPrompts = {p1, p2}
    MAX_SESSIONS = 1
    WsFiles = {g, h}
    WsContents = {x, y}
    NoContent = NoContent
    NoPath = NoPath
    MaxChanges = 2
    SnapFiles = {f}
    MaxIterations = 2
    CatProcesses = {a1, a2}
    CatCalls = {k1, k2}
    MaxTime = 2
    CatalogModels = {m1, m2}
    WellKnownModels = {m1}
    ConfiguredModels = {m2, m3}
    DisabledModels = {m2}
INVARIANTS
    QuestionIsAnswerable
    SettledOnce
    GrantedKnowingly
    
    SelectionIsRecent
    PagedOnce
    
    
    
    RestoreBringsBack
    
PROPERTIES
    WaitEnds
CHECK_DEADLOCK FALSE
