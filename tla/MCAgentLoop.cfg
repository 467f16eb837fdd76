SPECIFICATION FairSpec
CONSTANTS
    long = long
    short = short
    bash = bash
    grep = grep
    ghost = ghost
    a = a
    b = b
    Runs = {long}
    NoRun = NoRun
    Tools = {bash, grep, ghost}
    Args = {a, b}
    Call <- SomeCalls
    Offered <- CallsOfRuns
    Signalled = {long}
    AutoModel = {long}
    Registered = {bash, grep}
    ParallelSafe = {grep}
    WanderTools = {grep}
    WarningThreshold = 2
    CriticalThreshold = 2
    BreakerVetoStreak = 2
    HistorySize = 2
    WanderingThreshold = 1
    WanderingEscalation = 2
    MaxSteps <- StepsOfRuns
    MaxCalls = 2
    MaxSaveFailures = 2
    EscalationLimit = 1
    TopTier = 2
INVARIANTS
    StreakBounded
    ReturnedIsSaved
    AbortHeeded
PROPERTIES
    VetoIsEarned
    LoopEnds
CHECK_DEADLOCK FALSE
