CONSTANTS
    g1 = g1
    g2 = g2
    s = s
    Gateways = {g1, g2}
    Calls = {1, 2, 3}
    Client <- MCClient
    Records = {1, 2, 3, 4}
    Batch <- MCBatch
    Stream <- MCStream
    Streams = {s}
    Minute <- MCMinute
    Level <- MCLevel
    Schema <- MCSchema
    Namespace <- MCNamespace
    EnforceSeverity = {}
    EnforceNamespace = {"staging"}
    MaxFailures = 1
    NoveltyOn = TRUE
    Log2On = TRUE
    WarmupN = 1
    SteadyK <- MCSteadyK
    AlphaNum = 1
    AlphaDen = 2
    FactorNum = 5
    FactorDen = 3
    MinSpike = 3
    Scale = 1000000
SPECIFICATION Spec
INVARIANT
    ErrorsAreKept
CHECK_DEADLOCK FALSE
