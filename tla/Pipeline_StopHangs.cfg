CONSTANTS
    json = json
    push = push
    single = single
    other = other
    Requests = {single, other}
    Records = {5, 6}
    RecordsOf <- MCRecordsOf
    LokiRequests = {}
    Enforced = {}
    RawCap = 1
    ChanCap = 1
    MinerBatch = 2
    SamplerBatch = 2
    CanStop = TRUE
SPECIFICATION FairSpec
PROPERTIES
    StopReturns
CHECK_DEADLOCK FALSE
