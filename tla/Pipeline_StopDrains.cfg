CONSTANTS
    json = json
    push = push
    single = single
    other = other
    Requests = {json, push}
    Records = {1, 2, 3, 4}
    RecordsOf <- MCRecordsOf
    LokiRequests = {push}
    Enforced = {}
    RawCap = 1
    ChanCap = 1
    MinerBatch = 2
    SamplerBatch = 2
    CanStop = TRUE
SPECIFICATION Spec
INVARIANTS
    StopDrains
CHECK_DEADLOCK FALSE
