CONSTANTS
    json = json
    push = push
    single = single
    other = other
    Requests = {json, push}
    Records = {1, 2, 3, 4}
    RecordsOf <- MCRecordsOf
    LokiRequests = {push}
    Enforced = {3}
    RawCap = 1
    ChanCap = 1
    MinerBatch = 3
    SamplerBatch = 2
    CanStop = FALSE
SPECIFICATION FairSpec
PROPERTIES
    AcceptedIsRouted
CHECK_DEADLOCK FALSE
