CONSTANTS
    json = json
    push = push
    single = single
    other = other
    Requests = {single, other}
    Records = {5, 6}
    RecordsOf <- MCRecordsOf
    LokiRequests = {}
    Enforced = {5, 6}
    RawCap = 1
    ChanCap = 1
    MinerBatch = 2
    SamplerBatch = 2
    CanStop = FALSE
SPECIFICATION FairSpec
PROPERTIES
    SuppressedNeverBlocks
CHECK_DEADLOCK FALSE
