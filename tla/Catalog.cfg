CONSTANTS
    t = t
    unknown = unknown
    missing = missing
    acme = acme
    default = default
    None = None
    NoRow = NoRow
    Logs = {1, 2, 3}
    Templates = {t}
    Mined <- MCMined
    Seen <- MCSeen
    Blank = {3}
    MinerBatches = {1, 2}
    MinerBatch <- MCMinerBatch
    MinerAttempts = 2
    Fallback = unknown
    Missing = missing
    Now = 9
    Candidates = {1, 2}
    Ids = {t, unknown, missing}
    Tenants = {acme, default}
    Tenant <- MCTenant
    FeedAttempts = 2
    MaxGiveUps = 2
SPECIFICATION Spec
INVARIANTS
    TypeOK
    RowsAreWitnessed
    PointHasRow
    AcceptedIsCovered
PROPERTIES
    RowsOnlyWiden
    FirstSeenStands
CONSTRAINT FewGiveUps
CHECK_DEADLOCK FALSE
