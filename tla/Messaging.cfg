SPECIFICATION PartsSpec
CONSTANTS
    History <- Delivery
    Concurrency = 2
    Attempts = 2
    MaxStalls = 1
    MaxIncidents = 2
    Fabrics <- TwoFabrics
    MaxAlerts = 2
    Workers = {w1, w2}
    Plans = {p1, p2}
    Features = {f}
    Trial = p1
    MaxWrites = 2
    MaxWriterDeaths = 1
INVARIANTS
    CompletedMeansTold
    NoticeOnce
    RecordsHonest
    OneOpenAlert
    CacheCurrent
PROPERTIES
    JobsEnd
    StalenessEnds
CHECK_DEADLOCK FALSE
