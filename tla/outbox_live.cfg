SPECIFICATION FairSpec
CONSTANTS
    Items = {i1, i2}
    Workers = {w1}
    BatchSize = 1
    MaxRetries = 2
    StuckThreshold = 1
    CleanupAge = 1
    MaxFaults = 3
    Timely = TRUE
    ReimportDeleted = FALSE
PROPERTIES JobsSettle
