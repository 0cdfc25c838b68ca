SPECIFICATION Spec
CONSTANTS
    Items = {i1, i2}
    Workers = {w1, w2}
    BatchSize = 2
    MaxRetries = 2
    StuckThreshold = 1
    CleanupAge = 1
    MaxFaults = 2
    Timely = TRUE
    ReimportDeleted = FALSE
SYMMETRY Symmetry
INVARIANTS OneHolder IndexIsSound FailedIsExhausted
PROPERTIES SettledIsFinal ImplementsJobs
