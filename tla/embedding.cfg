SPECIFICATION FairSpec
CONSTANTS
    p1 = p1
    p2 = p2
    new = new
    old = old
    Procs = {p1, p2}
    Importers = {p1}
    Events = {1, 2}
    ModelOf <- SameModel
    OldModel = old
    None = None
    BatchSize = 2
    PageSize = 1
    MaxRetries = 1
    Starts = {"indexed"}
    Timely = TRUE
    Overlap = FALSE
    Deletable = {1}
    MaxRows = 2
    MaxFaults = 1
INVARIANTS TypeOK NothingForgotten MetaNamesModel
PROPERTIES RowsSettleOnce
CHECK_DEADLOCK FALSE
