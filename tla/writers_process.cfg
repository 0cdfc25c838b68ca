SPECIFICATION WritersSpec
CONSTANTS
    p1 = p1
    p2 = p2
    p3 = p3
    Procs = {p1, p2}
    Teams <- ImportAndProcess
    None = None
    Overlap = FALSE
    MaxCrashes = 0
INVARIANTS OneWriter
