SPECIFICATION WritersFairSpec
CONSTANTS
    p1 = p1
    p2 = p2
    p3 = p3
    Procs = {p1, p2, p3}
    Teams <- ThreeCommands
    None = None
    Overlap = FALSE
    MaxCrashes = 3
INVARIANTS ClosedIsQuiet
PROPERTIES ImplementsStore LockIsSound ExitsAfterRelease LockIsLive
