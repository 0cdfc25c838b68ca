SPECIFICATION Spec
CONSTANTS
    i1 = i1
    i2 = i2
    j1 = j1
    j2 = j2
    ki = ki
    kj = kj
    Procs = {p1, p2}
    Ids = {i1, i2, j1, j2}
    Keys = {ki, kj}
    Sessions = {s1}
    KeyOf <- TwoIdsPerKey
    SessionOf <- OneSession
    None = None
INVARIANTS DeletedCanReturn
