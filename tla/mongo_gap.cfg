SPECIFICATION Spec
CONSTANTS
    m1 = m1
    m2 = m2
    w1 = w1
    w2 = w2
    i1 = i1
    i2 = i2
    j1 = j1
    ki = ki
    kj = kj
    Machines = {m1, m2}
    Ids = {i1, i2, j1}
    Keys = {ki, kj}
    KeyOf <- IdKeys
    Workers = {w1, w2}
    MachineOf <- OneEach
    Direction <- Both
    BatchSize = 1
    Overlap = TRUE
    Deletes = FALSE
    Failing = {}
    MaxFaults = 0
INVARIANTS PulledUpTo
