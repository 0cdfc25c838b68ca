SPECIFICATION SuiteSpec
CONSTANTS
    p1 = p1
    p2 = p2
    Procs = {p1, p2}
    None = None
    i1 = i1
    i2 = i2
    j1 = j1
    ki = ki
    kj = kj
    Ids = {i1, i2, j1}
    Keys = {ki, kj}
    Sessions = {s1}
    KeyOf <- TwoIdsPerKey
    SessionOf <- OneSession
    t1 = t1
    Targets = {t1}
    MaxLeases = 3
    e1 = e1
    e2 = e2
    Memories = {e1, e2}
    TopLevel = 2
    MinAccess <- MinAccessDef
    MinRefs <- MinRefsDef
    GradBatch = 2
    MaxAccess = 2
    a = a
    b = b
    Titles = {a, b}
    Extracted <- ExtractedDef
    MaxTasks = 2
    MaxLog <- MaxLogDef
    c1 = c1
    c2 = c2
    c3 = c3
    Copies = {c1, c2, c3}
    r1 = r1
    r2 = r2
    Runs = {r1, r2}
    SyncBatch = 2
    x1 = x1
    x2 = x2
    Entries = {x1, x2}
    MaxShared = 3
    Weights = {1, 2}
    MaxVersions = 4
    MaxClock = 3
    d1 = d1
    d2 = d2
    d3 = d3
    Daemons = {d1, d2, d3}
    h1 = h1
    h2 = h2
    Hooks = {h1, h2}
    MaxBuild = 1
    k1 = k1
    Projects = {k1}
    MaxPasses = 2
    s1 = s1
    s2 = s2
    s3 = s3
    Registered = {s1, s2, s3}
    Inodes = {1, 2, 3, 4}
    Cap = 2
    Chats = {s1, s2}
    MinEvents = 2
    MaxEvents = 3
    g1 = g1
    g2 = g2
    g3 = g3
    u1 = u1
    u2 = u2
    Recent = {g1, g2, g3}
    Topics = {u1, u2}
    TopicsOf <- TopicsOfDef
    MinGroup = 2
    MaxWorking = 3
    MaxMemories = 2
    MaxTurns = 3
    Indexed = {e1, e2}
    Work = {k1}
    Blockers = {b1, b2}
    b1 = b1
    b2 = b2
    ready = ready
    over = over
    WorkStates = {ready, over}
    Traced = {k1}
    Instances = {"alpha", "beta"}
    MaxInstalls = 3
    Docs = {e1, e2}
    MaxEntries = 4
    MaxImports = 2
    Origins = {e1, e2, s3}
    Patterns = {u1}
    PatternOf <- OnePattern
    LessonNames = {g1}
    MinSessions = 2
    MaxFresh = 1
    MaxTexts = 2
    MaxSourceMoves <- MaxSourceMovesDef
    Remarks = {s1, s2, s3}
    Grounded = {s1, s2}
    Preferring = {s1, s3}
    Opposed <- OpposedDef
    OwnEntries = {u1}
    Budgets = {3, 4}
    MaxUpdates = 1
    CardLimit = 2
    MaxPersMoves <- MaxPersMovesDef
INVARIANT RetryMeetsNewBuild
CHECK_DEADLOCK FALSE
