SPECIFICATION ServicesSpec
CHECK_DEADLOCK FALSE
CONSTANTS
    u1 = u1
    u2 = u2
    u3 = u3
    r1 = r1
    r2 = r2
    r3 = r3
    Units = {u1, u2, u3}
    Rows = {r1, r2, r3}
    Touches <- Overlapping
    MaxWrites = 2
    Replicas = {"r1"}
    Writers2 = {"w1"}
    Rebuilders = {"b1"}
    RunsOn <- MCRunsOn
    Lines = {"l1"}
    Dish = "dish"
    Quantities = {2}
    Undefined = 99
    MaxCascadeDepth = 3
    MaxRecomputeAttempts = 2
    MaxQtyWrites = 2
    MaxFormulaEdits = 1
    MaxDeaths = 1
    Indexers = {"i1", "i2"}
    Indexed = {1, 2, 3}
    Terms = {"x"}
    PageSize = 1
    MaxIndexWrites = 2
    MaxIndexDeaths = 1
    Callers = {"c1", "c2"}
    Accesses <- MCAccesses
    GqlAttrs = {"n"}
    MemoTTL = 2
    CacheCap = 1
    MaxTick = 3
    MaxVersion = 2
    Admins = {"p1", "p2"}
    Clients = {"c1"}
    AuthReplicas = {"r1"}
    AuthOn <- MCAuthOn
    AccountIds = {"a1"}
    RoleNames = {"ro"}
    AuthTTL = 1
    MaxSecret = 2
    MaxAuthTick = 2
    MaxAdminOps = 3
    Works = {"w1", "w2"}
    WithOutbox = {"w1"}
    Projections <- MCProjections
    Subscribers = {"hook"}
    MaxEvents = 1
    MaxDepth = 1
    MaxFaults = 2
    ServedRequests = {"q1", "q2"}
    Loops = {"relay", "worker"}
    Runners = {"m1", "m2"}
    Versions = {1, 2, 3}
    NoTx = {2, 3}
    NeedsExt = {3}
    BackfillVersion = 1
    History = {"e1", "e2", "e3"}
    BackfillBatch = 2
    LeaseTTL = 2
    LeaseWait = 3
    RenewGap = 1
    MaxClock = 5
    MaxMishaps = 2
    Columns <- MCColumns
    Dependent <- MCDependent
    Forbidden <- MCForbidden
    Sheets <- MCSheetFiles
    Sources <- MCSources
    ChunkSize = 2
    MaxSheetRuns = 2
    MaxOtherWrites = 1
INVARIANTS UndoInv Converged IndexFollows SchemaIsCurrent  WorkInv PoolClosedLast  
PROPERTIES CommittedWritesKept
