SPECIFICATION SurfacesSpec
CHECK_DEADLOCK FALSE
CONSTANTS
    Takers = {"k1", "k2"}
    RevCells = {"a", "b"}
    Members = {1, 2}
    Entity0 <- MCEntity0
    CellWrites <- MCCellWrites
    HiddenCells = {"b"}
    MaxRevisions = 2
    MaxEntityWrites = 2
    Ids = {1, 2, 3}
    Self = 2
    PageLimits = {1, 2}
    MaxClock = 2
    MaxLinks = 3
    MaxParseDepth = 3
    Entities <- MCEntities
    TypeChain <- MCTypeChain
    QueryAttrs <- MCQueryAttrs
    Relations <- MCRelations
    Candidates <- MCCandidates
    LinkRows <- MCLinkRows
    Conditions <- MCConditions
    Second <- MCSecond
    AccessLists <- MCAccess
    RootType = "t"
    QueryScope = ""
    MaxTraversal = 1
    MaxRows = 3
    Products = {"p1"}
    ProductStates <- MCProductStates
    FirstAttrs = {"i1"}
    LateAttr = "i2"
    CoreNames = {"name"}
    ProjectionRuns = {"g1", "g2"}
    SeenLimit = 1
    MaxNotices = 3
    MaxTokens = 2
    MaxStoreFaults = 1
    Served = {"q1", "q2"}
    Presented <- MCPresented
    TenantOf <- MCTenantOf
    Granted <- MCGranted
    BurstOf <- MCBurstOf
    RefillRate = 1
    MaxBuckets = 1
    Wanted = {1, 2, 4}
    TailLimit = 1
    MaxTicks = 1
    MaxArrivals = 3
    MaxFeed = 4
    Importers = {"i1", "i2"}
    Instances <- MCInstances
    Authored <- MCAuthored
    Tenants <- MCTenants
    CloneOf = "t"
    CopyName = "copy"
    TunedEffect = "tuned"
    MaxImports = 2
    MaxCrashes = 1
    MaxTunes = 1
    MaxClones = 1
INVARIANTS   QueriesInv   
 
