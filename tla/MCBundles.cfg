SPECIFICATION BundlesSpec
CHECK_DEADLOCK FALSE
CONSTANTS
    Importers = {"i1"}
    Instances <- MCInstances
    Authored = {}
    Tenants <- MCTenants
    CloneOf = "t"
    CopyName = "copy"
    TunedEffect = "tuned"
    MaxImports = 2
    MaxCrashes = 1
    MaxTunes = 0
    MaxClones = 0
INVARIANT ImportsCleanly
