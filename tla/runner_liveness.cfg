SPECIFICATION FairSpec
CONSTANTS
    ScalingResolution = 2
    PVCs = {p1}
    PVCAs = {a1}
    None = None
    PolicyLists <- PoliciesFixed
    TargetSets <- AllMounted
    Unsupported = {}
    InitSizes = {3, 4}
    UserSizes = {}
    Percents = {90}
    LagSizes = {}
    Granule = 1
    StorageLimit = 9
    FailKinds = {"infeasible", "limit", "error"}
    Faults = {"patch", "status"}
    Kubernetes134 = TRUE
    MaxNow = 0
PROPERTIES
    GrowsToLimit
    FailureRecovered
