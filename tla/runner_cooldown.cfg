SPECIFICATION Spec
CONSTANTS
    ScalingResolution = 2
    PVCs = {p1}
    PVCAs = {a1}
    None = None
    PolicyLists <- PoliciesCooldown
    TargetSets <- AllMounted
    Unsupported = {}
    InitSizes = {4}
    UserSizes = {}
    Percents = {90}
    LagSizes = {}
    Granule = 1
    StorageLimit = 9
    FailKinds = {"infeasible", "error"}
    Faults = {"patch", "get", "garble", "retry"}
    Kubernetes134 = TRUE
    MaxNow = 5
INVARIANTS
    StatusTellsRequest
PROPERTIES
    CooldownRespected
