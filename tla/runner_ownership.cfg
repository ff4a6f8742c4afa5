SPECIFICATION FairSpec
CONSTANTS
    ScalingResolution = 2
    PVCs = {p1, p2}
    PVCAs = {a1, a2}
    None = None
    PolicyLists <- PoliciesFixed
    TargetSets <- OneEach
    Unsupported = {}
    InitSizes = {4}
    UserSizes = {}
    Percents = {50}
    LagSizes = {}
    Granule = 1
    StorageLimit = 9
    FailKinds = {"infeasible"}
    Faults = {}
    Kubernetes134 = TRUE
    MaxNow = 0
PROPERTIES
    OwnershipSettles
