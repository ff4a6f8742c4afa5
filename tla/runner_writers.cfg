SPECIFICATION Spec
CONSTANTS
    ScalingResolution = 2
    PVCs = {p1}
    PVCAs = {a1}
    None = None
    PolicyLists <- PoliciesEdited
    TargetSets <- AllMounted
    Unsupported = {}
    InitSizes = {4}
    UserSizes = {7, 12}
    Percents = {90}
    LagSizes = {}
    Granule = 2
    StorageLimit = 9
    FailKinds = {"infeasible"}
    Faults = {"patch"}
    Kubernetes134 = TRUE
    MaxNow = 0
INVARIANTS
    TypeOK
PROPERTIES
    ScaleUpWithinMax
    ScaleUpIsAStep
    RecoveryAboveCapacity
