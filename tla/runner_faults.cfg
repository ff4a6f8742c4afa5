SPECIFICATION Spec
CONSTANTS
    ScalingResolution = 2
    PVCs = {p1}
    PVCAs = {a1}
    None = None
    PolicyLists <- PoliciesFixed
    TargetSets <- MountedOrGone
    Unsupported = {}
    InitSizes = {4}
    UserSizes = {}
    Percents = {90}
    LagSizes = {0, 4}
    Granule = 1
    StorageLimit = 9
    FailKinds = {"infeasible", "limit", "nodeLimit", "error"}
    Faults = {"fetch", "get", "patch", "lostReply", "status", "crash", "garble", "modify", "retry"}
    Kubernetes134 = TRUE
    MaxNow = 0
INVARIANTS
    NoPhantomResize
PROPERTIES
    OneResizeAtATime
    NoStaleScaleUp
    ImplementsClaimLife
