SPECIFICATION Spec

CONSTANTS
    ScalingResolution = 2
    k1 = k1
    p1 = p1
    PVCs = {p1}
    PVCA = a1
    None = None
    PolicyLists <- PoliciesFixed
    InitSizes = {6}
    StorageLimit = 8
    FailKinds = {"infeasible", "error"}
    Pods = {k1}
    Mounts <- SharedMounts
    OfflineOnly = {p1}
    ErrorKinds = {"offline", "other"}
    MaxConcurrentReconciles = 2
    RunnerFaults = {"crash", "patch"}
    ControllerFaults = {"crash", "runner"}

PROPERTIES
    ImplementsOfflineResize
    EvictionNeeded
