SPECIFICATION FairSpec

CONSTANTS
    ScalingResolution = 2
    k1 = k1
    p1 = p1
    PVCs = {p1}
    PVCA = a1
    None = None
    PolicyLists <- PoliciesFixed
    InitSizes = {4}
    StorageLimit = 12
    FailKinds = {"error"}
    Pods = {k1}
    Mounts <- SharedMounts
    OfflineOnly = {p1}
    ErrorKinds = {"offline"}
    MaxConcurrentReconciles = 2
    RunnerFaults = {}
    ControllerFaults = {"runner"}

PROPERTIES
    GrowsOffline
