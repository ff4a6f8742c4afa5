SPECIFICATION Spec

CONSTANTS
    k1 = k1
    p1 = p1
    p2 = p2
    PVCs = {p1, p2}
    Pods = {k1}
    Mounts <- SharedMounts
    OfflineOnly = {p1}
    WorkloadTarget = TRUE
    ResizeStrategies = {"PreferInPlace", "InPlace"}
    ErrorKinds = {"offline", "other"}
    MaxConcurrentReconciles = 2
    Faults = {"runner", "delete", "patch", "crash", "webhook"}

INVARIANTS
    NoStrandedGate
