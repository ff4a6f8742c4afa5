SPECIFICATION FairSpec

CONSTANTS
    k1 = k1
    k2 = k2
    p1 = p1
    PVCs = {p1}
    Pods = {k1, k2}
    Mounts <- SharedMounts
    OfflineOnly = {p1}
    WorkloadTarget = TRUE
    ResizeStrategies = {"PreferInPlace"}
    ErrorKinds = {"offline"}
    MaxConcurrentReconciles = 2
    Faults = {"api", "patch", "blocked", "evict", "crash", "noNodeExpansion"}

INVARIANTS
    TypeOK
    NoStrandedGate

PROPERTIES
    HeldUntilReady
    EvictionNeeded
    ResizeCompletes
