SPECIFICATION FairSpec

CONSTANTS
    ScalingResolution = 2
    k1 = k1
    k2 = k2
    k3 = k3
    p1 = p1
    p2 = p2
    w1 = w1
    w2 = w2
    Claims = {p1, p2}
    Pods = {k1, k2, k3}
    Workloads = {w1, w2}
    TargetPods <- MCTargetPods
    Mounts <- MCMounts
    TargetRefs = {w1, w2, p1}
    SelectorReported = TRUE
    InitSize = 4
    GrownSize = 7
    Growing = {p1}
    Usage <- MCUsage
    MaxDisturbances = 1

INVARIANTS
    TypeOK

PROPERTIES
    NoUnderstatement
    FetchAllOrNothing
    ReadingsSettle
