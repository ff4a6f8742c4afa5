SPECIFICATION FairSpec

CONSTANTS
    r1 = r1
    r2 = r2
    Replicas = {r1, r2}
    None = None
    Interval = 3
    LongestTick = 12
    FailureThreshold = 3
    Faults = {"stuck", "lease"}

INVARIANTS
    NoFalseAlarm

PROPERTIES
    StuckOvercome
