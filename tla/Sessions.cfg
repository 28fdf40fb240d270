SPECIFICATION FairSpec
CONSTANTS
    w1 = w1
    w2 = w2
    s1 = s1
    s2 = s2
    NoWorker = NoWorker
    Workers = {w1, w2}
    Sessions = {s1, s2}
    Capacity = 1
    MaxFaults = 1
INVARIANTS
    CapacityRespected
    ReleasedOnce
PROPERTIES
    OrphansRepaired
CHECK_DEADLOCK FALSE
