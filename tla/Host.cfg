SPECIFICATION FairSpec
CONSTANTS
    b1 = b1
    t1 = t1
    m1 = m1
    m2 = m2
    p1 = p1
    Nobody = Nobody
    Batch = {b1}
    Realtime = {t1}
    Models = {m1, m2}
    MaxLoaded = 1
    MaxDisk = 1
    Configs <- MCConfigs
    Passes = {p1}
    MaxCrashes = 1
INVARIANTS
    HostInv
PROPERTIES
    Served
CHECK_DEADLOCK FALSE
