SPECIFICATION FairSpec
CONSTANTS
    e1 = e1
    e2 = e2
    s1 = s1
    r1 = r1
    r2 = r2
    Nobody = Nobody
    Engines = {e1, e2}
    Scanners = {s1}
    Sweepers = {r1, r2}
    MaxRetries = 1
    MaxMessages = 2
    MaxFaults = 1
INVARIANTS
    RecoveryInv

    
    
CHECK_DEADLOCK FALSE
