SPECIFICATION FairSpec
CONSTANTS
    w1 = w1
    w2 = w2
    d1 = d1
    d2 = d2
    Nobody = Nobody
    Workers = {w1, w2}
    Deliveries = {d1, d2}
    Named = {d2}
    MaxAttempts = 2
    Threshold = 2
    MaxBatch = 2
    MaxIncidents = 1
INVARIANTS
    DeliveryInv
PROPERTIES
    Settled
CHECK_DEADLOCK FALSE
