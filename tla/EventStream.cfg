SPECIFICATION FairSpec
CONSTANTS
    c1 = c1
    c2 = c2
    Consumers = {c1, c2}
    Events = 3
    Invalid = {2}
    MaxDeliveries = 2
    MaxLen = 2
    Batch = 2
    MaxFaults = 1
INVARIANTS
    QuarantineJustified
    DeliveryBounds
PROPERTIES
    KeepsPromise
    Settles
CHECK_DEADLOCK FALSE
