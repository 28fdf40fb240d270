SPECIFICATION FairSpec
CONSTANTS
    Apis = {"native", "elevenlabs", "openai"}
    QueueDepth = 2
    MaxMessages = 3
    MaxWords = 2
    MaxFaults = 1
INVARIANTS
    ProxyInv
PROPERTIES
    SessionSettles
CHECK_DEADLOCK FALSE
