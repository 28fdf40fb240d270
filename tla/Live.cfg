SPECIFICATION FairSpec
CONSTANTS
    o1 = o1
    o2 = o2
    prepare = prepare
    transcribe = transcribe
    diarize = diarize
    pii_detect = pii_detect
    audio_redact = audio_redact
    NoTask = NoTask
    Orchestrators = {o1}
    Pipeline = {prepare, transcribe}
    PostProc = {}
    Deps <- MCDeps
    MaxRetries = 1
    CancelRoutes = {"api"}
    MaxFaults = 0
INVARIANTS
    VerdictInv
PROPERTIES
    JobTerminates
    VerdictDelivered
    SlotReleased
CHECK_DEADLOCK FALSE
