SPECIFICATION Spec
CONSTANTS
    o1 = o1
    o2 = o2
    prepare = prepare
    transcribe = transcribe
    diarize = diarize
    pii_detect = pii_detect
    audio_redact = audio_redact
    NoTask = NoTask
    Orchestrators = {o1, o2}
    Pipeline = {prepare, transcribe}
    PostProc = {pii_detect}
    Deps <- MCDeps
    MaxRetries = 0
    CancelRoutes = {}
    MaxFaults = 1
SYMMETRY Symmetry
INVARIANTS
    CompletedHasOutput
    SlotReleasedAtMostOnce
    PatchedHasFindings
CHECK_DEADLOCK FALSE
