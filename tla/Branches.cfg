SPECIFICATION Spec
CONSTANTS
    o1 = o1
    o2 = o2
    prepare = prepare
    transcribe = transcribe
    diarize = diarize
    pii_detect = pii_detect
    audio_redact = audio_redact
    NoTask = NoTask
    Orchestrators = {o1, o2}
    Pipeline = {prepare, transcribe, diarize}
    PostProc = {}
    Deps <- MCDeps
    MaxRetries = 1
    CancelRoutes = {}
    MaxFaults = 0
SYMMETRY Symmetry
INVARIANTS
    InputsExist
    DispatchedOnce
    CompletedJobIsWhole
CHECK_DEADLOCK FALSE
