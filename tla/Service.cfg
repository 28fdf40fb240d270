SPECIFICATION FairSpec
CONSTANTS
    None = None
    prep = prep
    whisper = whisper
    ctc = ctc
    aligner = aligner
    diarizer = diarizer
    pii = pii
    redactor = redactor
    iPrep = iPrep
    iWhisper = iWhisper
    iCtc = iCtc
    iAlign = iAlign
    iDiar = iDiar
    iPii = iPii
    iRed = iRed
    large = large
    tiny = tiny
    wav2vec = wav2vec
    pyannote = pyannote
    gliner = gliner
    j1 = j1
    j2 = j2
    brief = brief
    dated = dated
    forever = forever
    job = job
    w1 = w1
    w2 = w2
    f1 = f1
    f2 = f2
    Marker = Marker
    b1 = b1
    b2 = b2
    h1 = h1
    h2 = h2
    Engines = {prep, whisper, ctc, aligner, diarizer, pii, redactor}
    Profile <- MCProfile
    Instances = {iPrep, iWhisper, iCtc, iAlign, iDiar, iPii, iRed}
    EngineOf <- MCEngineOf
    Models = {large, tiny, wav2vec, pyannote, gliner}
    About <- MCAbout
    Jobs = {j1, j2}
    Handlers = {h1, h2}
    Limit = 1
    Files = {f1, f2}
    Pulls = {b1, b2}
    Recordings = {brief, dated, forever, job}
    IsSession <- MCIsSession
    Keep <- MCKeep
    Sweepers = {w1, w2}
    g1 = g1
    g2 = g2
    a1 = a1
    a2 = a2
    n1 = n1
    n2 = n2
    n3 = n3
    nemo = nemo
    pyannote4 = pyannote4
    t1 = t1
    t2 = t2
    alice = alice
    bob = bob
    Nobody = Nobody
    Unset = Unset
    Keys = {"tasks_per_instance", "min_instances", "max_instances", "scale_down_after_s"}
    Gateways = {g1, g2}
    Admins = {a1, a2}
    Home <- MCHome
    CacheTtl = 2
    Interval = 3
    Horizon = 8
    Nodes = {n1, n2, n3}
    Streams <- MCStreams
    Tasks = {t1, t2}
    Policy <- MCPolicy
    MaxOnDemand = 1
    BlockedTicks = 2
    RetryBackoff = 2
    BootTimeout = 2
    MaxTicks = 5
    Window = 2
    MinSpeech = 3
    MinSilence = 3
    ChunkFloor = 3
    MinTurn = 2
    MinWords = 2
    MinMissed = 2
    Tolerance = 1
    MaxChunk = 6
    MinChunk = 2
    Shared = 2
    Scenarios <- MCScenarios
INVARIANTS
    SubmissionInv
    PlanInv
    StoreInv
    
    SettingsInv
    ScaleInv
    RecordingInv
    TranscriptInv
PROPERTIES
    
    ConflictSeen
CHECK_DEADLOCK FALSE
