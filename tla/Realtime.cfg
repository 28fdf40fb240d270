SPECIFICATION SessionFairSpec
CONSTANTS
    Modes = {"vad", "timed", "stream"}
    Rates = {2, 3}
    Pads = {1, 2}
    MinSpeech = 1
    MinSilence = 1
    MaxUtterance = 2
    HardLag = 5
    QueueSize = 1
    MaxMessage = 3
    MaxAudio = 5
    MaxMishaps = 1
INVARIANTS
    SessionInv
PROPERTIES
    SessionOver
CHECK_DEADLOCK FALSE
