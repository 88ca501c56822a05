SPECIFICATION AdmSpec
CONSTANTS
    N = 2
    Grid = 4
    Block = 8
    Frame = 16
    Chunks = {8, 32}
    Delays = {0, 3}
    Updates <- SomeUpdates
    AdmUpdates <- SomeAdmUpdates
    None = None
    Bed = {2}
    BedPosition = 48
    Zero = 0
    Corner = 144
    FlushTail = 16
    MaxFrames = 4
    MaxPass = 1
INVARIANTS
    AnswersAreFinal
    RampsConnect
    TracksAreMeant
PROPERTY
    NeverRewrites
CHECK_DEADLOCK FALSE
