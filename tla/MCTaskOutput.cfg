CONSTANTS
    MaxFrames = 3
    FrameUnits = 2
    Latency = 1
    Chunk = 2
    TailUnits = 3
    AdmBlock = 3
    CopyBlock = 3
SPECIFICATION Spec
INVARIANTS
    SuccessIsWhole
    FilesEndWell
    HeardIsKept
