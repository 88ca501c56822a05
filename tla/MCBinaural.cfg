\* The caller may stop after any call.
CHECK_DEADLOCK FALSE
SPECIFICATION Spec
CONSTANTS
    Ears <- MCEars
    QmfTaps <- MCQmfTaps
    LowTaps <- MCLowTaps
    HighDelay = 3
    SynthTaps <- MCSynthTaps
    RingLowTaps <- MCRingLowTaps
    RingHighDelay = 1
    Branches <- MCBranches
    Allpasses <- MCAllpasses
    RoomDelays <- MCRoomDelays
    RoomMatrix <- MCRoomMatrix
    Feedback <- MCFeedback
    TapDelay = 2
    TapGain <- MCTapGain
    Extras <- MCExtras
    RoomEars <- MCRoomEars
    ImpulseSlots = 4
    Sources <- MCSources
    Scale = 8
    FadeSlots = 2
    Latency = 2
    EarlyHistory = 4
    SendOf <- MCSendOf
    LevelOf <- MCLevelOf
    ImagesOf <- MCImagesOf
    LfeGain = 5
    LatePasses <- MCLatePasses
    LineDelays <- MCLineDelays
    LineGains <- MCLineGains
    Keep = 1
    Pass <- MCPass
    FdnGain = 1
    Objects <- MCObjects
    BlockSamples = 2
    FrameSamples = 4
    RingLatency = 1
    FrontPlace = "front"
    DirectOfPlace <- MCDirectOfPlace
    RoomSendOf <- MCSendOf
    TailSamples = 2
    FilterTail = 7
    Kinds = {"jochrtf", "runtime", "public", "captured", "native"}
    FirstField <- MCFirstField
    FirstRoom <- MCFirstRoom
    Fields <- MCFields
    Rooms <- MCRooms
    Places <- MCPlaces
    Inputs <- MCInputs
    Motions <- MCMotions
    Cuts = {1, 3}
    Chunks = {1, 2}
    Tails = {2, 6}
    MaxCalls = 6
    MaxUpdates = 3
    MaxSamples = 8
    MaxResets = 1
INVARIANTS
    HeardIsDefined
    MemoIsFresh
    TailIsHeard
