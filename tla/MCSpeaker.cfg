SPECIFICATION MCSpec
CONSTANTS
    Objects = {1, 2}
    Channels = {"left"}
    Positions = {"front", "side", "rear"}
    Corner = "front"
    Bed = {2}
    BedPosition = "side"
    Controls = {"automatic", "disabled"}
    Gain <- Panning
    None = None
    Updates <- SomeUpdates
    Batches <- SomeBatches
    Offsets = {2, 7, 12, 13}
    Block = 4
    FrameBlocks = 3
    Snap = 46657
    MaxCalls = 3
    Places = {0, 1500, 5285, 7928, 16384, 20000, 24840, 32767}
    Trims <- SomeTrims
INVARIANTS
    EventsArrive
    GainsAreMeant
    PowerIsWhole
CHECK_DEADLOCK FALSE
