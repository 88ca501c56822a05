SPECIFICATION Spec
CONSTANTS
    Objects = {0, 1}
    Slots = 4
    Group = 2
    Delay = 3
    Taps = 1
    LfeDelay = 3
    Frames <- SomeFrames
    Workers = {1, 2}
    MaxCalls = 3
INVARIANTS
    EachJobOnce
    MixedFromOneMoment
PROPERTIES
    RefinesCalls
    CallsReturn
CHECK_DEADLOCK FALSE
