SPECIFICATION Spec
CONSTANTS
    Setups <- StreamSetups
    FrameUnits = 2
    Cap = 2
INVARIANTS
    FramesAreOwn
    BedIsNeverLate
    UnitsConserved
    RenderAheadBounded
    FlushDrains
CHECK_DEADLOCK FALSE
