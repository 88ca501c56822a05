SPECIFICATION FairSpec
CONSTANTS
    N = 4
    JocDepth = 1
    OutDepth = 2
    Interval = 3
    Adm = FALSE
    MayCancel = TRUE
    Plans <- MixedPlans
INVARIANTS
    WrittenInOrder
    ReportIsTrue
    SerialUnlessDropped
    ProgressIsWritten
    MetadataInTime
PROPERTIES
    Returns
    RefinesTask
CHECK_DEADLOCK FALSE
