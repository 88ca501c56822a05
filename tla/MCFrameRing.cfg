SPECIFICATION FairSpec
CONSTANTS
    Capacity = 2
    MaxItems = 5
INVARIANTS
    NoLostWakeup
    BuffersConserved
PROPERTIES
    CallsReturn
    RefinesChannel
CHECK_DEADLOCK FALSE
