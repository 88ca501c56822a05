SPECIFICATION Spec
CONSTANTS
    N = 4
    JocDepth = 1
    OutDepth = 1
    Interval = 0
    Adm = TRUE
    MayCancel = FALSE
    Plans <- MetaPlans
INVARIANT UpdatesAreOwn
CHECK_DEADLOCK FALSE
