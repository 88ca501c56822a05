SPECIFICATION Spec
CONSTANTS
    Word = 65536
    MaxPayloads = 3
    Levels <- SmallLevels
    SparseStart <- SmallStart
    DenseTree <- SmallTrees
    SparseTree <- SmallTrees
    Programs <- SmallPrograms
INVARIANTS
    ContainerIsOwn
    MatricesAreMeant
    OamdIsMeant
    RenderersCanIndex
CHECK_DEADLOCK FALSE
