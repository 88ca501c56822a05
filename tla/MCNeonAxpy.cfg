SPECIFICATION Spec
CONSTANTS
    Builds <- ArmBuilds
    Machines <- MCMachines
    Doubles <- MCDoubles
    Plus <- MCPlus
    Times <- MCTimes
    Negated <- MCNegated
    Over <- MCOver
    Unit <- MCUnit
    SynthesisBands = 2
    SynthesisTaps = 3
    HybridTerms = 4
    HybridOutputs = 8
    PathBands = 7
    AnalysisBands = 8
    MaxCount = 5
    FftSizes = {8, 16, 32}
    PlanSizes = {1, 2, 4, 8, 16}
    AnySizes = {1, 3, 4, 5, 6, 8}
    Samples <- MCSamples
INVARIANT CallIsScalar
