SPECIFICATION Spec
CONSTANTS
    Unit = 4
    Big = 7
    NaN = NaN
    Inf = Inf
    Inputs <- AllInputs
    Updates <- AllUpdates
    Weights <- SmallWeights
INVARIANTS
    VerdictIsScaleInvariant
CHECK_DEADLOCK FALSE
