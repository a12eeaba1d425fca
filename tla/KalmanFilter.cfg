SPECIFICATION Spec
CONSTANTS
    Prime = 7
    NaN = NaN
    Problems <- AllProblems
    MaxOverflows = 1
INVARIANTS
    InverseIsInverse
    StepIsBayes
    CompletedIsFinite
CHECK_DEADLOCK FALSE
