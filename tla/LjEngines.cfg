SPECIFICATION Spec
CONSTANTS
    N = 3
    ThreadsPerBlock = 2
    Sites <- Line
    Cutoffs <- Range2
    Energy <- PairEnergy
    Strength <- PairStrength
    Big = 16
    Inf = Inf
    Unwritten = Unwritten
INVARIANTS
    EnginesAgree
    RoomyInputsComplete
    CoincidentIsReported
    ForcesBalance
