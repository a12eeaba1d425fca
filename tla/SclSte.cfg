SPECIFICATION FairSteSpec
CONSTANTS
    Builds <- AllBuilds
    CudaBuilds <- WithCuda
    Versions <- AllVersions
    kVersionString <- VersionLine
    NoBuild = NoBuild
    Processes = {c1}
    Requests <- AllClientRequests
    MaxFaults = 1
INVARIANTS
    UnchangedVersionIsRecorded
    MethodBlockBackendRan
    HaltsAreResults
    NoOrphan
    WholeAnswersReturn
    ExceptionsAreEarned
PROPERTIES
    EveryCallEnds
