SPECIFICATION FairSpec
CONSTANTS
    Builds <- AllBuilds
    CudaBuilds <- WithCuda
    Versions <- AllVersions
    kVersionString <- VersionLine
    NoBuild = NoBuild
    Processes = {p1}
    Requests <- AllRequests
    MaxFaults = 1
INVARIANTS
    TypeOK
    BackendBeforePayload
    NoSilentFallback
    OneAnswer
PROPERTIES
    AnswerIsFinal
    EveryProcessExits
