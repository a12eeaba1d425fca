SPECIFICATION Spec
CONSTANTS
    Builds <- AllBuilds
    CudaBuilds <- WithCuda
    Versions <- AllVersions
    kVersionString <- VersionLine
    NoBuild = NoBuild
    Processes = {p1}
    Requests <- AllRequests
    MaxFaults = 0
INVARIANT ExitZeroMeansOneObject
