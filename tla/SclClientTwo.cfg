SPECIFICATION ClientSpec
CONSTANTS
    Builds <- TwoBuilds
    CudaBuilds <- WithCuda
    Versions <- AllVersions
    kVersionString <- VersionLine
    NoBuild = NoBuild
    Processes = {c1, c2}
    Requests <- KeyRequests
    MaxFaults = 1
SYMMETRY Symmetry
INVARIANTS
    CpuAnswersAlike
PROPERTIES
    ServiceSafeSpec
