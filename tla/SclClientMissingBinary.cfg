SPECIFICATION ClientSpec
CONSTANTS
    Builds <- AllBuilds
    CudaBuilds <- WithCuda
    Versions <- AllVersions
    kVersionString <- VersionLine
    NoBuild = NoBuild
    Processes = {c1}
    Requests <- KeyRequests
    MaxFaults = 0
INVARIANT ChannelErrorsAreScl
