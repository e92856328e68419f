SPECIFICATION FairSpec
CONSTANTS
    Name <- DeepName
    Path <- DeepPath
    Root <- P
    RecordName = "r"
    LinkTo <- DeepLinkTo
    Manifest <- MCManifest
    Leaving <- DeepLeaving
    HandPath <- DeepHandPath
    Faults = {}
    Kills = FALSE
PROPERTIES
    KeepsThePromise
    SignalledRunEnds
