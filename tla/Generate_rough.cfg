SPECIFICATION Spec
CONSTANTS
    Name <- MCName
    Path <- MCPath
    Root <- P
    RecordName = "r"
    LinkTo <- MCLinkTo
    Manifest <- RoughManifest
    Leaving <- MCLeaving
    HandPath <- MCHandPath
    Faults = {"start", "plan", "prune", "tidy", "merge"}
    Kills = TRUE
INVARIANTS
    TypeOK
    UntouchedUntilAccepted
    Confined
    WantedDirectoriesKept
    NeverInItsOwnWay
PROPERTIES
    WrittenStaysWritten
