SPECIFICATION Spec
CONSTANTS
    Name <- MCName
    Path <- MCPath
    Root <- P
    RecordName = "r"
    LinkTo <- MCLinkTo
    Manifest <- MCManifest
    Leaving <- MCLeaving
    HandPath = {}
    Faults = {"merge"}
    Kills = FALSE
INVARIANTS
    AbsentPathsPruneNothing
