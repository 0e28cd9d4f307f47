SPECIFICATION FairSpec
CONSTANTS
    Foreign = {u, f, g}
    UserArchive = u
    Twins = {u, g}
    MaxFaults = 3
INVARIANTS
    OnlyPinnedAppears
    NothingForeignDestroyed
PROPERTIES
    CompletesUnlessWedged
CHECK_DEADLOCK FALSE
