SPECIFICATION FairSpec
CONSTANTS
    N = 3
    Unit = 2
    Wine = {3}
    DirOf <- MCDirOf
    InitialDirs = {}
    InitialFiles <- AnyFiles
    MaxFaults = 3
    MaxRacing = 2
INVARIANTS
    GateGuardsMutation
    FinalStatesAreTrue
PROPERTIES
    NoContentLost
    GateReleasedAfterReload
    RuntimeIsOwnedChange
    RecoversWithParents
CHECK_DEADLOCK FALSE
