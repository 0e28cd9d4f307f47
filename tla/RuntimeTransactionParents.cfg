SPECIFICATION FairSpec
CONSTANTS
    N = 3
    Unit = 2
    Wine = {3}
    DirOf <- MCDirOf
    InitialDirs = {}
    InitialFiles <- FreshOrOld
    MaxFaults = 1
    MaxRacing = 0
PROPERTIES
    Recovers
CHECK_DEADLOCK FALSE
