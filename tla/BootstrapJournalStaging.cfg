SPECIFICATION FairSpec
CONSTANTS
    Procs = {p1}
    NoOne = NoOne
    MaxIds = 2
    MaxBoundaries = 1
    MaxFaults = 1
PROPERTIES
    InterruptionRecovers
CHECK_DEADLOCK FALSE
