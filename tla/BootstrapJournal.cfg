SPECIFICATION FairSpec
CONSTANTS
    Procs = {p1, p2}
    NoOne = NoOne
    MaxIds = 2
    MaxBoundaries = 1
    MaxFaults = 2
INVARIANTS
    OneUnfinished
    ReportedStays
PROPERTIES
    RecoversUnlessStranded
CHECK_DEADLOCK FALSE
