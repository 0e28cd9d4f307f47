SPECIFICATION FairSpec
CONSTANTS
    Launchers = {l1, l2}
    Commands = {c1}
    NoOne = NoOne
    Ids = {t1, t2}
    MaxFaults = 2
INVARIANTS
    GameAndInstallerApart
    OneUnsettled
    
PROPERTIES
    UnblocksUnlessStranded
CHECK_DEADLOCK FALSE
