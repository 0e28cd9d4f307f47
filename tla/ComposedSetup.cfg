SPECIFICATION FairSpec
CONSTANTS
    Dispositions = {"copy", "keep"}
    UserCommands = {"accept", "rollback"}
    HostChanges = {"prefix", "replaced", "duplicates", "foreign"}
    MaxFaults = 4
INVARIANTS
    ToolOutlivesItsUsers
    OneWriter
PROPERTIES
    ReadyMeansComplete
    WithdrawalIsFinal
    SetupIsOwnedChange
    SettlesUnlessStranded
CHECK_DEADLOCK FALSE
