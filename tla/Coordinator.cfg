SPECIFICATION RollbackSpec
CONSTANTS
    Procs = {p1, p2}
    NoOne = NoOne
    Origins = {"absent", "adopted"}
    Plans <- CoordinatorPlans
    UserCommands = {"accept", "rollback"}
    MaxFaults = 2
INVARIANTS
    RecordCoversDisk
PROPERTIES
    RecordOnlyGrows
    FinalPhasesAreTrue
    ToolRemovedLast
    OnlyStaleResumeAfterRollback
    RollbackUnlessStranded
CHECK_DEADLOCK FALSE
