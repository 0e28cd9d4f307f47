SPECIFICATION RollbackSpec
CONSTANTS
    Procs = {p1}
    NoOne = NoOne
    Origins = {"absent", "adopted"}
    Plans <- CoordinatorPlans
    UserCommands = {}
    MaxFaults = 1
PROPERTIES
    ReadyRollsBack
CHECK_DEADLOCK FALSE
