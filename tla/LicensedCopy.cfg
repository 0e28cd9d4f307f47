SPECIFICATION FairSpec
CONSTANTS
    InitialDest = {"absent", "previous", "source", "mode"}
    Edits = {"absent", "foreign", "mode"}
    Worlds = {"alone", "between", "racing"}
    MaxEdits = 3
    MaxCrashes = 2
PROPERTIES
    JournalTellsTheTruth
    NoFileLost
    RollbackConverges
    CopyIsOwnedChange
CHECK_DEADLOCK FALSE
