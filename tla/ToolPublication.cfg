SPECIFICATION FairSpec
CONSTANTS
    Inodes = {i1, i2, i3}
    Staged = i1
    Absent = Absent
    NoJournal = NoJournal
    Worlds = {"alone", "between", "racing"}
    MaxCrashes = 3
INVARIANTS
    OwnsOnlyItsStage
PROPERTIES
    ForeignToolStays
    PhaseTellsTheTruth
    WithdrawnForGood
    NothingLost
    RolledBackIsPrivate
    IntentResolves
    PublicationIsOwnedChange
CHECK_DEADLOCK FALSE
