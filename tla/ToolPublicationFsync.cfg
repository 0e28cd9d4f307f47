SPECIFICATION FairSpec
CONSTANTS
    Inodes = {i1, i2, i3}
    Staged = i1
    Absent = Absent
    NoJournal = NoJournal
    Worlds = {"failing"}
    MaxCrashes = 1
PROPERTIES
    IntentResolves
CHECK_DEADLOCK FALSE
