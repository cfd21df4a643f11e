\* A failure and two kills anywhere; the third backup finds no free name.
SPECIFICATION FairSpec
CONSTANTS
    p1 = p1
    p2 = p2
    Nobody = Nobody
    Openers <- TwoOpeners
    MaxDatabases = 3
    BackupNames = 2
    MaxFaults = 1
    MaxKills = 2
CHECK_DEADLOCK FALSE
INVARIANTS
    NothingInherited
    Whole
    NothingEmptyPreserved
    ShapeKept
PROPERTIES
    MovesInOneStep
    Reconciled
