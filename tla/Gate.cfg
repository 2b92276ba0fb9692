SPECIFICATION Spec
CONSTANTS
    None = None
    Tables <- MCTables
    Contract <- MCContract
    Feed <- MCFeed
    Caps = {0, 1}
    Overlap = 0
    MaxReplaced = 1
    MaxRuns = 2
INVARIANTS
    TypeOK
    VerdictIsConformance
    LandedIsClean
PROPERTIES
    RefusedOnlyRagged
CHECK_DEADLOCK FALSE
