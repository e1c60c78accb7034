SPECIFICATION FairSpec
CONSTANTS
    Grant = {1}
    Foreign = foreign
    NoScope = noscope
    MaxRevision = 2
    MaxRuns = 1
    MaxCrashes = 0
    Scope = {0, 1, 2, foreign}
PROPERTIES
    AlwaysResolved
CHECK_DEADLOCK FALSE
