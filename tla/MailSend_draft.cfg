SPECIFICATION FairSpec
CONSTANTS
    Grant = {1, 2, 3}
    Foreign = foreign
    NoScope = noscope
    MaxRevision = 2
    MaxRuns = 3
    MaxCrashes = 1
    Scope = {0, 1, 2, foreign}
INVARIANTS
    EveryMailApproved
    MailedOnce
PROPERTIES
    ResolvedForGood
    SendingEnds
CHECK_DEADLOCK FALSE
