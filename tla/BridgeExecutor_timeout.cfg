SPECIFICATION FairSpec
CONSTANTS
    PostsMayFail = TRUE
    KillsMayFail = FALSE
PROPERTIES
    TimeoutEndsAgent
CHECK_DEADLOCK FALSE
