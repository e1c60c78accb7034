SPECIFICATION FairSpec
CONSTANTS
    PostsMayFail = TRUE
    KillsMayFail = TRUE
INVARIANTS
    NeverAbandoned
    InterruptedNeverSucceeds
PROPERTIES
    KeepsRun
    CauseFixedOnceSettled
    InterruptedIsReported
    RetirementEndsAgent
CHECK_DEADLOCK FALSE
