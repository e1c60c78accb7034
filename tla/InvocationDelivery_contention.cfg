SPECIFICATION FairSpec
CONSTANTS
    Invocation = {i1, i2}
    Session = {s1}
    NoSession = none
    DirOf <- OwnDir
    MaxConcurrency = 1
    MAX_DISPATCH_ATTEMPTS = 1
    ExitStatus = {"succeeded"}
INVARIANTS
    ExecutorsWithinCap
PROPERTIES
    EverythingEnds
CHECK_DEADLOCK FALSE
