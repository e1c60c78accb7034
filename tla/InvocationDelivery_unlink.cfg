SPECIFICATION CancelSpec
CONSTANTS
    Invocation = {i1}
    Session = {s1}
    NoSession = none
    DirOf <- SharedDir
    MaxConcurrency = 1
    MAX_DISPATCH_ATTEMPTS = 1
    ExitStatus = {"succeeded"}
PROPERTIES
    UnlinkReachesExecutor
CHECK_DEADLOCK FALSE
