SPECIFICATION DurableSpec
CONSTANTS
    Invocation = {i1}
    Session = {s1, s2}
    NoSession = none
    DirOf <- SharedDir
    MaxConcurrency = 1
    MAX_DISPATCH_ATTEMPTS = 1
    ExitStatus = {"succeeded"}
    MaxCrashes = 1
SYMMETRY Symmetry
INVARIANT WithdrawnNeverRuns
CHECK_DEADLOCK FALSE
