SPECIFICATION Spec
CONSTANTS
    Invocation = {i1, i2}
    Session = {s1, s2}
    NoSession = none
    DirOf <- OwnDir
    MaxConcurrency = 1
    MAX_DISPATCH_ATTEMPTS = 1
    ExitStatus = {"succeeded"}
SYMMETRY Symmetry
INVARIANTS
    ExecutorsWithinCap
CHECK_DEADLOCK FALSE
