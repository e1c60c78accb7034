SPECIFICATION Spec
CONSTANTS
    Invocation = {i1, i2}
    Session = {s1, s2}
    NoSession = none
    DirOf <- SharedDir
    MaxConcurrency = 2
    MAX_DISPATCH_ATTEMPTS = 1
    ExitStatus = {"succeeded"}
SYMMETRY Symmetry
INVARIANTS
    OneWriterPerDirectory
CHECK_DEADLOCK FALSE
