SPECIFICATION DurableSpec
CONSTANTS
    Invocation = {i1}
    Session = {s1, s2}
    NoSession = none
    DirOf <- SharedDir
    MaxConcurrency = 1
    MAX_DISPATCH_ATTEMPTS = 1
    ExitStatus = {"succeeded"}
    MaxCrashes = 2
SYMMETRY Symmetry
INVARIANTS
    AtMostOneExecution
    OutcomesAreDurable
    AcceptanceIsDurable
    StartedIsDurable
PROPERTIES
    KeepsStoredPromise
CHECK_DEADLOCK FALSE
