SPECIFICATION FairSpec
CONSTANTS
    Invocation = {i1}
    Session = {s1, s2}
    NoSession = none
    DirOf <- SharedDir
    MaxConcurrency = 1
    MAX_DISPATCH_ATTEMPTS = 2
    ExitStatus = {"succeeded", "timed_out"}
INVARIANTS
    AtMostOneExecution
    NeverStartsUnpermitted
    UnlinkedHoldsNoWork
    AttemptsBounded
    NothingStrands
    DeadlineEndsTimedOut
PROPERTIES
    TerminalStaysOver
    KeepsPromise
    EverythingEnds
CHECK_DEADLOCK FALSE
