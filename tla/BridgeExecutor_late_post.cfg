SPECIFICATION Spec
CONSTANTS
    PostsMayFail = FALSE
    KillsMayFail = FALSE
PROPERTIES
    NoPostOnceSettled
CHECK_DEADLOCK FALSE
