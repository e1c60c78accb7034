SPECIFICATION FairSpec
CONSTANTS
    Process = {p1, p2, p3}
    Foreign = foreign
    None = none
    SerialStarts = TRUE
INVARIANTS
    TypeOK
    SingleWriter
    OwnerIsOnRecord
PROPERTIES
    RefusedForACause
    RestartServes
