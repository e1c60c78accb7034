SPECIFICATION Spec
CONSTANTS
    Process = {p1, p2}
    Foreign = foreign
    None = none
    SerialStarts = FALSE
INVARIANT SingleWriter
