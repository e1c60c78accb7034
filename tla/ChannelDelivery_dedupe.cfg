SPECIFICATION Spec
CONSTANTS
    MaxRows = 2
    Retried = {1}
    MaxRetries = 1
    MaxLate = 1
    MaxCrashes = 1
    Sweep = {1, 2}
    MAX_DELIVERY_ATTEMPTS = 2
    ProviderDedupes = TRUE
INVARIANTS
    ShownAsAsked
PROPERTIES
    KeepsOutbox
CHECK_DEADLOCK FALSE
