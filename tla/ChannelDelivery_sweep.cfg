SPECIFICATION FairSpec
CONSTANTS
    MaxRows = 2
    Retried = {1}
    MaxRetries = 1
    MaxLate = 1
    MaxCrashes = 1
    Sweep = {1, 2}
    MAX_DELIVERY_ATTEMPTS = 2
    ProviderDedupes = FALSE
INVARIANTS
    ShownAsAsked
PROPERTIES
    KeepsOutbox
    EveryRowEnds
CHECK_DEADLOCK FALSE
