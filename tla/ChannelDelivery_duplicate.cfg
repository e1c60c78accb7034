SPECIFICATION Spec
CONSTANTS
    MaxRows = 2
    Retried = {}
    MaxRetries = 0
    MaxCrashes = 1
    MaxLate = 1
    Sweep = {1}
    MAX_DELIVERY_ATTEMPTS = 2
    ProviderDedupes = FALSE
INVARIANT ResendIsDeduped
CHECK_DEADLOCK FALSE
