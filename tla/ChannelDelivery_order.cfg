SPECIFICATION Spec
CONSTANTS
    MaxRows = 2
    Retried = {1}
    MaxRetries = 1
    MaxLate = 1
    MaxCrashes = 0
    Sweep = {1}
    MAX_DELIVERY_ATTEMPTS = 2
    ProviderDedupes = FALSE
PROPERTIES
    ShownInOrder
CHECK_DEADLOCK FALSE
