SPECIFICATION FairSpec
CONSTANTS
    MaxRows = 1
    Retried = {1}
    MaxRetries = 0
    MaxLate = 1
    MaxCrashes = 1
    Sweep = {1}
    MAX_DELIVERY_ATTEMPTS = 2
    ProviderDedupes = FALSE
PROPERTIES
    ResultIsNotified
CHECK_DEADLOCK FALSE
