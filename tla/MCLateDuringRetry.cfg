\* A late fix while a failed newer row waits for its retry, fixed settings.
CONSTANTS
    MaxTime = 3
    Policies <- AllPolicies
    Environments <- LateDuringRetry
SPECIFICATION FairSpec
PROPERTIES
    EveryRowProcessed
CHECK_DEADLOCK FALSE
