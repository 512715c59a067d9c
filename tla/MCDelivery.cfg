\* Two dispatchers race for one delivery: leases, relinks, restarts, the cutover.
CONSTANTS
    Alerts = {a1}
    Users = {u1}
    Dispatchers = {w1, w2}
    Lease = 1
    MaxAge = 4
    MaxAttempts = 2
    RetryDelay <- ScaledRetryDelay
    BatchSize = 2
    NotBefore = 2
    LastPlan = 2
    MaxNow = 6
    MaxRevision = 2
SPECIFICATION FairSpec
INVARIANTS
    LeaseRespected
    BrokenWasRefused
    AttemptsBounded
PROPERTIES
    KeepsPromise
    EveryDeliveryCloses
CHECK_DEADLOCK FALSE
