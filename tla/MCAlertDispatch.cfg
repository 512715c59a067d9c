\* Two processes, one shut down and started again, and faults: two notifications.
CONSTANTS
    Notifications = {n1, n2}
    Processes = {p1, p2}
    BatchSize = 2
    MaxTrouble = 2
    MaxShutdowns = 1
SPECIFICATION FairSpec
INVARIANTS
    RepeatsAreExplained
    NothingLeftBehind
    CallsAreCounted
PROPERTIES
    KeepsPromise
    EveryNotificationCloses
CHECK_DEADLOCK FALSE
