\* Fixed settings, and settings that change: late fixes, failures and restarts.
CONSTANTS
    MaxTime = 6
    Policies <- AllPolicies
    Environments <- AllSettings
SPECIFICATION Spec
INVARIANTS
    TypeOK
    ExactlyOnce
    MemoryIsReference
    CheckpointIsTrue
    EventsAreSound
    AlertsJustified
PROPERTIES
    DrainInOrder
    EventsOnlyAdvance
CHECK_DEADLOCK FALSE
