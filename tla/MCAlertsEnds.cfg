\* Fixed settings: every row is processed in the end.
CONSTANTS
    MaxTime = 4
    Policies <- AllPolicies
    Environments <- FixedSettingsShort
SPECIFICATION FairSpec
PROPERTIES
    EveryRowProcessed
CHECK_DEADLOCK FALSE
