\* The same without backfills and faults: what must happen.
CONSTANTS
    Processes = {p1}
    Retention = retention
    Nobody = nobody
    VehicleCount = 2
    Failing = {1}
    MaxTime = 3
    Week = 1
    PolicySpan = 2
    Overlap = 1
    Fetches <- TwoFetches
    Preferences <- OneEach
    Backfills = {}
    CheckpointBudget = 1
    ObservationBudget = 1
    MaxRuns = 1
    MaxPlans = 0
    MaxFailures = 0
    MaxFaults = 0
SPECIFICATION FairSpec
PROPERTIES
    EveryVehicleCatchesUp
    ObsoleteGoes
CHECK_DEADLOCK FALSE
