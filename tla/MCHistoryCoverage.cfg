\* A worker, retention and a backfill on two vehicles, the second always failing.
CONSTANTS
    Processes = {p1}
    Retention = retention
    Nobody = nobody
    VehicleCount = 2
    Failing = {2}
    MaxTime = 3
    Week = 1
    PolicySpan = 1
    Overlap = 1
    Fetches <- TwoFetches
    Preferences <- TwoSlots
    Backfills <- OneBackfill
    CheckpointBudget = 1
    ObservationBudget = 1
    MaxRuns = 1
    MaxPlans = 1
    MaxFailures = 0
    MaxFaults = 1
SPECIFICATION Spec
INVARIANTS
    CoverageIsTrue
    SurvivorsAreWhole
PROPERTIES
    DeletesAsAnnounced
CHECK_DEADLOCK FALSE
