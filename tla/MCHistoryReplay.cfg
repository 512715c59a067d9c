\* Two workers lose leases, locks and each other; windows of two lengths.
CONSTANTS
    Processes = {p1, p2}
    Nobody = nobody
    GenCount = 2
    VehicleCount = 2
    Step = 1
    Span = 2
    SliceSpan = 2
    PolicySpan = 2
    Windows <- TwoTiers
    FallbackFloor = 1
    CandidateLimit = 2
    MaxFailures = 0
    MaxToggles = 0
    MaxFaults = 2
SPECIFICATION Spec
INVARIANTS
    NothingSkipped
    CompletedIsWhole
PROPERTIES
    OnlyForward
CHECK_DEADLOCK FALSE
