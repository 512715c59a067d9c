\* Failing windows and a vehicle disabled meanwhile hold generations up: with more
\* of them than a quantum looks at, the others complete all the same.
CONSTANTS
    Processes = {p1}
    Nobody = nobody
    GenCount = 3
    VehicleCount = 2
    Step = 1
    Span = 1
    SliceSpan = 1
    PolicySpan = 3
    Windows <- OneTier
    FallbackFloor = 1
    CandidateLimit = 2
    MaxFailures = 1
    MaxToggles = 1
    MaxFaults = 0
SPECIFICATION FairSpec
PROPERTY EveryGenerationCompletes
CHECK_DEADLOCK FALSE
