\* Two processes, short executions and an operator populate one horizon.
CONSTANTS
    Processes = {p1, p2}
    Nobody = nobody
    Runs = {r1}
    NoRun = norun
    VehicleCount = 2
    Disabled = {2}
    SliceCount = 2
    SliceWindows = 1
    ChunkWindows = 1
    Budgets = {2, 4}
    ShortWindows = {1}
    Commanded = {1}
    MaxFaults = 1
SPECIFICATION FairSpec
INVARIANTS
    SuccessIsEarned
PROPERTIES
    KeepsLedger
    EveryRunEnds
CHECK_DEADLOCK FALSE
