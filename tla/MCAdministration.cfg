\* Two administrators, an account to be created and a vehicle group; three requests.
CONSTANTS
    Requests = {r1, r2, r3}
    Nobody = nobody
    Users = {a, b, c}
    Admins = {a, b}
    all = all
    some = some
    depot = depot
    Permissions = {all, some}
    AllPermissions = all
    Groups = {depot}
    Asked <- AskedHere
    Fields = {limit, fence}
    Geofence = fence
    Values = {v1, v2}
    Summary <- SameSize
    MaxImports = 1
SPECIFICATION Spec
SYMMETRY Symmetry
INVARIANTS
    SomeAdmin
    SessionsAreCurrent
    TemporaryMustChange
    AuditTells
PROPERTIES
    NothingUnseenOverwritten
CHECK_DEADLOCK FALSE
