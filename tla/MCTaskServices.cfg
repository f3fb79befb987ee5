CONSTANTS
    Tasks = {1, 2, 3}
    k1 = k1
    Subs = {k1}
    NoTask = 0
    a1 = a1
    a2 = a2
    Askers = {a1, a2}
    NoId = NoId
    MaxTasks = 2
    Capacity = 3
    MaxClock = 1
    Busy = {1}
    MaxRev = 2
    PageSize = 1
    MaxRetries = 1
    MaxStops = 1
    Parts <- MCParts
    Filters <- MCFilters
    c1 = c1
    c2 = c2
    Clients = {c1, c2}
    Grpc = {c2}
    Bodies <- MCBodies
SPECIFICATION ServicesSpec
CHECK_DEADLOCK FALSE
INVARIANTS
    ChallengeIsReachable
    AuthRequiredIsAnswerable
    HookMissesNothing
    EndedWorkerToldTheEnd
    WalkIsExact
    UnattendedTaskWasDropped
    RequestsAreAnswered
PROPERTIES
    HookNeverGoesBack
    WebhookCatchesUp
