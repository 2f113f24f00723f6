CONSTANTS
    h1 = h1
    h2 = h2
    r1 = r1
    r2 = r2
    u1 = u1
    u2 = u2
    Handlers <- MCHandlers
    Requests <- MCRequests
    Updates <- MCUpdates
    MaxVersion = 2
    MaxExecutions = 2
    MaxCrashes = 1
SPECIFICATION HelperSpec
INVARIANTS
    NotCutOff
    OncePerRequest
PROPERTIES
    NoDowngrade
    UpdateEnds
CHECK_DEADLOCK FALSE
