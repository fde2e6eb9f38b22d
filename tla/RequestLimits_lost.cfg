SPECIFICATION LimitsSpec
CONSTANTS
    SessionKey = {s1, s2}
    ActorKey = {a1, a2}
    Request = {r1, r2}
    MaxInflight = 1
    MaxRequests = 2
    Window = 1
    IdleTtl = 1
    MaxBuckets = 2
    MaxTime = 1
PROPERTIES
    RefusalsAreDue
CHECK_DEADLOCK FALSE
