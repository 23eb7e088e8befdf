SPECIFICATION Spec
CONSTANTS
    r1 = r1
    r2 = r2
    r3 = r3
    r4 = r4
    s1 = s1
    s2 = s2
    k1 = k1
    none = none
    Requests = {r1, r2, r3, r4}
    Servers = {s1}
    Keys = {k1}
    NoKey = none
    Host <- OneHost
    KeyOf <- OneKey
    Limit = 1
    TicksPerSecond = 2
    Window = 3
    MaxAttempts = 1
    FailOpen = TRUE
    Threshold = 2
    Cooldown = 1
    MaxClock = 3
SYMMETRY Symm
INVARIANTS
    BoundaryBurst
    RetryAfterNotEarly
    OpenNeedsOutage
    ProbeOnItsWay
CHECK_DEADLOCK FALSE
