SPECIFICATION Spec
CONSTANTS
    r1 = r1
    r2 = r2
    r3 = r3
    r4 = r4
    s1 = s1
    s2 = s2
    k1 = k1
    none = none
    Requests = {r1, r2, r3}
    Servers = {s1, s2}
    Keys = {k1}
    NoKey = none
    Host <- TwoHosts
    KeyOf <- OneAnonymous
    Limit = 1
    TicksPerSecond = 1
    Window = 1
    MaxAttempts = 2
    FailOpen = FALSE
    Threshold = 1
    Cooldown = 1
    MaxClock = 1
INVARIANTS
    TypeOK
    GrantsWithinLimit
    CountsAreAttempts
PROPERTY
    EveryRequestAnswered
CHECK_DEADLOCK FALSE
