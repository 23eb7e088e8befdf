SPECIFICATION Spec
CONSTANTS
    c1 = c1
    c2 = c2
    c3 = c3
    k1 = k1
    k2 = k2
    u1 = u1
    u2 = u2
    nobody = nobody
    Calls = {c1, c2, c3}
    Keys = {k1, k2}
    KeyOf <- SameKey
    Users = {u1, u2}
    UserOf <- OneUser
    ActiveUsers = {u1}
    CreditLimit <- LimitTwo
    TotalOf <- SmallTwice
    PendingCap = 1
    MaxAttempts = 2
    Threshold = 2
    Cooldown = 1
    MaxClock = 1
INVARIANT
    OneOrderPerKey
CHECK_DEADLOCK FALSE
