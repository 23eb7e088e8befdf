SPECIFICATION Spec
CONSTANTS
    c1 = c1
    c2 = c2
    c3 = c3
    k1 = k1
    k2 = k2
    u1 = u1
    u2 = u2
    nobody = nobody
    Calls = {c1, c2, c3}
    Keys = {k1, k2}
    KeyOf <- SameKey
    Users = {u1, u2}
    UserOf <- OtherUsers
    ActiveUsers = {u1}
    CreditLimit <- LimitTwo
    TotalOf <- LargeFirst
    PendingCap = 1
    MaxAttempts = 1
    Threshold = 2
    Cooldown = 1
    MaxClock = 1
INVARIANTS
    TypeOK
    DuplicatesOverlap
    AnswerIsOwnOrder
    UnverifiedOrdersSmall
CHECK_DEADLOCK FALSE
