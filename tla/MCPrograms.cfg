CONSTANTS
    u1 = u1
    c1 = c1
    c2 = c2
    pen = pen
    ink = ink
    s1 = s1
    s2 = s2
    k1 = k1
    v1 = v1
    t1 = t1
    t2 = t2
    t3 = t3
    w1 = w1
    w2 = w2
    w3 = w3
    p1 = p1
    p2 = p2
    q1 = q1
    q2 = q2
    Users = {u1}
    Admins = {u1}
    Calls = {c1, c2}
    MaxTokens = 3
    MaxTime = 1
    AccessTTL = 0
    RefreshTTL = 0
    Leeway = 1
    Products = {pen, ink}
    Streams = {s1, s2}
    Keys = {k1}
    Watchers = {v1}
    MaxRecords = 2
    MaxEvents = 1
    MaxStock = 1
    QueueTasks = {t1, t2}
    MaxRetry = 1
    Concurrency = 1
    MaxStops = 1
    Workers = {w1, w2, w3}
    PoolWorkers = {w1, w2}
    Jobs = 3
    Buffer = 1
    MaxAttempts = 3
    Writers = {w1, w2}
    Readers = {w3}
    Producers = {p1, p2}
    Consumers = {q1, q2}
    Rounds = 2
    Slots = 1
    Tasks = {t1, t2, t3}
    Limit = 2
    Heavy = {t2, t3}
    Units = 3
    Batch = 4
    Events = 3
    Window = 1
    MaxBreaks = 2
SPECIFICATION ProgramsSpec
INVARIANTS
    TypeOK
    OneTokenPerLogin
    RetriesRepeat
    TasksDoneAndTried
    OneResultPerJob
    LessonsTellTheTruth
PROPERTIES
    EndedForGood
    EverybodyEnds
CHECK_DEADLOCK FALSE
