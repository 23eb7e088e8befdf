CONSTANTS
    r1 = r1
    r2 = r2
    title = title
    done = done
    pen = pen
    ink = ink
    ann = ann
    i1 = i1
    i2 = i2
    w1 = w1
    c1 = c1
    c2 = c2
    Requests = {r1, r2}
    Fields = {title, done}
    Instances = {i1, i2}
    Files = 3
    Workers = {w1}
    MaxSignals = 2
    MaxStarts = 6
    Clients = {c1, c2}
    MaxIds = 2
    MaxFaults = 2
    Clicks = {r1}
    MaxInjections = 1
    Names = {pen, ink}
    MaxTasks = 2
    MaxPages = 2
SPECIFICATION ServersSpec
INVARIANTS
    TypeOK
    NoLostPatch
    SchemaIsRecorded
    ShutdownOrder
    EdgeTellsTheTruth
    StartedIsSound
    StoreIsHistory
PROPERTIES
    ServersAnswer
CHECK_DEADLOCK FALSE
