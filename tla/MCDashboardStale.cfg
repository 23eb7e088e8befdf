SPECIFICATION Spec
CONSTANTS
    t1 = t1
    t2 = t2
    s1 = s1
    s2 = s2
    sim = sim
    http = http
    Tabs = {t1}
    Servers = {s1}
    Reporters = {sim}
    Simulated = {sim}
    ServerOf <- OneServer
    SendCap = 2
    BroadcastCap = 1
    MaxReports = 2
PROPERTY
    ViewNeverBackwards
CHECK_DEADLOCK FALSE
