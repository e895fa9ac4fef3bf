CONSTANTS
    w1 = w1
    w2 = w2
    c1 = c1
    c2 = c2
    s1 = s1
    Own = Own
    Default = Default
    None = None
    Sessions = {s1}
    Workloads = {w1, w2}
    Configs = {c1, c2}
    Requests <- SomeRequests
    EnableWebhook = TRUE
    MaxOps = 3
    MaxFaults = 1
SPECIFICATION FairSpec
INVARIANTS
    TypeOK
    SessionsGoFirst
    ReportsOnSpec
PROPERTIES
    DeletedVanishes
    WorkloadFollowsSpec
    ReadySettles
CHECK_DEADLOCK FALSE
