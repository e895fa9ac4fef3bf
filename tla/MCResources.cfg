CONSTANTS
    h1 = h1
    k1 = k1
    m1 = m1
    m2 = m2
    u1 = u1
    u2 = u2
    t1 = t1
    t2 = t2
    NoTools = NoTools
    None = None
    Handlers = {h1}
    Requests <- SomeRequests
    Keys = {k1}
    Models = {m1, m2}
    URLs = {u1, u2}
    AuthURLs = {u2}
    ToolSets = {t1, t2}
    Offered <- Tools
    Replies <- SomeReplies
    Posted <- SomePosted
    EnableWebhook = FALSE
    MaxOps = 2
    MaxFaults = 1
    MaxEvents = 2
SPECIFICATION FairSpec
INVARIANTS
    TypeOK
PROPERTIES
    ToolsAreOfSpec
    ToolsSettle
    KeysGo
CHECK_DEADLOCK FALSE
