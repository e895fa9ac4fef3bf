SPECIFICATION Spec
CONSTANTS
    m1 = m1
    Tasks = {t1}
    Members = {m1}
    Static <- OneStatic
    Dynamic = {}
    None = None
    MaxTotal = 2
    MaxRestarts = 1
    Policies = {"lead-decides"}
    Recoveries = {"None"}
    Handlers = {h1}
    Sinks = {k1}
    MaxSessions = 2
    MaxWrites = 2
INVARIANTS
    LeadDecides
CHECK_DEADLOCK FALSE
