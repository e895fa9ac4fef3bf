SPECIFICATION FairSpec
CONSTANTS
    m1 = m1
    Tasks = {t1}
    Members = {m1}
    Static <- OneStatic
    Dynamic = {m1}
    None = None
    MaxTotal = 3
    MaxRestarts = 1
    Policies = {"lead-decides"}
    Recoveries = {"Auto"}
    Handlers = {h1, h2}
    Sinks = {k1}
    MaxSessions = 3
    MaxWrites = 2
INVARIANTS
    TypeOK
    MembersBounded
PROPERTIES
    OverIsOver
    MembersKept
    DeletedTeamVanishes
    LateTeamEnds
CHECK_DEADLOCK FALSE
