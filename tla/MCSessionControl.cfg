CONSTANTS
    None = None
    Poller = Poller
    p1 = p1
    Sessions = {s1}
    Pods = {p1, p2}
    Handlers = {h1, h2}
    Levels = {2, 3}
    Reported = {"Active"}
    Home <- FirstPod
SPECIFICATION FairSpec
INVARIANTS
    TypeOK
    CommandsKept
PROPERTIES
    SweepSpares
    EndedIsTerminated
    CountSettles
CHECK_DEADLOCK FALSE
