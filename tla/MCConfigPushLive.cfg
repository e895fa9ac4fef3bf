CONSTANTS
    s1 = s1
    s2 = s2
    i1 = i1
    a1 = a1
    AGENT = AGENT
    agentInformer = agentInformer
    None = None
    Other = Other
    Streams = {s1}
    Instances = {i1}
    Agents = {a1}
    Types = {AGENT}
    Pushers = {agentInformer}
    AgentPusher = agentInformer
    Contents = {x, y}
    x = x
    y = y
    MaxVersion = 2
    SendChSize = 1
    InstanceOf <- OneInstance
    AgentOf <- OneAgent
    PusherOf <- InformerOf
    Msgs <- AllMsgs
SPECIFICATION FairSpec
PROPERTIES
    EveryUpdateWritten
    DeadStreamsLeave
CHECK_DEADLOCK FALSE
