SPECIFICATION FairSpec
CONSTANTS
    Replicas = {r1, r2}
    Messages = {m1}
    Roles = {worker}
    a1 = a1
    Instances = {i1}
    Agents = {a1}
    AgentOf <- MCAgentOf
    MaxAttempts = 2
    MaxFaults = 1
    None = None
INVARIANTS
    TypeOK
    AttemptsAreTries
    NothingForgotten
PROPERTIES
    MessagesSettle
CHECK_DEADLOCK FALSE
