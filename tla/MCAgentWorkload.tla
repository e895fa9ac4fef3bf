-------------------------- MODULE MCAgentWorkload ---------------------------
(* Instances of AgentWorkload for TLC. *)
EXTENDS AgentWorkload

CONSTANTS w1, w2, c1, c2

(* A Declarative agent, an image, and a runtime without an adapter. *)
SomeRequests ==
    {[image |-> FALSE, runtime |-> "", workload |-> w1, config |-> c1],
     [image |-> TRUE, runtime |-> "agentscope-java", workload |-> w2, config |-> c1],
     [image |-> FALSE, runtime |-> "custom", workload |-> w2, config |-> c2]}
=============================================================================
