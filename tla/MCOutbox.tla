------------------------------ MODULE MCOutbox ------------------------------
(* All instances belong to one agent.                                      *)
EXTENDS Outbox

CONSTANT a1

MCAgentOf == [i \in Instances |-> a1]
=============================================================================
