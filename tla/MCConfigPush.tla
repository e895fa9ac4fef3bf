---------------------------- MODULE MCConfigPush ----------------------------
(* Instances of ConfigPush for TLC. *)
EXTENDS ConfigPush, TLC

CONSTANTS x, y, s1, s2, i1, a1, agentInformer, AGENT

OneInstance == [s \in Streams |-> i1]
OneAgent == [s \in Streams |-> a1]
InformerOf == [t \in Types |-> agentInformer]

AllMsgs == Config \cup {Other}

(* The server before anybody stops it. *)
ServingSpec == Init /\ [][Next /\ ~StopServer]_vars

(* Streams of one instance are interchangeable, and so are contents. *)
Symmetry == Permutations({s1, s2}) \cup Permutations(Contents)
=============================================================================
