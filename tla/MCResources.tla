---------------------------- MODULE MCResources -----------------------------
(* Instances of Resources for TLC. *)
EXTENDS Resources, TLC

CONSTANTS h1, k1, m1, m2, u1, u2, t1, t2

(* A push with everything, and an image with another server. *)
SomeRequests ==
    {[image |-> FALSE, model |-> m1, apiKey |-> k1, url |-> u1],
     [image |-> TRUE, model |-> None, apiKey |-> None, url |-> u2]}

(* An answer after a notification, and an error. *)
SomeReplies == {<<"notification", "result">>, <<"notification", "error", "result">>}

Tools == u1 :> t1 @@ u2 :> t2

SomePosted == {[type |-> "Remote", config |-> u2], [type |-> "Remote", config |-> None],
               [type |-> "Stdio", config |-> Command]}
=============================================================================
