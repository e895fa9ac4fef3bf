----------------------------- MODULE TaskBoard -----------------------------
(***************************************************************************)
(* What the task store promises to a team: every operation on a task takes *)
(* effect at once.  A task that was created is pending once its state was  *)
(* written, only a pending task can be claimed, by any name and the empty  *)
(* one too, and a released task is nobody's.                               *)
(***************************************************************************)
CONSTANTS Tasks, Members, None

VARIABLES
    state,   \* state[t]
    owner    \* owner[t]: the member that claimed t

boardVars == <<state, owner>>

(* A task is never created twice: the API server generates its name. *)
Present == {"new", "pending", "in_progress", "completed"}

BoardInit ==
    /\ state = [t \in Tasks |-> "absent"]
    /\ owner = [t \in Tasks |-> None]

SetTask(t, s, m) ==
    /\ state' = [state EXCEPT ![t] = s]
    /\ owner' = [owner EXCEPT ![t] = m]

Create(t) == state[t] = "absent" /\ SetTask(t, "new", None)

Publish(t) == state[t] = "new" /\ SetTask(t, "pending", owner[t])

Claim(t, m) == state[t] = "pending" /\ owner[t] = None /\ SetTask(t, "in_progress", m)

Complete(t) == state[t] \in Present /\ SetTask(t, "completed", owner[t])

Release(t) == state[t] \in Present /\ SetTask(t, "pending", None)

Remove(t) == state[t] \in Present /\ SetTask(t, "gone", None)

BoardNext ==
    \E t \in Tasks :
        \/ Create(t)
        \/ Publish(t)
        \/ \E m \in Members \cup {None} : Claim(t, m)
        \/ Complete(t)
        \/ Release(t)
        \/ Remove(t)

BoardSpec == BoardInit /\ [][BoardNext]_boardVars
=============================================================================
