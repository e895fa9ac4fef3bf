------------------------------- MODULE Outbox -------------------------------
(***************************************************************************)
(* The team message outbox.  A message is a TeamMessage object; every      *)
(* replica of the control plane watches all of them, and the ones that     *)
(* hold a connection of the recipient's agent deliver it and then record   *)
(* the try in its status.                                                  *)
(*                                                                         *)
(* A replica reads messages from its informer cache, which lags behind the *)
(* API server; a status write carries the resourceVersion of the copy that *)
(* was read and is refused if the object has changed since.  Nothing makes *)
(* delivery and record one step: two replicas may deliver the same         *)
(* message, and a replica may crash between the two.                       *)
(***************************************************************************)
EXTENDS Naturals, FiniteSets

CONSTANTS
    Replicas,      \* control plane replicas
    Messages,      \* names the API server generates for TeamMessages
    Roles,         \* values of the team-role label: the lead and the members
    Instances,     \* data plane instances
    Agents,        \* agents the team's sessions belong to
    AgentOf,       \* AgentOf[i]: the agent of instance i
    MaxAttempts,   \* tries after which a message is dropped (five)
    MaxFaults,     \* bound on crashes and failed status writes
    None

ASSUME OutboxAssumption ==
    /\ AgentOf \in [Instances -> Agents]
    /\ MaxAttempts \in Nat \ {0}
    /\ MaxFaults \in Nat
    /\ None \notin Roles \cup Messages \cup Agents

VARIABLES
    msg,     \* msg[m]: the TeamMessage
    cache,   \* cache[r][m]: the message in r's informer cache
    queue,   \* queue[r]: r's work queue, requeued messages included
    ctl,     \* ctl[r]: the reconciliation under way on r
    hosts,   \* hosts[r][k]: the agent of the session that r lists first for role k
    conn,    \* conn[r]: instances with a connection on r
    bcast,   \* roles a broadcast under way has still to write to
    team,    \* whether the AgentTeam exists
    faults,  \* crashes and failed writes so far
    tries    \* history: tries[m], how many tries of each outcome were recorded

vars == <<msg, cache, queue, ctl, hosts, conn, bcast, team, faults, tries>>

Outcomes == {"sent", "vanished", "failed"}

Message == [state : {"unused", "there", "gone"}, to : Roles \cup {None}, owned : BOOLEAN,
            delivered : BOOLEAN, attempts : Nat, rv : Nat]
Unused == [state |-> "unused", to |-> None, owned |-> FALSE,
           delivered |-> FALSE, attempts |-> 0, rv |-> 0]

IdleCtl == [pc |-> "idle"]
Busy == [pc : {"send"}, m : Messages, copy : Message, inst : Instances]
        \cup [pc : {"mark"}, m : Messages, copy : Message, outcome : Outcomes]

(* Every variable has its type, and no message is tried too often: a try   *)
(* is only started on a message below the limit and only recorded if       *)
(* nothing else was recorded since.                                        *)
TypeOK ==
    /\ msg \in [Messages -> Message]
    /\ cache \in [Replicas -> [Messages -> Message]]
    /\ queue \in [Replicas -> SUBSET Messages]
    /\ ctl \in [Replicas -> {IdleCtl} \cup Busy]
    /\ hosts \in [Replicas -> [Roles -> Agents \cup {None}]]
    /\ conn \in [Replicas -> SUBSET Instances]
    /\ bcast \in SUBSET Roles
    /\ team \in BOOLEAN
    /\ faults \in 0..MaxFaults
    /\ tries \in [Messages -> [ok : Nat, failed : Nat]]
    /\ \A m \in Messages : msg[m].attempts <= MaxAttempts

Init ==
    /\ msg = [m \in Messages |-> Unused]
    /\ cache = [r \in Replicas |-> msg]
    /\ queue = [r \in Replicas |-> {}]
    /\ ctl = [r \in Replicas |-> IdleCtl]
    /\ hosts = [r \in Replicas |-> [k \in Roles |-> None]]
    /\ conn = [r \in Replicas |-> {}]
    /\ bcast = {}
    /\ team = TRUE
    /\ faults = 0
    /\ tries = [m \in Messages |-> [ok |-> 0, failed |-> 0]]

-----------------------------------------------------------------------------
(* The message router.                                                     *)

(* newMessageObject: owned by the team if that exists when it is asked.    *)
NewMessage(to) == [Unused EXCEPT !.state = "there", !.to = to, !.owned = team]

Create(m, to) ==
    /\ msg[m].state = "unused"
    /\ msg' = [msg EXCEPT ![m] = NewMessage(to)]

RouteMessage(m, to) ==
    /\ Create(m, to)
    /\ UNCHANGED <<cache, queue, ctl, hosts, conn, bcast, team, faults, tries>>

(* REST passes on what it is given and does not ask for a recipient. *)
sendTeamMessage(m) == \E to \in Roles \cup {None} : RouteMessage(m, to)

(* As the replica's cache of sessions shows them. *)
teamMemberRoles(r) == {k \in Roles : hosts[r][k] # None}

(* BroadcastMessage lists the roles once and writes one message to each of *)
(* them but the sender ...                                                 *)
BroadcastMessage(r, from) ==
    /\ bcast = {}
    /\ bcast' = teamMemberRoles(r) \ {from}
    /\ UNCHANGED <<msg, cache, queue, ctl, hosts, conn, team, faults, tries>>

BroadcastCreate(m, to) ==
    /\ to \in bcast
    /\ Create(m, to)
    /\ bcast' = bcast \ {to}
    /\ UNCHANGED <<cache, queue, ctl, hosts, conn, team, faults, tries>>

(* ... and gives up at the first one that fails. *)
BroadcastFails ==
    /\ bcast # {}
    /\ bcast' = {}
    /\ UNCHANGED <<msg, cache, queue, ctl, hosts, conn, team, faults, tries>>

-----------------------------------------------------------------------------
(* TeamEventWatcher.  Of the sessions of the recipient the first one that  *)
(* the list shows is taken, in no particular order, and wherever its agent *)
(* is connected.  A reconciliation that finds no session, or no connection *)
(* of that agent on this replica, requeues the message: no step of the     *)
(* model.                                                                  *)

(* Mutant of Ignored: off by one. *)
IgnoredLate(c) ==
    \/ c.state # "there"
    \/ c.delivered
    \/ c.attempts > MaxAttempts
    \/ c.to = None

(* Messages the watcher has nothing more to do about. *)
Ignored(c) ==
    \/ c.state # "there"
    \/ c.delivered
    \/ c.attempts >= MaxAttempts
    \/ c.to = None

Take(r, m) ==
    /\ ctl[r] = IdleCtl
    /\ m \in queue[r]
    /\ queue' = [queue EXCEPT ![r] = @ \ {m}]
    /\ UNCHANGED <<msg, cache, hosts, conn, bcast, team, faults, tries>>

(* An instance of the agent a that is connected to the replica. *)
GetConnectedInstance(r, a) == {i \in conn[r] : AgentOf[i] = a}

Deliver(r, m) ==
    LET c == cache[r][m]
    IN /\ ~Ignored(c)
       /\ \E i \in GetConnectedInstance(r, hosts[r][c.to]) :
             ctl' = [ctl EXCEPT ![r] = [pc |-> "send", m |-> m, copy |-> c, inst |-> i]]

(* Mutant of Reconcile: what is not for this replica is left to another.   *)
ReconcileNotHere(r, m) ==
    /\ Take(r, m)
    /\ \/ Ignored(cache[r][m]) /\ UNCHANGED ctl
       \/ /\ ~Ignored(cache[r][m])
          /\ GetConnectedInstance(r, hosts[r][cache[r][m].to]) = {}
          /\ UNCHANGED ctl
       \/ Deliver(r, m)

Reconcile(r, m) ==
    /\ Take(r, m)
    /\ \/ Ignored(cache[r][m]) /\ UNCHANGED ctl
       \/ Deliver(r, m)

(* Sending fails when the channel is full.  An instance whose connection   *)
(* is gone by now is no error, though nothing is sent.                     *)
SendOutcomes(r, i) == IF i \in conn[r] THEN {"sent", "failed"} ELSE {"vanished"}

DeliverTeamEvent(r) ==
    /\ ctl[r].pc = "send"
    /\ \E o \in SendOutcomes(r, ctl[r].inst) :
          ctl' = [ctl EXCEPT ![r] = [pc |-> "mark", m |-> ctl[r].m,
                                     copy |-> ctl[r].copy, outcome |-> o]]
    /\ UNCHANGED <<msg, cache, queue, hosts, conn, bcast, team, faults, tries>>

(* The status that is written: only a failure leaves it undelivered. *)
Marked(c, o) ==
    [c EXCEPT !.delivered = (o # "failed"), !.attempts = @ + 1, !.rv = @ + 1]

Count(m, o) ==
    tries' = IF o = "failed" THEN [tries EXCEPT ![m].failed = @ + 1]
                             ELSE [tries EXCEPT ![m].ok = @ + 1]

(* Mutant of Current: the status write carries no resourceVersion. *)
ThereAtAll(m, c) == msg[m].state = "there"

(* The copy c of message m has not been overtaken. *)
Current(m, c) == msg[m].state = "there" /\ msg[m].rv = c.rv

(* Status().Update, accepted.  A failed delivery is tried again.           *)
Mark(r) ==
    LET m == ctl[r].m  c == ctl[r].copy  o == ctl[r].outcome
    IN /\ ctl[r].pc = "mark"
       /\ Current(m, c)
       /\ msg' = [msg EXCEPT ![m] = Marked(c, o)]
       /\ Count(m, o)
       /\ queue' = IF o = "failed" THEN [queue EXCEPT ![r] = @ \cup {m}] ELSE queue
       /\ ctl' = [ctl EXCEPT ![r] = IdleCtl]
       /\ UNCHANGED <<cache, hosts, conn, bcast, team, faults>>

(* Mutant of MarkRefused: a conflict is taken for a record. *)
MarkRefusedForgotten(r) ==
    /\ ctl[r].pc = "mark"
    /\ \/ ~Current(ctl[r].m, ctl[r].copy) /\ UNCHANGED faults
       \/ faults < MaxFaults /\ faults' = faults + 1
    /\ ctl' = [ctl EXCEPT ![r] = IdleCtl]
    /\ UNCHANGED <<msg, cache, queue, hosts, conn, bcast, team, tries>>

(* Refused, or failed otherwise: the message is requeued.                  *)
MarkRefused(r) ==
    /\ ctl[r].pc = "mark"
    /\ \/ ~Current(ctl[r].m, ctl[r].copy) /\ UNCHANGED faults
       \/ faults < MaxFaults /\ faults' = faults + 1
    /\ queue' = [queue EXCEPT ![r] = @ \cup {ctl[r].m}]
    /\ ctl' = [ctl EXCEPT ![r] = IdleCtl]
    /\ UNCHANGED <<msg, cache, hosts, conn, bcast, team, tries>>

(* The informer: an event brings the cache up to date and queues the       *)
(* message; one event may stand for several changes.                       *)
Sync(r, m) ==
    /\ cache[r][m] # msg[m]
    /\ cache' = [cache EXCEPT ![r][m] = msg[m]]
    /\ queue' = [queue EXCEPT ![r] = @ \cup {m}]
    /\ UNCHANGED <<msg, ctl, hosts, conn, bcast, team, faults, tries>>

(* A replica dies and starts again: its streams are gone, and the first    *)
(* list fills its cache and queue.                                         *)
Restart(r) ==
    /\ faults < MaxFaults
    /\ faults' = faults + 1
    /\ ctl' = [ctl EXCEPT ![r] = IdleCtl]
    /\ conn' = [conn EXCEPT ![r] = {}]
    /\ cache' = [cache EXCEPT ![r] = msg]
    /\ queue' = [queue EXCEPT ![r] = {m \in Messages : msg[m].state = "there"}]
    /\ UNCHANGED <<msg, hosts, bcast, team, tries>>

-----------------------------------------------------------------------------
(* What goes on around the outbox: streams come and go, sessions are       *)
(* spawned and removed, the team is deleted and its messages collected.    *)

Connect(r, i) ==
    /\ conn' = [conn EXCEPT ![r] = @ \cup {i}]
    /\ UNCHANGED <<msg, cache, queue, ctl, hosts, bcast, team, faults, tries>>

Disconnect(r, i) ==
    /\ i \in conn[r]
    /\ conn' = [conn EXCEPT ![r] = @ \ {i}]
    /\ UNCHANGED <<msg, cache, queue, ctl, hosts, bcast, team, faults, tries>>

(* Sessions are spawned and removed, seen late, and listed in any order.   *)
Host(r, k, a) ==
    /\ hosts' = [hosts EXCEPT ![r][k] = a]
    /\ UNCHANGED <<msg, cache, queue, ctl, conn, bcast, team, faults, tries>>

DeleteTeam ==
    /\ team
    /\ team' = FALSE
    /\ UNCHANGED <<msg, cache, queue, ctl, hosts, conn, bcast, faults, tries>>

Collect(m) ==
    /\ ~team
    /\ msg[m].state = "there" /\ msg[m].owned
    /\ msg' = [msg EXCEPT ![m].state = "gone"]
    /\ UNCHANGED <<cache, queue, ctl, hosts, conn, bcast, team, faults, tries>>

-----------------------------------------------------------------------------
Watch(r) ==
    \/ \E m \in Messages : Reconcile(r, m) \/ Sync(r, m)
    \/ DeliverTeamEvent(r)
    \/ Mark(r)
    \/ MarkRefused(r)

Next ==
    \/ \E m \in Messages : sendTeamMessage(m)
    \/ \E r \in Replicas, from \in Roles \cup {None} : BroadcastMessage(r, from)
    \/ \E m \in Messages, to \in Roles : BroadcastCreate(m, to)
    \/ BroadcastFails
    \/ \E r \in Replicas : Watch(r) \/ Restart(r)
    \/ \E r \in Replicas, i \in Instances : Connect(r, i) \/ Disconnect(r, i)
    \/ \E r \in Replicas, k \in Roles, a \in Agents \cup {None} : Host(r, k, a)
    \/ DeleteTeam
    \/ \E m \in Messages : Collect(m)

Spec == Init /\ [][Next]_vars

(* Informers and workers go on; nothing is assumed of the environment.     *)
Fairness ==
    \A r \in Replicas :
       /\ \A m \in Messages : WF_vars(Reconcile(r, m)) /\ WF_vars(Sync(r, m))
       /\ WF_vars(DeliverTeamEvent(r))
       /\ WF_vars(Mark(r) \/ MarkRefused(r))

FairSpec == Spec /\ Fairness

-----------------------------------------------------------------------------
(* The status of a message counts exactly the tries that were recorded,    *)
(* with at most one success, and that one made it delivered - though every *)
(* replica writes what it computed from a copy of its own.                 *)
AttemptsAreTries ==
    \A m \in Messages :
       /\ msg[m].attempts = tries[m].ok + tries[m].failed
       /\ tries[m].ok = (IF msg[m].delivered THEN 1 ELSE 0)

(* The message that a replica is working on. *)
InHand(r, m) == ctl[r] # IdleCtl /\ ctl[r].m = m

(* A message that is still to be delivered, and that a replica knows as it *)
(* is, is in its queue or in its hands: no refused write, crash, missing   *)
(* connection or delivery by another replica makes a replica drop it, as   *)
(* nothing would remind it of the message.                                 *)
NothingForgotten ==
    \A r \in Replicas, m \in Messages :
        ~Ignored(msg[m]) /\ cache[r][m] = msg[m] => m \in queue[r] \/ InHand(r, m)

(* Replica r holds a connection of the agent it finds for the recipient. *)
Reachable(r, m) ==
    /\ msg[m].to # None
    /\ GetConnectedInstance(r, hosts[r][msg[m].to]) # {}

Settled(m) ==
    msg[m].delivered \/ msg[m].attempts = MaxAttempts \/ msg[m].state = "gone"

(* A message whose recipient stays reachable from some replica is          *)
(* delivered, or dropped after so many tries, whatever the other replicas  *)
(* do, though the replica may crash or lose the race for the record.       *)
MessagesSettle ==
    \A m \in Messages, r \in Replicas :
       (msg[m].state = "there" /\ Reachable(r, m)) ~> (Settled(m) \/ ~Reachable(r, m))
=============================================================================
