----------------------------- MODULE ConfigPush -----------------------------
(***************************************************************************)
(* Configuration distribution over ASDP on one aistiod replica: the        *)
(* SnapshotStore, the Distributor's PushConfig and PushFullSync, and the   *)
(* ConfigPushWatcher's informer threads that drive them, composed with the *)
(* connection registry.                                                    *)
(*                                                                         *)
(* PushConfig stores the snapshot, releases the store's lock, collects the *)
(* connections under the registry's lock and sends to them one by one; a   *)
(* new connection's PushFullSync reads the store, looks its connection up  *)
(* and sends.  Each critical section and each channel operation is a step. *)
(***************************************************************************)
EXTENDS ConnRegistry

CONSTANTS
    Agents,       \* namespace/name of the agents
    AgentOf,      \* AgentOf[s]: the agent stream s identifies itself as
    Types,        \* configuration types (AGENT, TOOL, SKILL, MODEL)
    Pushers,      \* informer handler threads; each runs its callbacks serially
    PusherOf,     \* PusherOf[t]: the thread that pushes type t
    AgentPusher,  \* the Agent informer's thread, which also forgets deleted agents
    Contents,     \* rendered resources
    MaxVersion,   \* bound on the version counters, so that runs are finite
    Other         \* any message that is not a ConfigPush

Config == [agent : Agents, type : Types, version : 1..MaxVersion, content : Contents]

ASSUME PushAssumption ==
    /\ AgentOf \in [Streams -> Agents]
    /\ PusherOf \in [Types -> Pushers]
    /\ AgentPusher \in Pushers
    /\ MaxVersion \in Nat
    /\ Msgs = Config \cup {Other}
    /\ None \notin Config
    /\ Other \notin Config

VARIABLES
    snapshots,    \* snapshots[a][t]: the current snapshot, or None
    versions,     \* versions[a][t]: the version counter
    push,         \* push[p]: progress of the PushConfig call of thread p
    sync,         \* sync[s]: progress of the PushFullSync call of handler s
    got,          \* history: got[s], the types whose current snapshot s accepted
    applied       \* applied[s][t]: the last config of type t written to live stream s

pushVars == <<snapshots, versions, push, sync, got, applied>>
vars == <<registryVars, pushVars>>

IdlePush == [pc |-> "idle", cfg |-> None, targets |-> {}]
PushTo(c, conns) == [pc |-> "sending", cfg |-> c, targets |-> conns]

SyncWith(l, snaps, c) == [pc |-> l, snaps |-> snaps, target |-> c]
SyncAt(l) == SyncWith(l, {}, None)

PushTypeOK ==
    /\ snapshots \in [Agents -> [Types -> Config \cup {None}]]
    /\ versions \in [Agents -> [Types -> 0..MaxVersion]]
    /\ push \in [Pushers -> [pc : {"idle", "stored", "sending"},
                             cfg : Config \cup {None},
                             targets : SUBSET Streams]]
    /\ sync \in [Streams -> [pc : {"none", "read", "lookup", "sending", "done"},
                             snaps : SUBSET Config,
                             target : Streams \cup {None}]]
    /\ got \in [Streams -> SUBSET Types]
    /\ applied \in [Streams -> [Types -> Config \cup {None}]]

(* Every variable of the server and of the distributor has its type.       *)
TypeOK == RegistryTypeOK /\ PushTypeOK

PushInit ==
    /\ snapshots = [a \in Agents |-> [t \in Types |-> None]]
    /\ versions = [a \in Agents |-> [t \in Types |-> 0]]
    /\ push = [p \in Pushers |-> IdlePush]
    /\ sync = [s \in Streams |-> SyncAt("none")]
    /\ got = [s \in Streams |-> {}]
    /\ applied = [s \in Streams |-> [t \in Types |-> None]]

Init == RegistryInit /\ PushInit

-----------------------------------------------------------------------------
(* The snapshot store.                                                     *)

Snapshots(a) == {snapshots[a][t] : t \in Types} \ {None}

(* UpdateSnapshot with unchanged content: PushConfig returns.              *)
Unchanged(a, t, x) == snapshots[a][t] # None /\ snapshots[a][t].content = x

(* DeleteAgent: the agent's snapshots and its version counters go.         *)
DeleteAgent(a) ==
    /\ snapshots' = [snapshots EXCEPT ![a] = [t \in Types |-> None]]
    /\ versions' = [versions EXCEPT ![a] = [t \in Types |-> 0]]

-----------------------------------------------------------------------------
(* PushConfig, run by thread p.                                            *)

(* UpdateSnapshot with new content: next version, new snapshot, which no   *)
(* connection has accepted yet.                                            *)
PushUpdate(p, a, t, x) ==
    LET v == versions[a][t] + 1
        c == [agent |-> a, type |-> t, version |-> v, content |-> x]
    IN /\ push[p].pc = "idle"
       /\ PusherOf[t] = p
       /\ ~Unchanged(a, t, x)
       /\ v <= MaxVersion
       /\ versions' = [versions EXCEPT ![a][t] = v]
       /\ snapshots' = [snapshots EXCEPT ![a][t] = c]
       /\ push' = [push EXCEPT ![p] = [pc |-> "stored", cfg |-> c, targets |-> {}]]
       /\ got' = [s \in Streams |-> IF AgentOf[s] = a THEN got[s] \ {t} ELSE got[s]]
       /\ UNCHANGED <<registryVars, sync, applied>>

(* GetConnectionsForAgent: with no connection the call returns, and the    *)
(* snapshot waits for a full sync.                                         *)
PushCollect(p) ==
    LET conns == {s \in Streams : Registered(s) /\ AgentOf[s] = push[p].cfg.agent}
    IN /\ push[p].pc = "stored"
       /\ push' = [push EXCEPT ![p] = IF conns = {} THEN IdlePush
                                      ELSE PushTo(push[p].cfg, conns)]
       /\ UNCHANGED <<registryVars, snapshots, versions, sync, got, applied>>

(* History: Send accepts c on s, and c is the current snapshot. *)
Accept(s, c) ==
    got' = IF Len(sendCh[s]) < SendChSize /\ snapshots[AgentOf[s]][c.type] = c
           THEN [got EXCEPT ![s] = @ \cup {c.type}] ELSE got

(* Send to the next connection; an error is logged and the loop goes on.   *)
PushSend(p, s) ==
    LET rest == push[p].targets \ {s}
    IN /\ push[p].pc = "sending"
       /\ s \in push[p].targets
       /\ SendOn(s, push[p].cfg)
       /\ Accept(s, push[p].cfg)
       /\ push' = [push EXCEPT ![p] = IF rest = {} THEN IdlePush ELSE PushTo(push[p].cfg, rest)]
       /\ UNCHANGED <<snapshots, versions, sync, applied>>

(* onAgentDelete -> ForgetAgent, on the Agent informer's thread.           *)
ForgetAgent(a) ==
    /\ push[AgentPusher].pc = "idle"
    /\ DeleteAgent(a)
    /\ got' = [s \in Streams |-> IF AgentOf[s] = a THEN {} ELSE got[s]]
    /\ UNCHANGED <<registryVars, push, sync, applied>>

-----------------------------------------------------------------------------
(* PushFullSync, run by the handler of stream s after RegisterConnection.  *)

(* Mutant of Register: no full sync on connect. *)
RegisterWithoutSync(s) ==
    /\ RegisterConnection(s)
    /\ sync' = [sync EXCEPT ![s] = SyncAt("done")]
    /\ UNCHANGED <<snapshots, versions, push, got, applied>>

(* Connect registers the connection and then starts the full sync. *)
Register(s) ==
    /\ RegisterConnection(s)
    /\ sync' = [sync EXCEPT ![s] = SyncAt("read")]
    /\ UNCHANGED <<snapshots, versions, push, got, applied>>

(* GetAllSnapshots; with none the call returns. *)
SyncRead(s) ==
    LET snaps == Snapshots(AgentOf[s])
    IN /\ sync[s].pc = "read"
       /\ sync' = [sync EXCEPT ![s] = IF snaps = {} THEN SyncAt("done")
                                      ELSE SyncWith("lookup", snaps, None)]
       /\ UNCHANGED <<registryVars, snapshots, versions, push, got, applied>>

(* GetConnection by instance: possibly another stream's, possibly none.    *)
SyncLookup(s) ==
    LET c == connections[InstanceOf[s]]
    IN /\ sync[s].pc = "lookup"
       /\ sync' = [sync EXCEPT ![s] = IF c = None THEN SyncAt("done")
                                      ELSE SyncWith("sending", sync[s].snaps, c)]
       /\ UNCHANGED <<registryVars, snapshots, versions, push, got, applied>>

(* Send the snapshots read earlier, in map order (any).                    *)
SyncSend(s, c) ==
    LET rest == sync[s].snaps \ {c}
        target == sync[s].target
    IN /\ sync[s].pc = "sending"
       /\ c \in sync[s].snaps
       /\ SendOn(target, c)
       /\ Accept(target, c)
       /\ sync' = [sync EXCEPT ![s] = IF rest = {} THEN SyncAt("done")
                                      ELSE SyncWith("sending", rest, target)]
       /\ UNCHANGED <<snapshots, versions, push, applied>>

-----------------------------------------------------------------------------
(* The rest of the server.                                                 *)

(* The writer writes to the stream; the connector applies a config as it   *)
(* arrives, with no version check.                                         *)
Transmit(s) ==
    /\ WriterSend(s)
    /\ LET m == Head(sendCh[s])
       IN applied' = IF m = Other THEN applied ELSE [applied EXCEPT ![s][m.type] = m]
    /\ UNCHANGED <<snapshots, versions, push, sync, got>>

(* SendSessionCommand, SendTeamEvent and BroadcastTeamEvent enqueue on the *)
(* registered connection; a heartbeat is answered on the handler's own.    *)
SendOther(s) ==
    /\ \/ Registered(s)
       \/ pc[s] = "serving" /\ streamUp[s] /\ sync[s].pc = "done"
    /\ SendOn(s, Other)
    /\ UNCHANGED pushVars

(* The handler's receive loop starts after the full sync.                  *)
Disconnect(s) ==
    /\ sync[s].pc = "done"
    /\ HandleDisconnect(s)
    /\ UNCHANGED pushVars

(* Steps of handler, writer and transport that touch nothing here.         *)
Handshake(s) ==
    /\ RejectHandshake(s) \/ LookupExisting(s) \/ EvictExisting(s) \/ AckFails(s)
    /\ UNCHANGED pushVars

WriterEnds(s) ==
    /\ WriterFails(s) \/ WriterExit(s)
    /\ UNCHANGED pushVars

StreamLost(s) ==
    /\ StreamDown(s)
    /\ applied' = [applied EXCEPT ![s] = [t \in Types |-> None]]
    /\ UNCHANGED <<snapshots, versions, push, sync, got>>

StopServer == Stop /\ UNCHANGED pushVars

Next ==
    \/ \E p \in Pushers, a \in Agents, t \in Types, x \in Contents : PushUpdate(p, a, t, x)
    \/ \E p \in Pushers : PushCollect(p)
    \/ \E p \in Pushers, s \in Streams : PushSend(p, s)
    \/ \E a \in Agents : ForgetAgent(a)
    \/ \E s \in Streams :
        \/ Handshake(s)
        \/ Register(s)
        \/ SyncRead(s)
        \/ SyncLookup(s)
        \/ \E c \in sync[s].snaps : SyncSend(s, c)
        \/ Transmit(s)
        \/ SendOther(s)
        \/ WriterEnds(s)
        \/ StreamLost(s)
        \/ Disconnect(s)
    \/ StopServer

Spec == Init /\ [][Next]_vars

(* Fairness.  Handler threads, informer threads and writer goroutines are  *)
(* goroutines that the Go scheduler always runs again; a writer on a live  *)
(* stream gets through because the data plane keeps reading.  Nothing is   *)
(* assumed of peers connecting or leaving, of configuration changes, of    *)
(* Stop, or of the other messages.                                         *)
Fairness ==
    /\ \A p \in Pushers : WF_vars(PushCollect(p) \/ \E s \in Streams : PushSend(p, s))
    /\ \A s \in Streams :
        /\ WF_vars(SyncRead(s) \/ SyncLookup(s) \/ \E c \in sync[s].snaps : SyncSend(s, c))
        /\ WF_vars(Transmit(s))
        /\ WF_vars(WriterEnds(s))
        /\ WF_vars(Disconnect(s))

FairSpec == Spec /\ Fairness

-----------------------------------------------------------------------------
(* Correctness.                                                            *)

(* A connection on which nothing has gone wrong yet. *)
Healthy(s) == Registered(s) /\ ~closed[s]

(* No push call and no full sync that could still reach s is under way. *)
Quiet(s) == sync[s].pc = "done" /\ \A p \in Pushers : push[p].pc = "idle"

(* No update is missed between a push and a connect: registration precedes *)
(* the full sync's read of the store, and the store is updated before the  *)
(* connections are collected, so once both are over every current snapshot *)
(* of the agent was accepted by every healthy connection of it.            *)
NoMissedUpdate ==
    \A s \in Streams :
        Healthy(s) /\ Quiet(s) => \A c \in Snapshots(AgentOf[s]) : c.type \in got[s]

(* Every snapshot is eventually written to every connection that stays     *)
(* healthy on a live stream, unless the snapshot is replaced first.  (What *)
(* a late full sync writes after it is another matter: see below.)         *)
EveryUpdateWritten ==
    \A s \in Streams, t \in Types, x \in Contents, v \in 1..MaxVersion :
        LET c == [agent |-> AgentOf[s], type |-> t, version |-> v, content |-> x]
        IN (Healthy(s) /\ streamUp[s] /\ snapshots[AgentOf[s]][t] = c /\ t \notin got[s])
             ~> (applied[s][t] = c \/ ~Healthy(s) \/ ~streamUp[s] \/ snapshots[AgentOf[s]][t] # c)

(* A registered connection whose stream died leaves the registry.          *)
DeadStreamsLeave ==
    \A s \in Streams : (Registered(s) /\ ~streamUp[s]) ~> ~Registered(s)

(* docs/zh/reference/asdp.md: the full snapshot comes on connect, changes  *)
(* follow.  So a healthy, drained connection of which nothing is under way *)
(* has the current configuration.                                          *)
UpToDateWhenDrained ==
    \A s \in Streams :
        Healthy(s) /\ Quiet(s) /\ streamUp[s] /\ sendCh[s] = <<>> =>
            \A c \in Snapshots(AgentOf[s]) : applied[s][c.type] = c
=============================================================================
