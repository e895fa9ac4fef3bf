---------------------------- MODULE ConnRegistry ----------------------------
(***************************************************************************)
(* The connection registry of the ASDP gRPC server: the handler threads of *)
(* service.Connect (one per stream), the registry map Server.connections,  *)
(* the bounded send channel and writer goroutine of each Connection, and   *)
(* the active-connections gauge.                                           *)
(*                                                                         *)
(* Every stream is served by one handler and creates at most one           *)
(* Connection, so a member of Streams stands for the stream, its handler   *)
(* and its Connection.  The registry lock is held for one lookup, one      *)
(* insertion or one removal at a time, and each such critical section is   *)
(* one step here.                                                          *)
(***************************************************************************)
EXTENDS Integers, Sequences, FiniteSets

CONSTANTS
    Streams,      \* gRPC streams that data planes open
    Instances,    \* registry keys namespace/instanceID
    InstanceOf,   \* InstanceOf[s]: the instance stream s identifies itself as
    Msgs,         \* messages the control plane sends downstream
    SendChSize,   \* capacity of Connection.sendCh (64 in the code)
    None          \* "no connection"

ASSUME RegistryAssumption ==
    /\ InstanceOf \in [Streams -> Instances]
    /\ IsFiniteSet(Streams)
    /\ IsFiniteSet(Instances)
    /\ SendChSize \in Nat \ {0}
    /\ None \notin Streams

VARIABLES
    pc,           \* pc[s]: where the handler of stream s is
    existing,     \* existing[s]: the connection HandleConnect found for s's instance
    connections,  \* connections[i]: the registered connection of instance i
    closed,       \* closed[s]: the context made for s's Connection is cancelled
    streamUp,     \* streamUp[s]: the stream itself (its own context) is alive
    writer,       \* writer[s]: the writer goroutine of s
    sendCh,       \* sendCh[s]: messages queued for the writer
    gauge,        \* agentscope_grpc_connections_active
    evicted,      \* history: connections taken out of the registry by a later handshake
    leaked        \* history: connections dropped from the map with no gauge decrement

registryVars == <<pc, existing, connections, closed, streamUp, writer, sendCh,
                  gauge, evicted, leaked>>

HandlerStates == {"waiting", "looked", "accepted", "serving", "returned"}
WriterStates  == {"none", "running", "stopped"}

(* Every variable has its type, and no channel holds more than it can.     *)
RegistryTypeOK ==
    /\ pc \in [Streams -> HandlerStates]
    /\ existing \in [Streams -> Streams \cup {None}]
    /\ connections \in [Instances -> Streams \cup {None}]
    /\ closed \in [Streams -> BOOLEAN]
    /\ streamUp \in [Streams -> BOOLEAN]
    /\ writer \in [Streams -> WriterStates]
    /\ sendCh \in [Streams -> Seq(Msgs)]
    /\ \A s \in Streams : Len(sendCh[s]) <= SendChSize
    /\ gauge \in Int
    /\ evicted \in SUBSET Streams
    /\ leaked \in SUBSET Streams

RegistryInit ==
    /\ pc = [s \in Streams |-> "waiting"]
    /\ existing = [s \in Streams |-> None]
    /\ connections = [i \in Instances |-> None]
    /\ closed = [s \in Streams |-> FALSE]
    /\ streamUp = [s \in Streams |-> TRUE]
    /\ writer = [s \in Streams |-> "none"]
    /\ sendCh = [s \in Streams |-> <<>>]
    /\ gauge = 0
    /\ evicted = {}
    /\ leaked = {}

Registered(s) == connections[InstanceOf[s]] = s

(* The connections the map holds. *)
Registry == {i \in Instances : connections[i] # None}

-----------------------------------------------------------------------------
(* The handshake.                                                          *)

(* The first message is not a ConnectRequest, carries no meta or an empty  *)
(* identity, the client certificate does not match it, or the stream died  *)
(* first: the handler returns.                                             *)
RejectHandshake(s) ==
    /\ pc[s] = "waiting"
    /\ pc' = [pc EXCEPT ![s] = "returned"]
    /\ streamUp' = [streamUp EXCEPT ![s] = FALSE]
    /\ UNCHANGED <<existing, connections, closed, writer, sendCh, gauge, evicted, leaked>>

(* HandleConnect accepts the identity and looks the instance up.           *)
LookupExisting(s) ==
    /\ pc[s] = "waiting"
    /\ streamUp[s]
    /\ pc' = [pc EXCEPT ![s] = "looked"]
    /\ existing' = [existing EXCEPT ![s] = connections[InstanceOf[s]]]
    /\ UNCHANGED <<connections, closed, streamUp, writer, sendCh, gauge, evicted, leaked>>

(* Connection.Close cancels the Connection's context; that is all it does. *)
Close(c) == closed' = [closed EXCEPT ![c] = TRUE]

(* Mutant of UnregisterConnectionIfMatch: the entry goes whosever it is. *)
UnregisterConnection(i, c) ==
    /\ connections' = [connections EXCEPT ![i] = None]
    /\ gauge' = IF connections[i] = None THEN gauge ELSE gauge - 1

(* UnregisterConnectionIfMatch(i, c): the entry goes, and the gauge with   *)
(* it, only if it still is c.                                              *)
UnregisterConnectionIfMatch(i, c) ==
    /\ connections' = IF connections[i] = c THEN [connections EXCEPT ![i] = None] ELSE connections
    /\ gauge' = IF connections[i] = c THEN gauge - 1 ELSE gauge

(* HandleConnect tears down the connection it found, if any; the removal   *)
(* closes it.                                                              *)
EvictExisting(s) ==
    LET i == InstanceOf[s]
        c == existing[s]
        hit == c # None /\ connections[i] = c
    IN /\ pc[s] = "looked"
       /\ pc' = [pc EXCEPT ![s] = "accepted"]
       /\ IF c = None THEN UNCHANGED <<connections, gauge>>
                      ELSE UnregisterConnectionIfMatch(i, c)
       /\ IF hit THEN Close(c) ELSE UNCHANGED closed
       /\ evicted' = IF hit THEN evicted \cup {c} ELSE evicted
       /\ existing' = [existing EXCEPT ![s] = None]
       /\ UNCHANGED <<streamUp, writer, sendCh, leaked>>

(* Sending the acceptance fails on a dead stream: the handler returns      *)
(* before it registered anything.                                          *)
AckFails(s) ==
    /\ pc[s] = "accepted"
    /\ ~streamUp[s]
    /\ pc' = [pc EXCEPT ![s] = "returned"]
    /\ UNCHANGED <<existing, connections, closed, streamUp, writer, sendCh, gauge, evicted, leaked>>

(* The acceptance was sent: the Connection is created and registered, over *)
(* whatever the map holds by now, and its writer goroutine started.        *)
RegisterConnection(s) ==
    LET i == InstanceOf[s]
    IN /\ pc[s] = "accepted"
       /\ pc' = [pc EXCEPT ![s] = "serving"]
       /\ connections' = [connections EXCEPT ![i] = s]
       /\ gauge' = gauge + 1
       /\ writer' = [writer EXCEPT ![s] = "running"]
       /\ leaked' = IF connections[i] = None THEN leaked ELSE leaked \cup {connections[i]}
       /\ UNCHANGED <<existing, closed, streamUp, sendCh, evicted>>

-----------------------------------------------------------------------------
(* The life of a connection.                                               *)

(* Mutant of Send: the channel is treated as unbounded. *)
SendUnbounded(s, m) ==
    /\ sendCh' = [sendCh EXCEPT ![s] = Append(@, m)]
    /\ UNCHANGED closed

(* Connection.Send: a non-blocking enqueue; on a full channel the message  *)
(* is dropped and the connection closed.                                   *)
Send(s, m) ==
    IF Len(sendCh[s]) < SendChSize
    THEN /\ sendCh' = [sendCh EXCEPT ![s] = Append(@, m)]
         /\ UNCHANGED closed
    ELSE Close(s) /\ UNCHANGED sendCh

(* Some thread that holds the Connection sends on it.  The pointer came    *)
(* from the registry, so the connection has been registered, but it may    *)
(* have been replaced or torn down since.                                  *)
SendOn(s, m) ==
    /\ pc[s] \in {"serving", "returned"}
    /\ Send(s, m)
    /\ UNCHANGED <<pc, existing, connections, streamUp, writer, gauge, evicted, leaked>>

(* The writer goroutine writes the next message to a live stream.  Go's    *)
(* select may pick the channel even when the context is cancelled.         *)
WriterSend(s) ==
    /\ writer[s] = "running"
    /\ sendCh[s] # <<>>
    /\ streamUp[s]
    /\ sendCh' = [sendCh EXCEPT ![s] = Tail(@)]
    /\ UNCHANGED <<pc, existing, connections, closed, streamUp, writer, gauge, evicted, leaked>>

(* Writing to a dead stream fails: the writer cancels the context and      *)
(* exits; the message it took is lost.                                     *)
WriterFails(s) ==
    /\ writer[s] = "running"
    /\ sendCh[s] # <<>>
    /\ ~streamUp[s]
    /\ sendCh' = [sendCh EXCEPT ![s] = Tail(@)]
    /\ Close(s)
    /\ writer' = [writer EXCEPT ![s] = "stopped"]
    /\ UNCHANGED <<pc, existing, connections, streamUp, gauge, evicted, leaked>>

(* Mutant of WriterExit: the select has a default case, so an idle writer exits. *)
WriterExitWhenIdle(s) ==
    /\ writer[s] = "running"
    /\ closed[s] \/ ~streamUp[s] \/ sendCh[s] = <<>>
    /\ writer' = [writer EXCEPT ![s] = "stopped"]
    /\ UNCHANGED <<pc, existing, connections, closed, streamUp, sendCh, gauge, evicted, leaked>>

(* The writer sees its context done: cancelled, or the stream's own.       *)
WriterExit(s) ==
    /\ writer[s] = "running"
    /\ closed[s] \/ ~streamUp[s]
    /\ writer' = [writer EXCEPT ![s] = "stopped"]
    /\ UNCHANGED <<pc, existing, connections, closed, streamUp, sendCh, gauge, evicted, leaked>>

(* The stream dies: the peer left, a keepalive ping timed out or the       *)
(* transport reached MaxConnectionAge.  (gRPC, not code of the server.)    *)
StreamDown(s) ==
    /\ pc[s] # "returned"
    /\ streamUp[s]
    /\ streamUp' = [streamUp EXCEPT ![s] = FALSE]
    /\ UNCHANGED <<pc, existing, connections, closed, writer, sendCh, gauge, evicted, leaked>>

(* Mutant of HandleDisconnect: the deferred call only cancels. *)
DisconnectKeepingEntry(s) ==
    /\ pc[s] = "serving"
    /\ ~streamUp[s]
    /\ pc' = [pc EXCEPT ![s] = "returned"]
    /\ Close(s)
    /\ UNCHANGED <<existing, connections, streamUp, writer, sendCh, gauge, evicted, leaked>>

(* Recv fails on a dead stream: the handler returns, and its deferred call *)
(* unregisters the connection if it is still its own and cancels it.       *)
HandleDisconnect(s) ==
    /\ pc[s] = "serving"
    /\ ~streamUp[s]
    /\ pc' = [pc EXCEPT ![s] = "returned"]
    /\ UnregisterConnectionIfMatch(InstanceOf[s], s)
    /\ Close(s)
    /\ UNCHANGED <<existing, streamUp, writer, sendCh, evicted, leaked>>

(* Server.Stop: every registered connection is closed and the map emptied; *)
(* the gauge is left alone.                                                *)
Stop ==
    LET current == {connections[i] : i \in Registry}
    IN /\ closed' = [s \in Streams |-> closed[s] \/ s \in current]
       /\ connections' = [i \in Instances |-> None]
       /\ leaked' = leaked \cup current
       /\ UNCHANGED <<pc, existing, streamUp, writer, sendCh, gauge, evicted>>

(* The steps of handlers, writers and the transport, without the senders.  *)
StreamStep(s) ==
    \/ RejectHandshake(s)
    \/ LookupExisting(s)
    \/ EvictExisting(s)
    \/ AckFails(s)
    \/ RegisterConnection(s)
    \/ WriterSend(s)
    \/ WriterFails(s)
    \/ WriterExit(s)
    \/ StreamDown(s)
    \/ HandleDisconnect(s)

RegistryNext ==
    \/ \E s \in Streams : StreamStep(s)
    \/ \E s \in Streams, m \in Msgs : SendOn(s, m)
    \/ Stop

RegistrySpec == RegistryInit /\ [][RegistryNext]_registryVars

-----------------------------------------------------------------------------
(* Correctness.                                                            *)

(* The map holds no dead entry: a registered connection belongs to its     *)
(* instance and its handler has not returned, so the deferred              *)
(* HandleDisconnect that removes it is still to run.                       *)
RegisteredIsServing ==
    \A i \in Instances :
        connections[i] # None =>
            /\ InstanceOf[connections[i]] = i
            /\ pc[connections[i]] = "serving"

(* A handler that serves a stream is reachable through the map unless a    *)
(* later handshake of the same instance, or Stop, took it out: the late    *)
(* teardown of an older stream never evicts it.                            *)
ServingIsReachable ==
    \A s \in Streams :
        pc[s] = "serving" => Registered(s) \/ s \in evicted \/ s \in leaked

(* A connection that a later handshake found and removed is cancelled, so  *)
(* that its writer goroutine stops (HandleConnect's stale-connection       *)
(* teardown).  Connections that a concurrent handshake overwrote in the    *)
(* map are not covered: nobody closes those.                               *)
EvictedIsClosed == \A s \in evicted : closed[s]

(* How far the gauge is off: it is the size of the map plus the            *)
(* connections dropped without a decrement (overwritten by a concurrent    *)
(* handshake, or present when the server stopped).                         *)
GaugeAccounting == gauge = Cardinality(Registry) + Cardinality(leaked)

(* No handshake and no teardown is under way. *)
AtRest ==
    \A s \in Streams :
        \/ pc[s] \in {"waiting", "returned"}
        \/ pc[s] = "serving" /\ streamUp[s] /\ ~closed[s]

(* metrics.go says of the gauge: "Number of active gRPC data plane         *)
(* connections."  So once every handshake and teardown is over it is the   *)
(* number of streams being served.                                         *)
GaugeCountsActive ==
    AtRest => gauge = Cardinality({s \in Streams : pc[s] = "serving"})
=============================================================================
