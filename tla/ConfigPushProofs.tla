-------------------------- MODULE ConfigPushProofs --------------------------
(***************************************************************************)
(* Proofs about configuration distribution, for any number of streams,     *)
(* instances, agents, types and informer threads: the composition          *)
(* implements the registry, its state has its type, and no update is       *)
(* missed between a push and a connect.  The first part is about the       *)
(* connection registry alone, for any channel capacity.                    *)
(***************************************************************************)
EXTENDS ConfigPush, FiniteSetTheorems, TLAPS

(* The part of the inductive invariant that is about handlers and map.     *)
RegistryInv ==
    /\ RegistryTypeOK
    /\ RegisteredIsServing
    /\ ServingIsReachable

\* The empty registry satisfies the inductive invariant.
LEMMA RegistryInitInv == RegistryInit => RegistryInv
  BY RegistryAssumption DEF RegistryInit, RegistryInv, RegistryTypeOK, RegisteredIsServing,
     ServingIsReachable, HandlerStates, WriterStates

(* Send keeps the channel within its capacity. *)
LEMMA SendType ==
  ASSUME RegistryTypeOK, NEW s \in Streams, NEW m \in Msgs, Send(s, m)
  PROVE  /\ sendCh' \in [Streams -> Seq(Msgs)]
         /\ \A q \in Streams : Len(sendCh'[q]) <= SendChSize
         /\ closed' \in [Streams -> BOOLEAN]
<1>1. CASE Len(sendCh[s]) < SendChSize
  <2>1. /\ sendCh[s] \in Seq(Msgs)
        /\ Len(sendCh[s]) \in Nat
    BY DEF RegistryTypeOK
  <2>2. /\ Append(sendCh[s], m) \in Seq(Msgs)
        /\ Len(Append(sendCh[s], m)) = Len(sendCh[s]) + 1
    BY <2>1
  <2>3. Len(sendCh[s]) + 1 <= SendChSize
    BY <1>1, <2>1, RegistryAssumption
  <2>4. sendCh' = [sendCh EXCEPT ![s] = Append(sendCh[s], m)] /\ closed' = closed
    BY <1>1 DEF Send
  <2>5. QED
    BY <2>2, <2>3, <2>4 DEF RegistryTypeOK
<1>2. CASE ~(Len(sendCh[s]) < SendChSize)
  BY <1>2 DEF RegistryTypeOK, Send, Close
<1>3. QED
  BY <1>1, <1>2

(* The writer takes a message off a channel that holds one. *)
LEMMA TakeType ==
  ASSUME RegistryTypeOK, NEW s \in Streams, sendCh[s] # <<>>,
         sendCh' = [sendCh EXCEPT ![s] = Tail(@)]
  PROVE  /\ sendCh' \in [Streams -> Seq(Msgs)]
         /\ \A q \in Streams : Len(sendCh'[q]) <= SendChSize
<1>1. /\ Tail(sendCh[s]) \in Seq(Msgs)
      /\ Len(Tail(sendCh[s])) = Len(sendCh[s]) - 1
  BY DEF RegistryTypeOK
<1>2. Len(sendCh[s]) \in Nat /\ Len(sendCh[s]) <= SendChSize
  BY DEF RegistryTypeOK
<1>3. QED
  BY <1>1, <1>2, RegistryAssumption DEF RegistryTypeOK

(* An eviction either removes and closes the connection it found, or       *)
(* changes nothing in the registry.                                        *)
LEMMA EvictCases ==
  ASSUME RegistryTypeOK, NEW s \in Streams, EvictExisting(s)
  PROVE  \/ \E c \in Streams :
               /\ connections[InstanceOf[s]] = c
               /\ connections' = [connections EXCEPT ![InstanceOf[s]] = None]
               /\ gauge' = gauge - 1
               /\ closed' = [closed EXCEPT ![c] = TRUE]
               /\ evicted' = evicted \cup {c}
         \/ UNCHANGED <<connections, gauge, closed, evicted>>
<1> DEFINE c == existing[s]
<1>1. c \in Streams \cup {None}
  BY DEF RegistryTypeOK
<1>2. CASE c # None /\ connections[InstanceOf[s]] = c
  <2>1. c \in Streams
    BY <1>1, <1>2
  <2>2. QED
    BY <1>2, <2>1 DEF EvictExisting, UnregisterConnectionIfMatch, Close
<1>3. CASE ~(c # None /\ connections[InstanceOf[s]] = c)
  BY <1>3 DEF EvictExisting, UnregisterConnectionIfMatch
<1>4. QED
  BY <1>2, <1>3

\* Every registry step keeps the types and the channel bound.
LEMMA RegistryTypeStep ==
  ASSUME RegistryTypeOK, RegistryNext
  PROVE  RegistryTypeOK'
<1> USE RegistryAssumption DEF RegistryTypeOK, HandlerStates, WriterStates
<1>1. ASSUME NEW s \in Streams, RejectHandshake(s)
      PROVE  RegistryTypeOK'
  BY <1>1 DEF RejectHandshake
<1>2. ASSUME NEW s \in Streams, LookupExisting(s)
      PROVE  RegistryTypeOK'
  BY <1>2 DEF LookupExisting
<1>3. ASSUME NEW s \in Streams, EvictExisting(s)
      PROVE  RegistryTypeOK'
  <2>1. /\ pc' = [pc EXCEPT ![s] = "accepted"]
        /\ existing' = [existing EXCEPT ![s] = None]
        /\ UNCHANGED <<streamUp, writer, sendCh, leaked>>
    BY <1>3 DEF EvictExisting
  <2>2. /\ connections' \in [Instances -> Streams \cup {None}]
        /\ gauge' \in Int
        /\ closed' \in [Streams -> BOOLEAN]
        /\ evicted' \in SUBSET Streams
    <3>1. CASE UNCHANGED <<connections, gauge, closed, evicted>>
      BY <3>1
    <3>2. ASSUME NEW c \in Streams,
                 connections' = [connections EXCEPT ![InstanceOf[s]] = None],
                 gauge' = gauge - 1,
                 closed' = [closed EXCEPT ![c] = TRUE],
                 evicted' = evicted \cup {c}
          PROVE  /\ connections' \in [Instances -> Streams \cup {None}]
                 /\ gauge' \in Int
                 /\ closed' \in [Streams -> BOOLEAN]
                 /\ evicted' \in SUBSET Streams
      BY <3>2
    <3>3. QED
      BY <1>3, <3>1, <3>2, EvictCases
  <2>3. QED
    BY <2>1, <2>2
<1>4. ASSUME NEW s \in Streams, AckFails(s)
      PROVE  RegistryTypeOK'
  BY <1>4 DEF AckFails
<1>5. ASSUME NEW s \in Streams, RegisterConnection(s)
      PROVE  RegistryTypeOK'
  BY <1>5 DEF RegisterConnection
<1>6. ASSUME NEW s \in Streams, NEW m \in Msgs, SendOn(s, m)
      PROVE  RegistryTypeOK'
  <2>1. Send(s, m)
    BY <1>6 DEF SendOn
  <2>2. QED
    BY <1>6, <2>1, SendType DEF SendOn
<1>7. ASSUME NEW s \in Streams, WriterSend(s)
      PROVE  RegistryTypeOK'
  BY <1>7, TakeType DEF WriterSend
<1>8. ASSUME NEW s \in Streams, WriterFails(s)
      PROVE  RegistryTypeOK'
  BY <1>8, TakeType DEF WriterFails, Close
<1>9. ASSUME NEW s \in Streams, WriterExit(s)
      PROVE  RegistryTypeOK'
  BY <1>9 DEF WriterExit
<1>10. ASSUME NEW s \in Streams, StreamDown(s)
       PROVE  RegistryTypeOK'
  BY <1>10 DEF StreamDown
<1>11. ASSUME NEW s \in Streams, HandleDisconnect(s)
       PROVE  RegistryTypeOK'
  BY <1>11 DEF HandleDisconnect, UnregisterConnectionIfMatch, Close
<1>12. ASSUME Stop
       PROVE  RegistryTypeOK'
  BY <1>12 DEF Stop, Registry
<1>13. QED
  BY <1>1, <1>2, <1>3, <1>4, <1>5, <1>6, <1>7, <1>8, <1>9, <1>10, <1>11, <1>12
     DEF RegistryNext, StreamStep

(* Only a handler's own steps move its program counter, and the map always *)
(* points at serving handlers; a serving handler leaves the map through a  *)
(* later handshake, through Stop or as it returns.                         *)
LEMMA RegistryInvStep ==
  ASSUME RegistryInv, RegistryNext
  PROVE  RegistryInv'
<1> USE RegistryAssumption DEF RegistryInv, Registered
<1>0. RegistryTypeOK /\ RegistryTypeOK'
  BY RegistryTypeStep
<1>1. ASSUME NEW s \in Streams, RejectHandshake(s) \/ LookupExisting(s) \/ AckFails(s)
      PROVE  RegisteredIsServing' /\ ServingIsReachable'
  <2>1. /\ UNCHANGED <<connections, evicted, leaked>>
        /\ pc[s] # "serving"
        /\ \E l \in {"looked", "returned"} : pc' = [pc EXCEPT ![s] = l]
    BY <1>1 DEF RejectHandshake, LookupExisting, AckFails
  <2>2. QED
    BY <1>0, <2>1 DEF RegistryTypeOK, RegisteredIsServing, ServingIsReachable
<1>2. ASSUME NEW s \in Streams, EvictExisting(s)
      PROVE  RegisteredIsServing' /\ ServingIsReachable'
  <2>1. /\ pc[s] # "serving"
        /\ pc' = [pc EXCEPT ![s] = "accepted"]
        /\ leaked' = leaked
    BY <1>2 DEF EvictExisting
  <2>2. CASE UNCHANGED <<connections, gauge, closed, evicted>>
    BY <1>0, <2>1, <2>2 DEF RegistryTypeOK, RegisteredIsServing, ServingIsReachable
  <2>3. ASSUME NEW c \in Streams,
               connections[InstanceOf[s]] = c,
               connections' = [connections EXCEPT ![InstanceOf[s]] = None],
               evicted' = evicted \cup {c}
        PROVE  RegisteredIsServing' /\ ServingIsReachable'
    BY <1>0, <2>1, <2>3 DEF RegistryTypeOK, RegisteredIsServing, ServingIsReachable
  <2>4. QED
    BY <1>0, <1>2, <2>2, <2>3, EvictCases
<1>3. ASSUME NEW s \in Streams, RegisterConnection(s)
      PROVE  RegisteredIsServing' /\ ServingIsReachable'
  BY <1>0, <1>3 DEF RegisterConnection, RegistryTypeOK, RegisteredIsServing, ServingIsReachable
<1>4. ASSUME NEW s \in Streams, HandleDisconnect(s)
      PROVE  RegisteredIsServing' /\ ServingIsReachable'
  BY <1>0, <1>4 DEF HandleDisconnect, UnregisterConnectionIfMatch, RegistryTypeOK,
     RegisteredIsServing, ServingIsReachable
<1>5. ASSUME UNCHANGED <<pc, connections, evicted, leaked>>
      PROVE  RegisteredIsServing' /\ ServingIsReachable'
  BY <1>5 DEF RegisteredIsServing, ServingIsReachable
<1>6. ASSUME Stop
      PROVE  RegisteredIsServing' /\ ServingIsReachable'
  BY <1>0, <1>6 DEF Stop, Registry, RegistryTypeOK, RegisteredIsServing, ServingIsReachable
<1>7. QED
  <2>1. ASSUME NEW s \in Streams, NEW m \in Msgs, SendOn(s, m)
        PROVE  UNCHANGED <<pc, connections, evicted, leaked>>
    BY <2>1 DEF SendOn
  <2>2. ASSUME NEW s \in Streams,
               WriterSend(s) \/ WriterFails(s) \/ WriterExit(s) \/ StreamDown(s)
        PROVE  UNCHANGED <<pc, connections, evicted, leaked>>
    BY <2>2 DEF WriterSend, WriterFails, WriterExit, StreamDown
  <2>3. QED
    BY <1>0, <1>1, <1>2, <1>3, <1>4, <1>5, <1>6, <2>1, <2>2 DEF RegistryNext, StreamStep

-----------------------------------------------------------------------------
(* A cancelled context stays cancelled, and every eviction cancels one.    *)
LEMMA EvictedClosedStep ==
  ASSUME RegistryTypeOK, EvictedIsClosed, RegistryNext
  PROVE  EvictedIsClosed'
<1> USE RegistryAssumption DEF RegistryTypeOK
<1>1. ASSUME NEW s \in Streams, EvictExisting(s)
      PROVE  EvictedIsClosed'
  <2>1. ASSUME NEW c \in Streams,
               closed' = [closed EXCEPT ![c] = TRUE],
               evicted' = evicted \cup {c}
        PROVE  EvictedIsClosed'
    BY <2>1 DEF EvictedIsClosed
  <2>2. CASE UNCHANGED <<connections, gauge, closed, evicted>>
    BY <2>2 DEF EvictedIsClosed
  <2>3. QED
    BY <1>1, <2>1, <2>2, EvictCases
<1>2. ASSUME NEW s \in Streams, StreamStep(s), ~EvictExisting(s)
      PROVE  EvictedIsClosed'
  BY <1>2 DEF StreamStep, RejectHandshake, LookupExisting, AckFails, RegisterConnection,
     WriterSend, WriterFails, WriterExit, StreamDown, HandleDisconnect, Close, EvictedIsClosed
<1>3. ASSUME NEW s \in Streams, NEW m \in Msgs, SendOn(s, m)
      PROVE  EvictedIsClosed'
  BY <1>3 DEF SendOn, Send, Close, EvictedIsClosed
<1>4. ASSUME Stop
      PROVE  EvictedIsClosed'
  BY <1>4 DEF Stop, EvictedIsClosed
<1>5. QED
  BY <1>1, <1>2, <1>3, <1>4 DEF RegistryNext

-----------------------------------------------------------------------------
(* Connections dropped without a decrement were registered once and are no *)
(* longer: none of them is counted twice.                                  *)
LeakedIsGone ==
    \A s \in leaked : pc[s] \in {"serving", "returned"} /\ ~Registered(s)

GaugeInv == RegistryInv /\ LeakedIsGone /\ GaugeAccounting

\* The set of registered connections and the set of leaked ones are finite.
LEMMA Finiteness ==
  ASSUME RegistryTypeOK
  PROVE  /\ IsFiniteSet(Registry) /\ Cardinality(Registry) \in Nat
         /\ IsFiniteSet(leaked) /\ Cardinality(leaked) \in Nat
  BY RegistryAssumption, FS_Subset, FS_CardinalityType DEF RegistryTypeOK, Registry

\* A connection counted as leaked stays out of the registry.
LEMMA LeakedIsGoneStep ==
  ASSUME RegistryInv, LeakedIsGone, RegistryNext
  PROVE  LeakedIsGone'
<1> USE RegistryAssumption DEF RegistryInv, RegistryTypeOK, LeakedIsGone, Registered
<1>1. ASSUME NEW s \in Streams, EvictExisting(s)
      PROVE  LeakedIsGone'
  <2>1. /\ pc' = [pc EXCEPT ![s] = "accepted"]
        /\ pc[s] = "looked"
        /\ leaked' = leaked
    BY <1>1 DEF EvictExisting
  <2>2. \A i \in Instances : connections'[i] \in {connections[i], None}
    BY <1>1, EvictCases
  <2>3. QED
    BY <2>1, <2>2
<1>2. ASSUME NEW s \in Streams, RegisterConnection(s)
      PROVE  LeakedIsGone'
  BY <1>2 DEF RegisterConnection, RegisteredIsServing
<1>3. ASSUME NEW s \in Streams, HandleDisconnect(s)
      PROVE  LeakedIsGone'
  BY <1>3 DEF HandleDisconnect, UnregisterConnectionIfMatch
<1>4. ASSUME NEW s \in Streams,
             StreamStep(s), ~EvictExisting(s), ~RegisterConnection(s), ~HandleDisconnect(s)
      PROVE  LeakedIsGone'
  BY <1>4 DEF StreamStep, RejectHandshake, LookupExisting, AckFails,
     WriterSend, WriterFails, WriterExit, StreamDown
<1>5. ASSUME NEW s \in Streams, NEW m \in Msgs, SendOn(s, m)
      PROVE  LeakedIsGone'
  BY <1>5 DEF SendOn
<1>6. ASSUME Stop
      PROVE  LeakedIsGone'
  BY <1>6 DEF Stop, Registry, RegisteredIsServing
<1>7. QED
  BY <1>1, <1>2, <1>3, <1>4, <1>5, <1>6 DEF RegistryNext

(* Removing the entry of an instance takes one off the size of the map.    *)
LEMMA RegistryRemove ==
  ASSUME RegistryTypeOK, NEW i \in Instances, connections[i] # None,
         connections' = [connections EXCEPT ![i] = None]
  PROVE  Cardinality(Registry') = Cardinality(Registry) - 1
<1>1. Registry' = Registry \ {i} /\ i \in Registry
  BY DEF Registry, RegistryTypeOK
<1>2. QED
  BY <1>1, Finiteness, FS_RemoveElement

\* Every registry step changes the gauge by what it changes in the map and in the leaks.
LEMMA GaugeStep ==
  ASSUME GaugeInv, RegistryNext
  PROVE  GaugeAccounting'
<1> USE RegistryAssumption DEF GaugeInv, RegistryInv
<1>0. /\ RegistryTypeOK
      /\ Cardinality(Registry) \in Nat /\ Cardinality(leaked) \in Nat
      /\ IsFiniteSet(Registry) /\ IsFiniteSet(leaked)
      /\ gauge \in Int
  BY Finiteness DEF RegistryTypeOK
<1>1. ASSUME UNCHANGED <<connections, gauge, leaked>>
      PROVE  GaugeAccounting'
  BY <1>1 DEF GaugeAccounting, Registry
<1>2. ASSUME NEW i \in Instances, connections[i] # None,
             connections' = [connections EXCEPT ![i] = None],
             gauge' = gauge - 1,
             leaked' = leaked
      PROVE  GaugeAccounting'
  <2>1. Cardinality(Registry') = Cardinality(Registry) - 1
    BY <1>0, <1>2, RegistryRemove
  <2>2. QED
    BY <1>0, <1>2, <2>1 DEF GaugeAccounting
<1>3. ASSUME NEW s \in Streams, EvictExisting(s)
      PROVE  GaugeAccounting'
  <2>1. leaked' = leaked /\ InstanceOf[s] \in Instances
    BY <1>3 DEF EvictExisting
  <2>2. QED
    BY <1>0, <1>1, <1>2, <1>3, <2>1, EvictCases
<1>4. ASSUME NEW s \in Streams, HandleDisconnect(s)
      PROVE  GaugeAccounting'
  <2>1. leaked' = leaked /\ InstanceOf[s] \in Instances /\ s # None
    BY <1>4 DEF HandleDisconnect
  <2>2. CASE connections[InstanceOf[s]] = s
    BY <1>2, <1>4, <2>1, <2>2 DEF HandleDisconnect, UnregisterConnectionIfMatch
  <2>3. CASE connections[InstanceOf[s]] # s
    BY <1>1, <1>4, <2>1, <2>3 DEF HandleDisconnect, UnregisterConnectionIfMatch
  <2>4. QED
    BY <2>2, <2>3
<1>5. ASSUME NEW s \in Streams, RegisterConnection(s)
      PROVE  GaugeAccounting'
  <2> DEFINE i == InstanceOf[s]
  <2>1. /\ i \in Instances /\ s # None
        /\ connections' = [connections EXCEPT ![i] = s]
        /\ gauge' = gauge + 1
    BY <1>5 DEF RegisterConnection
  <2>2. Registry' = Registry \cup {i}
    BY <1>0, <2>1 DEF Registry, RegistryTypeOK
  <2>3. CASE connections[i] = None
    <3>1. i \notin Registry /\ leaked' = leaked
      BY <1>5, <2>3 DEF RegisterConnection, Registry
    <3>2. Cardinality(Registry') = Cardinality(Registry) + 1
      BY <1>0, <2>2, <3>1, FS_AddElement
    <3>3. QED
      BY <1>0, <2>1, <3>1, <3>2 DEF GaugeAccounting
  <2>4. CASE connections[i] # None
    <3> DEFINE old == connections[i]
    <3>1. i \in Registry /\ leaked' = leaked \cup {old}
      BY <1>5, <2>1, <2>4 DEF RegisterConnection, Registry
    <3>2. old \notin leaked
      BY <2>1, <2>4 DEF LeakedIsGone, Registered, RegisteredIsServing
    <3>3. Cardinality(leaked') = Cardinality(leaked) + 1
      BY <1>0, <3>1, <3>2, FS_AddElement
    <3>4. Registry' = Registry
      BY <2>2, <3>1
    <3>5. QED
      BY <1>0, <2>1, <3>3, <3>4 DEF GaugeAccounting
  <2>5. QED
    BY <2>3, <2>4
<1>6. ASSUME Stop
      PROVE  GaugeAccounting'
  <2> DEFINE current == {connections[i] : i \in Registry}
             f == [i \in Registry |-> connections[i]]
  <2>1. /\ Registry' = {}
        /\ leaked' = leaked \cup current
        /\ gauge' = gauge
    BY <1>6 DEF Stop, Registry
  <2>2. f \in Bijection(Registry, current)
    <3>1. f \in [Registry -> current]
      OBVIOUS
    <3>2. \A i, j \in Registry : f[i] = f[j] => i = j
      BY DEF Registry, RegisteredIsServing
    <3>3. \A c \in current : \E i \in Registry : f[i] = c
      OBVIOUS
    <3>4. QED
      BY <3>1, <3>2, <3>3 DEF Bijection, Injection, Surjection, IsInjective
  <2>3. IsFiniteSet(current) /\ Cardinality(current) = Cardinality(Registry)
    BY <1>0, <2>2, FS_Bijection DEF ExistsBijection
  <2>4. leaked \cap current = {}
    BY DEF LeakedIsGone, Registered, RegisteredIsServing, Registry
  <2>5. Cardinality(leaked') = Cardinality(leaked) + Cardinality(current)
    <3> HIDE DEF current
    <3>1. Cardinality(current) \in Nat /\ Cardinality(leaked \cap current) = 0
      BY <1>0, <2>3, <2>4, FS_EmptySet
    <3>2. Cardinality(leaked \cup current)
            = Cardinality(leaked) + Cardinality(current) - Cardinality(leaked \cap current)
      BY <1>0, <2>3, FS_Union
    <3>3. QED
      BY <1>0, <2>1, <3>1, <3>2
  <2>6. Cardinality(Registry') = 0
    BY <2>1, FS_EmptySet
  <2>7. QED
    BY <1>0, <2>1, <2>3, <2>5, <2>6 DEF GaugeAccounting
<1>7. ASSUME NEW s \in Streams,
             StreamStep(s), ~EvictExisting(s), ~RegisterConnection(s), ~HandleDisconnect(s)
      PROVE  UNCHANGED <<connections, gauge, leaked>>
  BY <1>7 DEF StreamStep, RejectHandshake, LookupExisting, AckFails,
     WriterSend, WriterFails, WriterExit, StreamDown
<1>8. ASSUME NEW s \in Streams, NEW m \in Msgs, SendOn(s, m)
      PROVE  UNCHANGED <<connections, gauge, leaked>>
  BY <1>8 DEF SendOn
<1>9. QED
  BY <1>1, <1>3, <1>4, <1>5, <1>6, <1>7, <1>8 DEF RegistryNext
-----------------------------------------------------------------------------
(* The registry's state always has its type, and no send channel ever      *)
(* holds more than sendChSize messages.                                    *)
THEOREM RegistryTypeCorrect == RegistrySpec => []RegistryTypeOK
<1>1. RegistryInit => RegistryTypeOK
  BY RegistryInitInv DEF RegistryInv
<1>2. RegistryTypeOK /\ [RegistryNext]_registryVars => RegistryTypeOK'
  BY RegistryTypeStep DEF RegistryTypeOK, registryVars
<1>3. QED
  BY <1>1, <1>2, PTL DEF RegistrySpec

(* A registered connection is served by a live handler, and a serving      *)
(* handler is registered unless a later handshake or Stop removed it.      *)
THEOREM RegistryConsistent == RegistrySpec => [](RegisteredIsServing /\ ServingIsReachable)
<1>1. RegistryInv /\ [RegistryNext]_registryVars => RegistryInv'
  <2>1. ASSUME RegistryInv, UNCHANGED registryVars
        PROVE  RegistryInv'
    BY <2>1 DEF RegistryInv, RegistryTypeOK, RegisteredIsServing, ServingIsReachable,
       Registered, registryVars
  <2>2. QED
    BY <2>1, RegistryInvStep
<1>2. RegistryInv => RegisteredIsServing /\ ServingIsReachable
  BY DEF RegistryInv
<1>3. QED
  BY <1>1, <1>2, RegistryInitInv, PTL DEF RegistrySpec

(* Every connection a handshake evicted is cancelled.                      *)
THEOREM EvictedConnectionsAreClosed == RegistrySpec => []EvictedIsClosed
<1>1. RegistryInit => EvictedIsClosed
  BY DEF RegistryInit, EvictedIsClosed
<1>2. RegistryTypeOK /\ EvictedIsClosed /\ [RegistryNext]_registryVars => EvictedIsClosed'
  BY EvictedClosedStep DEF EvictedIsClosed, registryVars
<1>3. QED
  BY <1>1, <1>2, RegistryTypeCorrect, PTL DEF RegistrySpec

(* The active-connections gauge never drifts from the map except by the    *)
(* connections that were overwritten or present at Stop.                   *)
THEOREM GaugeIsAccountedFor == RegistrySpec => []GaugeAccounting
<1>1. RegistryInit => GaugeInv
  <2>1. ASSUME RegistryInit
        PROVE  Registry = {} /\ leaked = {} /\ gauge = 0
    BY <2>1 DEF RegistryInit, Registry
  <2>2. QED
    BY <2>1, RegistryInitInv, FS_EmptySet DEF GaugeInv, LeakedIsGone, GaugeAccounting
<1>2. GaugeInv /\ [RegistryNext]_registryVars => GaugeInv'
  <2>1. ASSUME GaugeInv, RegistryNext
        PROVE  GaugeInv'
    BY <2>1, RegistryInvStep, LeakedIsGoneStep, GaugeStep DEF GaugeInv
  <2>2. ASSUME GaugeInv, UNCHANGED registryVars
        PROVE  GaugeInv'
    BY <2>2 DEF GaugeInv, RegistryInv, RegistryTypeOK, RegisteredIsServing, ServingIsReachable,
       LeakedIsGone, GaugeAccounting, Registry, Registered, registryVars
  <2>3. QED
    BY <2>1, <2>2
<1>3. GaugeInv => GaugeAccounting
  BY DEF GaugeInv
<1>4. QED
  BY <1>1, <1>2, <1>3, PTL DEF RegistrySpec

-----------------------------------------------------------------------------
(* The composition.                                                        *)

(* Calls in progress hold real configs and real connections, and a stored  *)
(* snapshot carries its own key.                                           *)
PushWF ==
    /\ \A p \in Pushers : push[p].pc # "idle" => push[p].cfg \in Config
    /\ \A s \in Streams : sync[s].pc = "sending" => sync[s].target \in Streams
    /\ \A a \in Agents, t \in Types :
        snapshots[a][t] # None => snapshots[a][t].agent = a /\ snapshots[a][t].type = t

(* A full sync reaches its own connection as long as that is registered.   *)
SyncReachesOwn ==
    \A s \in Streams :
        sync[s].pc = "sending" /\ Registered(s) => sync[s].target = s

(* The reason no update is missed: a current snapshot that a healthy       *)
(* connection has not accepted is still held for it, by its handler's full *)
(* sync or by the push call that stored it.                                *)
HeldForSync(s, c) ==
    \/ sync[s].pc = "read"
    \/ sync[s].pc \in {"lookup", "sending"} /\ c \in sync[s].snaps

HeldByPush(s, c) ==
    \E p \in Pushers :
        /\ push[p].cfg = c
        /\ \/ push[p].pc = "stored"
           \/ push[p].pc = "sending" /\ s \in push[p].targets

UpdateAccounted ==
    \A s \in Streams :
        Healthy(s) => \A c \in Snapshots(AgentOf[s]) :
            c.type \in got[s] \/ HeldForSync(s, c) \/ HeldByPush(s, c)

ShapeInv == TypeOK /\ PushWF
PushInv == ShapeInv /\ SyncReachesOwn /\ UpdateAccounted

-----------------------------------------------------------------------------
(* The composition implements the registry.                                *)

(* Every step of the composition is a step of the registry or leaves it.   *)
LEMMA StepIsRegistryStep ==
  ASSUME ShapeInv, Next
  PROVE  RegistryNext \/ UNCHANGED registryVars
<1> USE RegistryAssumption, PushAssumption DEF ShapeInv, TypeOK, PushTypeOK, PushWF
<1>1. ASSUME NEW p \in Pushers, NEW s \in Streams, PushSend(p, s)
      PROVE  RegistryNext
  <2>1. push[p].cfg \in Msgs
    BY <1>1 DEF PushSend
  <2>2. SendOn(s, push[p].cfg)
    BY <1>1 DEF PushSend
  <2>3. QED
    BY <2>1, <2>2 DEF RegistryNext
<1>2. ASSUME NEW s \in Streams, NEW c \in sync[s].snaps, SyncSend(s, c)
      PROVE  RegistryNext
  <2>1. c \in Msgs /\ sync[s].target \in Streams
    BY <1>2 DEF SyncSend
  <2>2. SendOn(sync[s].target, c)
    BY <1>2 DEF SyncSend
  <2>3. QED
    BY <2>1, <2>2 DEF RegistryNext
<1>3. ASSUME NEW s \in Streams, SendOther(s)
      PROVE  RegistryNext
  BY <1>3 DEF SendOther, RegistryNext
<1>4. ASSUME NEW s \in Streams,
             Handshake(s) \/ Register(s) \/ Transmit(s) \/ WriterEnds(s)
                \/ StreamLost(s) \/ Disconnect(s)
      PROVE  RegistryNext
  BY <1>4 DEF Handshake, Register, Transmit, WriterEnds, StreamLost, Disconnect,
     RegistryNext, StreamStep
<1>5. ASSUME StopServer
      PROVE  RegistryNext
  BY <1>5 DEF StopServer, RegistryNext
<1>6. ASSUME NEW p \in Pushers, NEW a \in Agents, NEW t \in Types, NEW x \in Contents,
             PushUpdate(p, a, t, x) \/ PushCollect(p) \/ ForgetAgent(a)
      PROVE  UNCHANGED registryVars
  BY <1>6 DEF PushUpdate, PushCollect, ForgetAgent
<1>7. ASSUME NEW s \in Streams, SyncRead(s) \/ SyncLookup(s)
      PROVE  UNCHANGED registryVars
  BY <1>7 DEF SyncRead, SyncLookup
<1>8. ASSUME NEW p \in Pushers, PushCollect(p)
      PROVE  UNCHANGED registryVars
  BY <1>8 DEF PushCollect
<1>9. ASSUME NEW a \in Agents, ForgetAgent(a)
      PROVE  UNCHANGED registryVars
  BY <1>9 DEF ForgetAgent
<1>10. QED
  BY <1>1, <1>2, <1>3, <1>4, <1>5, <1>6, <1>7, <1>8, <1>9 DEF Next

-----------------------------------------------------------------------------
(* Shape of the distributor's state.                                       *)

PushRecord == [pc : {"idle", "stored", "sending"},
               cfg : Config \cup {None},
               targets : SUBSET Streams]

SyncRecord == [pc : {"none", "read", "lookup", "sending", "done"},
               snaps : SUBSET Config,
               target : Streams \cup {None}]

\* The initial state has the shape invariant.
LEMMA ShapeInit == Init => ShapeInv
<1>1. Init => RegistryTypeOK
  BY RegistryInitInv DEF Init, RegistryInv
<1>2. Init => PushTypeOK /\ PushWF
  BY PushAssumption DEF Init, PushInit, PushTypeOK, PushWF, IdlePush, SyncAt, SyncWith
<1>3. QED
  BY <1>1, <1>2 DEF ShapeInv, TypeOK

(* Replacing one call's record by a well-formed one keeps the shape.       *)
LEMMA PushRecordStep ==
  ASSUME PushTypeOK, PushWF, NEW p \in Pushers, NEW r \in PushRecord,
         push' = [push EXCEPT ![p] = r],
         r.pc # "idle" => r.cfg \in Config,
         UNCHANGED <<snapshots, versions, sync, applied>>,
         got' \in [Streams -> SUBSET Types]
  PROVE  (PushTypeOK /\ PushWF)'
BY DEF PushTypeOK, PushWF, PushRecord

\* Setting one stream's full-sync record to a well-typed value keeps the function well typed.
LEMMA SyncRecordStep ==
  ASSUME PushTypeOK, PushWF, NEW s \in Streams, NEW r \in SyncRecord,
         sync' = [sync EXCEPT ![s] = r],
         r.pc = "sending" => r.target \in Streams,
         UNCHANGED <<snapshots, versions, push, applied>>,
         got' \in [Streams -> SUBSET Types]
  PROVE  (PushTypeOK /\ PushWF)'
BY DEF PushTypeOK, PushWF, SyncRecord

(* The state of the calls keeps its shape over every step.                 *)
LEMMA ShapeStep ==
  ASSUME ShapeInv, Next
  PROVE  ShapeInv'
<1> USE RegistryAssumption, PushAssumption
<1>0. RegistryTypeOK'
  <2>1. CASE RegistryNext
    BY <2>1, RegistryTypeStep DEF ShapeInv, TypeOK
  <2>2. CASE UNCHANGED registryVars
    BY <2>2 DEF ShapeInv, TypeOK, RegistryTypeOK, registryVars
  <2>3. QED
    BY <2>1, <2>2, StepIsRegistryStep
<1> USE DEF ShapeInv, TypeOK, PushTypeOK, PushWF
<1>1. ASSUME NEW p \in Pushers, NEW a \in Agents, NEW t \in Types, NEW x \in Contents,
             PushUpdate(p, a, t, x)
      PROVE  (PushTypeOK /\ PushWF)'
  <2> DEFINE v == versions[a][t] + 1
             c == [agent |-> a, type |-> t, version |-> v, content |-> x]
  <2>1. v \in 1..MaxVersion
    BY <1>1 DEF PushUpdate
  <2>2. c \in Config
    BY <2>1 DEF Config
  <2>3. /\ versions' = [versions EXCEPT ![a][t] = v]
        /\ snapshots' = [snapshots EXCEPT ![a][t] = c]
        /\ push' = [push EXCEPT ![p] = [pc |-> "stored", cfg |-> c, targets |-> {}]]
        /\ got' = [s \in Streams |-> IF AgentOf[s] = a THEN got[s] \ {t} ELSE got[s]]
        /\ UNCHANGED <<sync, applied>>
    BY <1>1 DEF PushUpdate
  <2> HIDE DEF c, v
  <2>4. c.agent = a /\ c.type = t
    BY DEF c
  <2>5. PushTypeOK'
    BY <2>1, <2>2, <2>3
  <2>6. QED
    BY <2>2, <2>3, <2>4, <2>5
<1>2. ASSUME NEW p \in Pushers, PushCollect(p)
      PROVE  (PushTypeOK /\ PushWF)'
  <2> DEFINE conns == {s \in Streams : Registered(s) /\ AgentOf[s] = push[p].cfg.agent}
  <2>1. PICK r \in PushRecord : push' = [push EXCEPT ![p] = r] /\ (r.pc # "idle" => r.cfg \in Config)
    <3>1. CASE conns = {}
      <4>1. push' = [push EXCEPT ![p] = IdlePush]
        BY <1>2, <3>1 DEF PushCollect
      <4>2. IdlePush \in PushRecord /\ IdlePush.pc = "idle"
        BY DEF IdlePush, PushRecord
      <4>3. QED
        BY <4>1, <4>2
    <3>2. CASE conns # {}
      <4> DEFINE r == PushTo(push[p].cfg, conns)
      <4>1. push' = [push EXCEPT ![p] = r]
        BY <1>2, <3>2 DEF PushCollect
      <4>2. r \in PushRecord /\ r.cfg = push[p].cfg
        BY DEF PushRecord, PushTo
      <4>3. r.cfg \in Config
        BY <1>2, <4>2 DEF PushCollect
      <4>4. QED
        BY <4>1, <4>2, <4>3
    <3>3. QED
      BY <3>1, <3>2
  <2>2. UNCHANGED <<snapshots, versions, sync, got, applied>>
    BY <1>2 DEF PushCollect
  <2>3. QED
    BY <2>1, <2>2, PushRecordStep
<1>3. ASSUME NEW p \in Pushers, NEW s \in Streams, PushSend(p, s)
      PROVE  (PushTypeOK /\ PushWF)'
  <2>1. got' \in [Streams -> SUBSET Types]
    BY <1>3 DEF PushSend, Accept, Config
  <2> DEFINE rest == push[p].targets \ {s}
  <2>2. PICK r \in PushRecord : push' = [push EXCEPT ![p] = r] /\ (r.pc # "idle" => r.cfg \in Config)
    <3>1. CASE rest = {}
      <4>1. push' = [push EXCEPT ![p] = IdlePush]
        BY <1>3, <3>1 DEF PushSend
      <4>2. IdlePush \in PushRecord /\ IdlePush.pc = "idle"
        BY DEF IdlePush, PushRecord
      <4>3. QED
        BY <4>1, <4>2
    <3>2. CASE rest # {}
      <4> DEFINE r == PushTo(push[p].cfg, rest)
      <4>1. push' = [push EXCEPT ![p] = r]
        BY <1>3, <3>2 DEF PushSend
      <4>2. r \in PushRecord /\ r.cfg = push[p].cfg
        BY DEF PushRecord, PushTo
      <4>3. r.cfg \in Config
        BY <1>3, <4>2 DEF PushSend
      <4>4. QED
        BY <4>1, <4>2, <4>3
    <3>3. QED
      BY <3>1, <3>2
  <2>3. UNCHANGED <<snapshots, versions, sync, applied>>
    BY <1>3 DEF PushSend
  <2>4. QED
    BY <2>1, <2>2, <2>3, PushRecordStep
<1>4. ASSUME NEW a \in Agents, ForgetAgent(a)
      PROVE  (PushTypeOK /\ PushWF)'
  BY <1>4 DEF ForgetAgent, DeleteAgent
<1>5. ASSUME NEW s \in Streams, Register(s)
      PROVE  (PushTypeOK /\ PushWF)'
  BY <1>5 DEF Register, SyncAt, SyncWith
<1>6. ASSUME NEW s \in Streams, SyncRead(s)
      PROVE  (PushTypeOK /\ PushWF)'
  <2>1. Snapshots(AgentOf[s]) \in SUBSET Config
    BY DEF Snapshots
  <2> DEFINE snaps == Snapshots(AgentOf[s])
             r == SyncWith("lookup", snaps, None)
  <2>2. CASE snaps = {}
    BY <1>6, <2>2 DEF SyncRead, SyncAt, SyncWith
  <2>3. CASE snaps # {}
    <3>1. sync' = [sync EXCEPT ![s] = r] /\ UNCHANGED <<snapshots, versions, push, got, applied>>
      BY <1>6, <2>3 DEF SyncRead
    <3>2. r \in SyncRecord /\ r.pc = "lookup"
      BY <2>1 DEF SyncRecord, SyncWith
    <3>3. QED
      BY <3>1, <3>2, SyncRecordStep
  <2>4. QED
    BY <2>2, <2>3
<1>7. ASSUME NEW s \in Streams, SyncLookup(s)
      PROVE  (PushTypeOK /\ PushWF)'
  <2> DEFINE c == connections[InstanceOf[s]]
             r == SyncWith("sending", sync[s].snaps, c)
  <2>1. c \in Streams \cup {None}
    BY DEF RegistryTypeOK
  <2>2. CASE c = None
    BY <1>7, <2>2 DEF SyncLookup, SyncAt, SyncWith
  <2>3. CASE c # None
    <3>1. sync' = [sync EXCEPT ![s] = r] /\ UNCHANGED <<snapshots, versions, push, got, applied>>
      BY <1>7, <2>3 DEF SyncLookup
    <3>2. r \in SyncRecord /\ r.target \in Streams
      BY <2>1, <2>3 DEF SyncRecord, SyncWith
    <3>3. QED
      BY <3>1, <3>2, SyncRecordStep
  <2>4. QED
    BY <2>2, <2>3
<1>8. ASSUME NEW s \in Streams, NEW c \in sync[s].snaps, SyncSend(s, c)
      PROVE  (PushTypeOK /\ PushWF)'
  <2>1. got' \in [Streams -> SUBSET Types]
    BY <1>8 DEF SyncSend, Accept, Config
  <2> DEFINE rest == sync[s].snaps \ {c}
             r == SyncWith("sending", rest, sync[s].target)
  <2>2. CASE rest = {}
    BY <1>8, <2>1, <2>2 DEF SyncSend, SyncAt, SyncWith
  <2>3. CASE rest # {}
    <3>1. sync' = [sync EXCEPT ![s] = r] /\ UNCHANGED <<snapshots, versions, push, applied>>
      BY <1>8, <2>3 DEF SyncSend
    <3>2. r \in SyncRecord /\ r.target \in Streams
      BY <1>8 DEF SyncRecord, SyncSend, SyncWith
    <3>3. QED
      BY <2>1, <3>1, <3>2, SyncRecordStep
  <2>4. QED
    BY <2>2, <2>3
<1>9. ASSUME NEW s \in Streams, Transmit(s)
      PROVE  (PushTypeOK /\ PushWF)'
  <2>1. Head(sendCh[s]) \in Msgs
    BY <1>9 DEF Transmit, WriterSend, RegistryTypeOK
  <2>2. applied' \in [Streams -> [Types -> Config \cup {None}]]
    BY <1>9, <2>1 DEF Transmit, Config
  <2>3. QED
    BY <1>9, <2>2 DEF Transmit
<1>10. ASSUME NEW s \in Streams,
              Handshake(s) \/ SendOther(s) \/ WriterEnds(s) \/ Disconnect(s) \/ StopServer
       PROVE  (PushTypeOK /\ PushWF)'
  BY <1>10 DEF Handshake, SendOther, WriterEnds, Disconnect, StopServer, pushVars
<1>11. ASSUME NEW s \in Streams, StreamLost(s)
       PROVE  (PushTypeOK /\ PushWF)'
  BY <1>11 DEF StreamLost
<1>12. ASSUME StopServer
       PROVE  (PushTypeOK /\ PushWF)'
  BY <1>12 DEF StopServer, pushVars
<1>13. QED
  BY <1>0, <1>1, <1>2, <1>3, <1>4, <1>5, <1>6, <1>7, <1>8, <1>9, <1>10, <1>11, <1>12 DEF Next

-----------------------------------------------------------------------------
(* No update is missed.                                                    *)

(* A snapshot in the store is a config of its agent, under its own type.   *)
LEMMA SnapshotKeyed ==
  ASSUME ShapeInv, NEW a \in Agents, NEW c \in Snapshots(a)
  PROVE  /\ c \in Config
         /\ c.agent = a
         /\ c.type \in Types
         /\ snapshots[a][c.type] = c
<1>1. PICK t \in Types : c = snapshots[a][t] /\ c # None
  BY DEF Snapshots
<1>2. QED
  BY <1>1 DEF ShapeInv, TypeOK, PushTypeOK, PushWF

(* Only its own registration makes a connection registered or healthy.     *)
LEMMA OnlyRegisterRegisters ==
  ASSUME RegistryTypeOK, RegistryNext \/ UNCHANGED registryVars,
         NEW s \in Streams, ~RegisterConnection(s)
  PROVE  (Registered(s)' => Registered(s)) /\ (Healthy(s)' => Healthy(s))
<1> USE RegistryAssumption DEF Registered, Healthy, RegistryTypeOK
<1>1. CASE UNCHANGED registryVars
  BY <1>1 DEF registryVars
<1>2. ASSUME NEW s0 \in Streams, RegisterConnection(s0)
      PROVE  (Registered(s)' => Registered(s)) /\ (Healthy(s)' => Healthy(s))
  <2>1. s0 # s
    BY <1>2
  <2>2. QED
    BY <1>2, <2>1 DEF RegisterConnection
<1>3. ASSUME NEW s0 \in Streams, EvictExisting(s0)
      PROVE  (Registered(s)' => Registered(s)) /\ (Healthy(s)' => Healthy(s))
  <2>1. CASE UNCHANGED <<connections, closed>>
    BY <2>1
  <2>2. ASSUME NEW c \in Streams,
               connections' = [connections EXCEPT ![InstanceOf[s0]] = None],
               closed' = [closed EXCEPT ![c] = TRUE]
        PROVE  (Registered(s)' => Registered(s)) /\ (Healthy(s)' => Healthy(s))
    BY <2>2
  <2>3. QED
    BY <1>3, <2>1, <2>2, EvictCases
<1>4. ASSUME NEW s0 \in Streams, HandleDisconnect(s0)
      PROVE  (Registered(s)' => Registered(s)) /\ (Healthy(s)' => Healthy(s))
  BY <1>4 DEF HandleDisconnect, UnregisterConnectionIfMatch, Close
<1>5. ASSUME NEW s0 \in Streams, NEW m \in Msgs, SendOn(s0, m)
      PROVE  (Registered(s)' => Registered(s)) /\ (Healthy(s)' => Healthy(s))
  BY <1>5 DEF SendOn, Send, Close
<1>6. ASSUME NEW s0 \in Streams,
             \/ RejectHandshake(s0) \/ LookupExisting(s0) \/ AckFails(s0)
             \/ WriterSend(s0) \/ WriterFails(s0) \/ WriterExit(s0) \/ StreamDown(s0)
      PROVE  (Registered(s)' => Registered(s)) /\ (Healthy(s)' => Healthy(s))
  BY <1>6 DEF RejectHandshake, LookupExisting, AckFails, WriterSend, WriterFails, WriterExit,
     StreamDown, Close
<1>7. CASE Stop
  BY <1>7 DEF Stop
<1>8. QED
  BY <1>1, <1>2, <1>3, <1>4, <1>5, <1>6, <1>7 DEF RegistryNext, StreamStep

(* A registration is told from the other handler steps by where it goes.   *)
LEMMA HandshakeIsNoRegister ==
  ASSUME ShapeInv, NEW s \in Streams, NEW r \in Streams, Handshake(s) \/ Disconnect(s)
  PROVE  ~RegisterConnection(r)
<1>1. pc'[s] \in {"returned", "looked", "accepted"} /\ \A q \in Streams \ {s} : pc'[q] = pc[q]
  BY DEF Handshake, Disconnect, RejectHandshake, LookupExisting, EvictExisting, AckFails,
     HandleDisconnect, ShapeInv, TypeOK, RegistryTypeOK
<1>2. QED
  BY <1>1 DEF RegisterConnection, ShapeInv, TypeOK, RegistryTypeOK

(* What Send and Accept do to a connection that is still healthy after.    *)
LEMMA AcceptedWhenHealthy ==
  ASSUME ShapeInv, NEW s \in Streams, NEW c \in Snapshots(AgentOf[s]),
         SendOn(s, c), Accept(s, c), Healthy(s)'
  PROVE  c.type \in got'[s]
<1>1. Len(sendCh[s]) < SendChSize
  BY DEF SendOn, Send, Close, Healthy, ShapeInv, TypeOK, RegistryTypeOK
<1>2. snapshots[AgentOf[s]][c.type] = c
  BY SnapshotKeyed, PushAssumption
<1>3. QED
  BY <1>1, <1>2 DEF Accept, ShapeInv, TypeOK, PushTypeOK

\* What a connection has accepted only grows, whether its channel takes the message or overflows.
LEMMA AcceptGrows ==
  ASSUME ShapeInv, NEW s \in Streams, NEW c, Accept(s, c), NEW r \in Streams
  PROVE  got[r] \subseteq got'[r]
BY DEF Accept, ShapeInv, TypeOK, PushTypeOK

(* A full sync in progress keeps reaching its own connection.              *)
LEMMA SyncReachesOwnStep ==
  ASSUME ShapeInv, SyncReachesOwn, Next
  PROVE  SyncReachesOwn'
<1> SUFFICES ASSUME NEW r \in Streams, sync'[r].pc = "sending", Registered(r)'
             PROVE  sync'[r].target = r
  BY DEF SyncReachesOwn
<1> USE DEF ShapeInv, TypeOK, PushTypeOK
<1>1. ASSUME sync'[r] = sync[r], Registered(r)
      PROVE  sync'[r].target = r
  BY <1>1 DEF SyncReachesOwn
<1>2. ASSUME NEW s \in Streams, Register(s)
      PROVE  sync'[r].target = r
  <2>1. r # s
    BY <1>2 DEF Register, SyncAt, SyncWith
  <2>2. ~RegisterConnection(r)
    BY <1>2, <2>1 DEF Register, RegisterConnection, RegistryTypeOK
  <2>3. Registered(r)
    BY <2>2, OnlyRegisterRegisters, StepIsRegistryStep
  <2>4. sync'[r] = sync[r]
    BY <1>2, <2>1 DEF Register
  <2>5. QED
    BY <1>1, <2>3, <2>4
<1>3. ASSUME UNCHANGED pc
      PROVE  Registered(r)
  <2>1. ~RegisterConnection(r)
    BY <1>3 DEF RegisterConnection, RegistryTypeOK
  <2>2. QED
    BY <2>1, OnlyRegisterRegisters, StepIsRegistryStep
<1>4. ASSUME NEW s \in Streams, SyncRead(s)
      PROVE  sync'[r].target = r
  <2>1. r # s
    BY <1>4 DEF SyncRead, SyncAt, SyncWith
  <2>2. sync'[r] = sync[r] /\ UNCHANGED pc
    BY <1>4, <2>1 DEF SyncRead, registryVars
  <2>3. QED
    BY <1>1, <1>3, <2>2
<1>5. ASSUME NEW s \in Streams, SyncLookup(s)
      PROVE  sync'[r].target = r
  <2>1. UNCHANGED pc /\ Registered(r)
    BY <1>3, <1>5 DEF SyncLookup, registryVars
  <2>2. CASE r = s
    <3>1. connections[InstanceOf[s]] = s
      BY <2>1, <2>2 DEF Registered
    <3>2. s # None
      BY RegistryAssumption
    <3>3. sync'[s] = SyncWith("sending", sync[s].snaps, s)
      BY <1>5, <3>1, <3>2 DEF SyncLookup
    <3>4. QED
      BY <2>2, <3>3 DEF SyncWith
  <2>3. CASE r # s
    <3>1. sync'[r] = sync[r]
      BY <1>5, <2>3 DEF SyncLookup
    <3>2. QED
      BY <1>1, <2>1, <3>1
  <2>4. QED
    BY <2>2, <2>3
<1>6. ASSUME NEW s \in Streams, NEW c \in sync[s].snaps, SyncSend(s, c)
      PROVE  sync'[r].target = r
  <2>1. UNCHANGED pc /\ Registered(r)
    BY <1>3, <1>6 DEF SyncSend, SendOn
  <2>2. CASE r = s
    <3>1. sync[r].target = r
      BY <1>6, <2>1, <2>2 DEF SyncReachesOwn, SyncSend
    <3>2. \/ sync'[s] = SyncAt("done")
          \/ sync'[s] = SyncWith("sending", sync[s].snaps \ {c}, sync[s].target)
      BY <1>6 DEF SyncSend
    <3>3. QED
      BY <2>2, <3>1, <3>2 DEF SyncAt, SyncWith
  <2>3. CASE r # s
    <3>1. sync'[r] = sync[r]
      BY <1>6, <2>3 DEF SyncSend
    <3>2. QED
      BY <1>1, <2>1, <3>1
  <2>4. QED
    BY <2>2, <2>3
<1>7. ASSUME UNCHANGED sync, ~RegisterConnection(r)
      PROVE  sync'[r].target = r
  BY <1>1, <1>7, OnlyRegisterRegisters, StepIsRegistryStep
<1>8. CASE UNCHANGED <<registryVars, sync>>
  BY <1>1, <1>3, <1>8 DEF registryVars
<1>9. ASSUME NEW p \in Pushers, NEW s \in Streams, PushSend(p, s)
      PROVE  sync'[r].target = r
  <2>1. UNCHANGED <<pc, sync>>
    BY <1>9 DEF PushSend, SendOn
  <2>2. QED
    BY <1>1, <1>3, <2>1
<1>10. ASSUME NEW s \in Streams, Transmit(s) \/ SendOther(s) \/ WriterEnds(s) \/ StreamLost(s)
       PROVE  sync'[r].target = r
  <2>1. UNCHANGED <<pc, sync>>
    BY <1>10 DEF Transmit, SendOther, WriterEnds, StreamLost, WriterSend, SendOn, WriterFails,
       WriterExit, StreamDown, pushVars
  <2>2. QED
    BY <1>1, <1>3, <2>1
<1>11. ASSUME NEW s \in Streams, Handshake(s) \/ Disconnect(s)
       PROVE  sync'[r].target = r
  <2>1. UNCHANGED sync
    BY <1>11 DEF Handshake, Disconnect, pushVars
  <2>2. ~RegisterConnection(r)
    BY <1>11, HandshakeIsNoRegister
  <2>3. QED
    BY <1>7, <2>1, <2>2
<1>12. CASE StopServer
  <2>1. UNCHANGED <<pc, sync>>
    BY <1>12 DEF StopServer, Stop, pushVars
  <2>2. QED
    BY <1>1, <1>3, <2>1
<1>13. ASSUME NEW p \in Pushers, NEW a \in Agents, NEW t \in Types, NEW x \in Contents,
              PushUpdate(p, a, t, x)
       PROVE  sync'[r].target = r
  BY <1>8, <1>13 DEF PushUpdate
<1>14. ASSUME NEW p \in Pushers, PushCollect(p)
       PROVE  sync'[r].target = r
  BY <1>8, <1>14 DEF PushCollect
<1>15. ASSUME NEW a \in Agents, ForgetAgent(a)
       PROVE  sync'[r].target = r
  BY <1>8, <1>15 DEF ForgetAgent
<1>16. QED
  BY <1>2, <1>4, <1>5, <1>6, <1>9, <1>10, <1>11, <1>12, <1>13, <1>14, <1>15 DEF Next

(* The accounting of one healthy connection and one current snapshot. *)
Accounted(s, c) == c.type \in got[s] \/ HeldForSync(s, c) \/ HeldByPush(s, c)

(* A current snapshot stays accounted for over every step that changes     *)
(* neither the store nor the registrations.                                *)
LEMMA AccountedUnchanged ==
  ASSUME UNCHANGED <<push, sync, got>>, NEW s, NEW c, Accounted(s, c)
  PROVE  Accounted(s, c)'
BY DEF Accounted, HeldForSync, HeldByPush

(* UpdateSnapshot: the new snapshot is held by the call that stored it.    *)
LEMMA AccountedUpdate ==
  ASSUME PushInv, ShapeInv', NEW p \in Pushers, NEW a \in Agents, NEW t \in Types,
         NEW x \in Contents, PushUpdate(p, a, t, x),
         NEW s \in Streams, Healthy(s), NEW c \in Snapshots(AgentOf[s])'
  PROVE  Accounted(s, c)'
<1> USE PushAssumption DEF PushInv, ShapeInv, TypeOK, PushTypeOK
<1> DEFINE b == AgentOf[s]
           v == versions[a][t] + 1
           c0 == [agent |-> a, type |-> t, version |-> v, content |-> x]
<1>1. PICK u \in Types : c = snapshots'[b][u] /\ c # None
  BY DEF Snapshots
<1>2. /\ snapshots' = [snapshots EXCEPT ![a][t] = c0]
      /\ push[p].pc = "idle"
      /\ push' = [push EXCEPT ![p] = [pc |-> "stored", cfg |-> c0, targets |-> {}]]
      /\ got' = [r \in Streams |-> IF AgentOf[r] = a THEN got[r] \ {t} ELSE got[r]]
      /\ UNCHANGED sync
  BY DEF PushUpdate
<1> HIDE DEF c0
<1>3. CASE b = a /\ u = t
  <2>1. c = c0
    BY <1>1, <1>2, <1>3
  <2>2. push'[p].cfg = c /\ push'[p].pc = "stored"
    BY <1>2, <2>1
  <2>3. HeldByPush(s, c)'
    BY <2>2 DEF HeldByPush
  <2>4. QED
    BY <2>3 DEF Accounted
<1>4. CASE ~(b = a /\ u = t)
  <2>1. c = snapshots[b][u]
    BY <1>1, <1>2, <1>4
  <2>2. c \in Snapshots(b) /\ c.type = u
    BY <1>1, <2>1 DEF Snapshots, PushWF
  <2>3. Accounted(s, c)
    BY <2>2 DEF UpdateAccounted, Accounted
  <2>4. CASE c.type \in got[s]
    BY <1>2, <1>4, <2>2, <2>4 DEF Accounted
  <2>5. CASE HeldForSync(s, c)
    BY <1>2, <2>5 DEF HeldForSync, Accounted
  <2>6. CASE HeldByPush(s, c)
    <3>1. PICK q \in Pushers :
             /\ push[q].cfg = c
             /\ push[q].pc = "stored" \/ (push[q].pc = "sending" /\ s \in push[q].targets)
      BY <2>6 DEF HeldByPush
    <3>2. q # p
      BY <1>2, <3>1
    <3>3. push'[q] = push[q]
      BY <1>2, <3>2
    <3>4. HeldByPush(s, c)'
      BY <3>1, <3>3 DEF HeldByPush
    <3>5. QED
      BY <3>4 DEF Accounted
  <2>7. QED
    BY <2>3, <2>4, <2>5, <2>6 DEF Accounted
<1>5. QED
  BY <1>3, <1>4

(* GetConnectionsForAgent finds every healthy connection of the agent, and *)
(* a send either enters the channel or closes the connection.              *)
LEMMA AccountedPush ==
  ASSUME PushInv, NEW p \in Pushers,
         PushCollect(p) \/ \E r \in Streams : PushSend(p, r),
         NEW s \in Streams, Healthy(s), Healthy(s)', NEW c \in Snapshots(AgentOf[s])
  PROVE  Accounted(s, c)'
<1> USE PushAssumption DEF PushInv, ShapeInv, TypeOK, PushTypeOK
<1>1. Accounted(s, c) /\ c.agent = AgentOf[s]
  BY SnapshotKeyed DEF UpdateAccounted, Accounted
<1>2. UNCHANGED sync /\ got[s] \subseteq got'[s]
  BY AcceptGrows DEF PushCollect, PushSend
<1>3. CASE c.type \in got[s] \/ HeldForSync(s, c)
  BY <1>2, <1>3 DEF Accounted, HeldForSync
<1>4. CASE HeldByPush(s, c)
  <2>1. PICK q \in Pushers :
           /\ push[q].cfg = c
           /\ push[q].pc = "stored" \/ (push[q].pc = "sending" /\ s \in push[q].targets)
    BY <1>4 DEF HeldByPush
  <2>2. CASE q # p
    <3>1. push'[q] = push[q]
      BY <2>2 DEF PushCollect, PushSend
    <3>2. HeldByPush(s, c)'
      BY <2>1, <3>1 DEF HeldByPush
    <3>3. QED
      BY <3>2 DEF Accounted
  <2>3. CASE q = p /\ PushCollect(p)
    <3> DEFINE conns == {r \in Streams : Registered(r) /\ AgentOf[r] = push[p].cfg.agent}
    <3>1. s \in conns
      BY <1>1, <2>1, <2>3 DEF Healthy
    <3>2. push' = [push EXCEPT ![p] = PushTo(c, conns)]
      BY <2>1, <2>3, <3>1 DEF PushCollect
    <3> HIDE DEF conns
    <3>3. push'[p].cfg = c /\ push'[p].pc = "sending" /\ s \in push'[p].targets
      BY <3>1, <3>2 DEF PushTo
    <3>4. HeldByPush(s, c)'
      BY <3>3 DEF HeldByPush
    <3>5. QED
      BY <3>4 DEF Accounted
  <2>4. ASSUME q = p, NEW r \in Streams, PushSend(p, r)
        PROVE  Accounted(s, c)'
    <3>1. push[p].cfg = c /\ s \in push[p].targets
      BY <2>1, <2>4 DEF PushSend
    <3>2. CASE r = s
      BY <2>4, <3>1, <3>2, AcceptedWhenHealthy DEF PushSend, Accounted
    <3>3. CASE r # s
      <4> DEFINE rest == push[p].targets \ {r}
      <4>1. s \in rest
        BY <3>1, <3>3
      <4>2. push' = [push EXCEPT ![p] = PushTo(c, rest)]
        BY <2>4, <3>1, <4>1 DEF PushSend
      <4> HIDE DEF rest
      <4>3. push'[p].cfg = c /\ push'[p].pc = "sending" /\ s \in push'[p].targets
        BY <4>1, <4>2 DEF PushTo
      <4>4. HeldByPush(s, c)'
        BY <4>3 DEF HeldByPush
      <4>5. QED
        BY <4>4 DEF Accounted
    <3>4. QED
      BY <3>2, <3>3
  <2>5. QED
    BY <2>2, <2>3, <2>4
<1>5. QED
  BY <1>1, <1>3, <1>4 DEF Accounted

(* A full sync reads every snapshot and sends each to its own connection.  *)
LEMMA AccountedSync ==
  ASSUME PushInv, NEW r \in Streams,
         SyncRead(r) \/ SyncLookup(r) \/ \E d \in sync[r].snaps : SyncSend(r, d),
         NEW s \in Streams, Healthy(s), Healthy(s)', NEW c \in Snapshots(AgentOf[s])
  PROVE  Accounted(s, c)'
<1> USE PushAssumption DEF PushInv, ShapeInv, TypeOK, PushTypeOK
<1>1. Accounted(s, c)
  BY DEF UpdateAccounted, Accounted
<1>2. UNCHANGED push /\ got[s] \subseteq got'[s]
  <2>1. ASSUME NEW d \in sync[r].snaps, SyncSend(r, d)
        PROVE  UNCHANGED push /\ got[s] \subseteq got'[s]
    BY <2>1, AcceptGrows DEF SyncSend, PushWF
  <2>2. QED
    BY <2>1 DEF SyncRead, SyncLookup
<1>3. CASE c.type \in got[s] \/ HeldByPush(s, c)
  BY <1>2, <1>3 DEF Accounted, HeldByPush
<1>4. CASE HeldForSync(s, c) /\ s # r
  <2>1. sync'[s] = sync[s]
    BY <1>4 DEF SyncRead, SyncLookup, SyncSend
  <2>2. QED
    BY <1>4, <2>1 DEF Accounted, HeldForSync
<1>5. CASE HeldForSync(s, c) /\ s = r
  <2>1. CASE SyncRead(r)
    <3>1. c \in Snapshots(AgentOf[r])
      BY <1>5
    <3>2. sync'[s] = SyncWith("lookup", Snapshots(AgentOf[r]), None)
      BY <1>5, <2>1, <3>1 DEF SyncRead
    <3>3. QED
      BY <3>1, <3>2 DEF Accounted, HeldForSync, SyncWith
  <2>2. CASE SyncLookup(r)
    <3>1. connections[InstanceOf[r]] = r /\ r # None
      BY <1>5, RegistryAssumption DEF Healthy, Registered
    <3>2. sync'[r] = SyncWith("sending", sync[r].snaps, r)
      BY <2>2, <3>1 DEF SyncLookup
    <3>3. QED
      BY <1>5, <2>2, <3>2 DEF Accounted, HeldForSync, SyncWith, SyncLookup
  <2>3. ASSUME NEW d \in sync[r].snaps, SyncSend(r, d)
        PROVE  Accounted(s, c)'
    <3>1. c \in sync[r].snaps
      BY <1>5, <2>3 DEF HeldForSync, SyncSend
    <3>2. CASE c = d
      <4>1. sync[r].target = s
        BY <1>5, <2>3 DEF SyncReachesOwn, SyncSend, Healthy
      <4>2. QED
        BY <2>3, <3>2, <4>1, AcceptedWhenHealthy DEF SyncSend, Accounted
    <3>3. CASE c # d
      <4>1. c \in sync[r].snaps \ {d}
        BY <3>1, <3>3
      <4>2. sync'[r] = SyncWith("sending", sync[r].snaps \ {d}, sync[r].target)
        BY <2>3, <4>1 DEF SyncSend
      <4>3. QED
        BY <1>5, <4>1, <4>2 DEF Accounted, HeldForSync, SyncWith
    <3>4. QED
      BY <3>2, <3>3
  <2>4. QED
    BY <2>1, <2>2, <2>3
<1>6. QED
  BY <1>1, <1>3, <1>4, <1>5 DEF Accounted

(* Registration starts a full sync; the other connections are not touched. *)
LEMMA AccountedRegister ==
  ASSUME PushInv, NEW r \in Streams, Register(r), RegistryNext,
         NEW s \in Streams, Healthy(s)', NEW c \in Snapshots(AgentOf[s])
  PROVE  Accounted(s, c)'
<1> USE DEF PushInv, ShapeInv, TypeOK, PushTypeOK
<1>1. CASE s = r
  BY <1>1 DEF Register, SyncAt, SyncWith, Accounted, HeldForSync
<1>2. CASE s # r
  <2>1. ~RegisterConnection(s)
    BY <1>2 DEF Register, RegisterConnection, RegistryTypeOK
  <2>2. Accounted(s, c)
    BY <2>1, OnlyRegisterRegisters DEF UpdateAccounted, Accounted
  <2>3. sync'[s] = sync[s] /\ UNCHANGED <<push, got>>
    BY <1>2 DEF Register
  <2>4. QED
    BY <2>2, <2>3 DEF Accounted, HeldForSync, HeldByPush
<1>3. QED
  BY <1>1, <1>2

(* One case per operation: what is accounted for stays so.                 *)
LEMMA UpdateAccountedStep ==
  ASSUME PushInv, Next, ShapeInv'
  PROVE  UpdateAccounted'
<1> SUFFICES ASSUME NEW s \in Streams, Healthy(s)', NEW c \in Snapshots(AgentOf[s])'
             PROVE  Accounted(s, c)'
  BY DEF UpdateAccounted, Accounted
<1> USE DEF PushInv, ShapeInv, TypeOK
<1>1. RegistryNext \/ UNCHANGED registryVars
  BY StepIsRegistryStep
<1>2. ~RegisterConnection(s) => Healthy(s)
  BY <1>1, OnlyRegisterRegisters
<1>3. UNCHANGED pc => Healthy(s)
  BY <1>2 DEF RegisterConnection, RegistryTypeOK
<1>4. UNCHANGED snapshots => c \in Snapshots(AgentOf[s])
  BY DEF Snapshots
<1>5. ASSUME NEW p \in Pushers, NEW a \in Agents, NEW t \in Types, NEW x \in Contents,
             PushUpdate(p, a, t, x)
      PROVE  Accounted(s, c)'
  BY <1>3, <1>5, AccountedUpdate DEF PushUpdate, registryVars
<1>6. ASSUME NEW p \in Pushers, PushCollect(p)
      PROVE  Accounted(s, c)'
  <2>1. UNCHANGED <<pc, snapshots>>
    BY <1>6 DEF PushCollect, registryVars
  <2>2. QED
    BY <1>3, <1>4, <1>6, <2>1, AccountedPush
<1>7. ASSUME NEW p \in Pushers, NEW r \in Streams, PushSend(p, r)
      PROVE  Accounted(s, c)'
  <2>1. UNCHANGED <<pc, snapshots>>
    BY <1>7 DEF PushSend, SendOn
  <2>2. QED
    BY <1>3, <1>4, <1>7, <2>1, AccountedPush
<1>8. ASSUME NEW a \in Agents, ForgetAgent(a)
      PROVE  Accounted(s, c)'
  <2>1. Healthy(s) /\ UNCHANGED <<push, sync>>
    BY <1>3, <1>8 DEF ForgetAgent, registryVars
  <2>2. AgentOf[s] # a
    BY <1>8 DEF ForgetAgent, DeleteAgent, Snapshots, PushTypeOK
  <2>3. got'[s] = got[s] /\ c \in Snapshots(AgentOf[s])
    BY <1>8, <2>2, PushAssumption DEF ForgetAgent, DeleteAgent, Snapshots, PushTypeOK
  <2>4. Accounted(s, c)
    BY <2>1, <2>3 DEF UpdateAccounted, Accounted
  <2>5. QED
    BY <2>1, <2>3, <2>4 DEF Accounted, HeldForSync, HeldByPush
<1>9. ASSUME NEW r \in Streams, Register(r)
      PROVE  Accounted(s, c)'
  <2>1. RegistryNext /\ UNCHANGED snapshots
    BY <1>9 DEF Register, RegistryNext, StreamStep
  <2>2. QED
    BY <1>4, <1>9, <2>1, AccountedRegister
<1>10. ASSUME NEW r \in Streams, SyncRead(r) \/ SyncLookup(r)
       PROVE  Accounted(s, c)'
  <2>1. UNCHANGED <<pc, snapshots>>
    BY <1>10 DEF SyncRead, SyncLookup, registryVars
  <2>2. QED
    BY <1>3, <1>4, <1>10, <2>1, AccountedSync
<1>11. ASSUME NEW r \in Streams, NEW d \in sync[r].snaps, SyncSend(r, d)
       PROVE  Accounted(s, c)'
  <2>1. UNCHANGED <<pc, snapshots>>
    BY <1>11 DEF SyncSend, SendOn
  <2>2. QED
    BY <1>3, <1>4, <1>11, <2>1, AccountedSync
<1>12. ASSUME Healthy(s), UNCHANGED <<snapshots, push, sync, got>>
       PROVE  Accounted(s, c)'
  <2>1. Accounted(s, c)
    BY <1>4, <1>12 DEF UpdateAccounted, Accounted
  <2>2. QED
    BY <1>12, <2>1, AccountedUnchanged
<1>13. ASSUME NEW r \in Streams, Transmit(r) \/ SendOther(r) \/ WriterEnds(r) \/ StreamLost(r)
       PROVE  Accounted(s, c)'
  <2>1. UNCHANGED <<pc, snapshots, push, sync, got>>
    BY <1>13 DEF Transmit, SendOther, WriterEnds, StreamLost, WriterSend, SendOn, WriterFails,
       WriterExit, StreamDown, pushVars
  <2>2. QED
    BY <1>3, <1>12, <2>1
<1>14. ASSUME NEW r \in Streams, Handshake(r) \/ Disconnect(r)
       PROVE  Accounted(s, c)'
  <2>1. UNCHANGED <<snapshots, push, sync, got>>
    BY <1>14 DEF Handshake, Disconnect, pushVars
  <2>2. Healthy(s)
    BY <1>2, <1>14, HandshakeIsNoRegister
  <2>3. QED
    BY <1>12, <2>1, <2>2
<1>15. CASE StopServer
  <2>1. UNCHANGED <<pc, snapshots, push, sync, got>>
    BY <1>15 DEF StopServer, Stop, pushVars
  <2>2. QED
    BY <1>3, <1>12, <2>1
<1>16. QED
  BY <1>5, <1>6, <1>7, <1>8, <1>9, <1>10, <1>11, <1>13, <1>14, <1>15 DEF Next

-----------------------------------------------------------------------------
(* The results.                                                            *)

(* The invariant is inductive over every step of the composition.          *)
LEMMA PushInvariance ==
  /\ Init => PushInv
  /\ PushInv /\ [Next]_vars => PushInv'
<1>1. Init => PushInv
  <2>1. ASSUME Init
        PROVE  /\ \A s \in Streams : sync[s].pc = "none"
               /\ \A a \in Agents : Snapshots(a) = {}
    BY <2>1 DEF Init, PushInit, SyncAt, SyncWith, Snapshots
  <2>2. ASSUME Init
        PROVE  SyncReachesOwn /\ UpdateAccounted
    BY <2>1, <2>2, PushAssumption DEF SyncReachesOwn, UpdateAccounted
  <2>3. QED
    BY <2>2, ShapeInit DEF PushInv
<1>2. ASSUME PushInv, Next
      PROVE  PushInv'
  <2>1. ShapeInv'
    BY <1>2, ShapeStep DEF PushInv
  <2>2. QED
    BY <1>2, <2>1, SyncReachesOwnStep, UpdateAccountedStep DEF PushInv
<1>3. ASSUME PushInv, UNCHANGED vars
      PROVE  PushInv'
  BY <1>3 DEF PushInv, ShapeInv, TypeOK, RegistryTypeOK, PushTypeOK, PushWF, SyncReachesOwn,
     UpdateAccounted, Healthy, Registered, Snapshots, HeldForSync, HeldByPush, vars,
     registryVars, pushVars
<1>4. QED
  BY <1>1, <1>2, <1>3

(* Configuration distribution keeps its types, channel capacity included.  *)
THEOREM PushTypeCorrect == Spec => []TypeOK
<1>1. PushInv => TypeOK
  BY DEF PushInv, ShapeInv
<1>2. QED
  BY <1>1, PushInvariance, PTL DEF Spec

(* Whatever the distributor and the informers do, the registry inside      *)
(* behaves as ConnRegistry says.                                           *)
THEOREM PushImplementsRegistry == Spec => RegistrySpec
<1>1. Init => RegistryInit
  BY DEF Init
<1>2. PushInv /\ [Next]_vars => [RegistryNext]_registryVars
  <2>1. ASSUME PushInv, Next
        PROVE  RegistryNext \/ UNCHANGED registryVars
    BY <2>1, StepIsRegistryStep DEF PushInv
  <2>2. ASSUME UNCHANGED vars
        PROVE  UNCHANGED registryVars
    BY <2>2 DEF vars
  <2>3. QED
    BY <2>1, <2>2
<1>3. QED
  BY <1>1, <1>2, PushInvariance, PTL DEF Spec, RegistrySpec

(* The registry theorems hold of the whole push path.                      *)
THEOREM PushKeepsRegistry ==
  Spec => [](RegisteredIsServing /\ ServingIsReachable /\ EvictedIsClosed /\ GaugeAccounting)
BY PushImplementsRegistry, RegistryConsistent, EvictedConnectionsAreClosed,
   GaugeIsAccountedFor, PTL

(* Once pushes and the full sync are over, every current snapshot of the   *)
(* agent has been accepted by every healthy connection of it: a push and a *)
(* connect that race never lose an update between them.                    *)
THEOREM PushMissesNothing == Spec => []NoMissedUpdate
<1>1. ASSUME PushInv
      PROVE  NoMissedUpdate
  <2> SUFFICES ASSUME NEW s \in Streams, Healthy(s), Quiet(s), NEW c \in Snapshots(AgentOf[s])
               PROVE  c.type \in got[s]
    BY DEF NoMissedUpdate
  <2>1. ~HeldForSync(s, c)
    BY DEF Quiet, HeldForSync
  <2>2. ~HeldByPush(s, c)
    BY DEF Quiet, HeldByPush
  <2>3. QED
    BY <1>1, <2>1, <2>2 DEF PushInv, UpdateAccounted
<1>2. QED
  BY <1>1, PushInvariance, PTL DEF Spec
=============================================================================
