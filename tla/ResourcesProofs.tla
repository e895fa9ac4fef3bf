-------------------------- MODULE ResourcesProofs ---------------------------
(***************************************************************************)
(* Proofs about the objects that a push writes, for any number of pushes   *)
(* under way, any keys, models, addresses, tools and answers of servers,   *)
(* and any bounds: types, the tools in a server's status, and that neither *)
(* reconciler, nor the garbage collector, nor the watcher misses anything. *)
(***************************************************************************)
EXTENDS Resources, TLAPS

(* A push that is under way knows its agent, and carries what it is about  *)
(* to write.                                                               *)
PushShape ==
    \A h \in Handlers :
        /\ push[h].pc # "idle" => push[h].req \in Requests /\ push[h].owner \in 1 .. uids
        /\ push[h].pc \in {"secret", "modelconfig"} => push[h].req.model \in Models

(* The agent there is has the last UID that was given out, and what is     *)
(* owned belongs to an agent there is or was.                              *)
OwnersAreKnown ==
    /\ agent # None => agent.uid = uids /\ uids # 0
    /\ secret # None => secret.owner \in 1 .. uids
    /\ mc # None => mc.owner \in 0 .. uids

(* What ModelConfigReconciler finds out is of the ModelConfig as long as   *)
(* its copy is fresh.                                                      *)
Judged(accepted, hash) ==
    /\ accepted \in {"True", "False"}
    /\ ~mc.sec => accepted = "True"
    /\ mc.sec /\ accepted = "True" => hash \in Keys

JudgeShape ==
    /\ mcCtl.pc = "idle" => ~mcCtl.fresh
    /\ mcCtl.fresh => mc # None
    /\ mcCtl.fresh /\ mcCtl.pc = "secret" => mc.sec /\ mcCtl.accepted = "True"
    /\ mcCtl.fresh /\ mcCtl.pc = "write" => Judged(mcCtl.accepted, mcCtl.hash)

(* So a ModelConfig whose key is neither queued nor being worked on has    *)
(* been judged as it is: whatever was written to it, by a push, by REST or *)
(* by the reconciler itself, while the reconciler was at work              *)
(* (modelconfig_controller.go:33-92).                                      *)
ModelConfigIsSeen ==
    mc # None /\ ~mcCtl.queued =>
        IF mcCtl.pc = "idle" THEN Judged(mc.accepted, mc.hash) ELSE mcCtl.fresh

(* MCPServerReconciler asks the address that is in the spec as long as its *)
(* copy is fresh.                                                          *)
AddressOf(spec) == IF spec.type = "Remote" THEN spec.config ELSE None

DiscoveryShape ==
    /\ mcpCtl.pc \in {"headers", "initialize", "list"} => mcpCtl.url \in URLs
    /\ mcpCtl.fresh => mcp # None /\ mcpCtl.url = AddressOf(mcp.spec)
    /\ mcpCtl.pc = "idle" => ~mcpCtl.fresh

(* An MCPServer is never forgotten: its key is queued, or the reconciler   *)
(* works on it as it is, or the timer is set, or the webhook would have    *)
(* refused it and asking it again is of no use                             *)
(* (mcpserver_controller.go:82-86, 118-141).                               *)
MCPServerIsSeen ==
    mcp # None /\ ~mcpCtl.queued =>
        IF mcpCtl.pc = "idle" THEN mcpCtl.timer \/ ~validateMCPServer(mcp.spec)
        ELSE mcpCtl.fresh

(* The last event that the watcher has not been given carries the spec     *)
(* that is stored, so that events given late, and one after the other,     *)
(* never end with an old spec (config_watcher.go:133-150).                 *)
LastEventIsCurrent ==
    mcp # None /\ events # <<>> => events[Len(events)] = mcp.spec

OwnedGood == JudgeShape /\ ModelConfigIsSeen
ServerGood == DiscoveryShape /\ MCPServerIsSeen /\ LastEventIsCurrent

ResourcesInv ==
    /\ TypeOK
    /\ PushShape
    /\ OwnersAreKnown
    /\ OwnedGood
    /\ ServerGood

(* What the garbage collector may take it may take until it has: no agent  *)
(* ever gets the UID of an earlier one, and nobody changes an owner        *)
(* (agent_handler.go:217-227, 523-534).                                    *)
OrphansStayOrphans ==
    [][/\ Collectable(secret) => secret' = None \/ Collectable(secret)'
       /\ Collectable(mc) => mc' = None \/ Collectable(mc)']_vars

-----------------------------------------------------------------------------
(* What the operators do that several actions are made of.                 *)

(* Nothing that is stored is None. *)
LEMMA StoredIsSome ==
  /\ None \notin Agent /\ None \notin Secret /\ None \notin ModelConfig
  /\ None \notin MCPServer /\ None \notin MCPServerSpec /\ None \notin Requests
  /\ None \notin Keys /\ None \notin Models /\ None \notin URLs /\ None # Command
  BY ResourcesAssumption

(* Storing a ModelConfig makes the reconciler's copy old and queues the    *)
(* key; it does not move the reconciler.                                   *)
LEMMA StoreModelConfigDoes ==
  ASSUME TypeOK, NEW m \in ModelConfig \cup {None}, StoreModelConfig(m)
  PROVE  /\ mc' = m
         /\ mcCtl' \in ModelConfigCtl
         /\ ~mcCtl'.fresh /\ mcCtl'.queued
         /\ mcCtl'.pc = mcCtl.pc
  BY DEF TypeOK, StoreModelConfig, ModelConfigCtl

(* ... and what it found out is then of no consequence. *)
LEMMA StoreModelConfigGood ==
  ASSUME TypeOK, OwnedGood, NEW m \in ModelConfig \cup {None}, StoreModelConfig(m)
  PROVE  OwnedGood'
  BY StoreModelConfigDoes DEF OwnedGood, JudgeShape, ModelConfigIsSeen

(* Storing an MCPServer is one more event, makes the copy old and queues   *)
(* the key.                                                                *)
LEMMA StoreMCPServerDoes ==
  ASSUME TypeOK, NEW s \in MCPServer, StoreMCPServer(s)
  PROVE  /\ mcp' = s
         /\ mcpCtl' \in MCPServerCtl
         /\ ~mcpCtl'.fresh /\ mcpCtl'.queued
         /\ mcpCtl'.pc = mcpCtl.pc /\ mcpCtl'.url = mcpCtl.url
         /\ mcpCtl'.tools = mcpCtl.tools
         /\ mcpCtl'.discovered = mcpCtl.discovered
         /\ events' \in Seq(MCPServerSpec) /\ Len(events') <= MaxEvents
         /\ events' # <<>> /\ events'[Len(events')] = s.spec
         /\ recent' = recent
<1>1. s.spec \in MCPServerSpec
  BY DEF MCPServer
<1>2. /\ mcpCtl' \in MCPServerCtl
      /\ ~mcpCtl'.fresh /\ mcpCtl'.queued
      /\ mcpCtl'.pc = mcpCtl.pc /\ mcpCtl'.url = mcpCtl.url
      /\ mcpCtl'.tools = mcpCtl.tools
      /\ mcpCtl'.discovered = mcpCtl.discovered
  BY DEF TypeOK, StoreMCPServer, MCPServerCtl
<1>3. QED
  BY <1>1, <1>2, ResourcesAssumption DEF TypeOK, StoreMCPServer

LEMMA StoreMCPServerGood ==
  ASSUME TypeOK, ServerGood, NEW s \in MCPServer, StoreMCPServer(s)
  PROVE  ServerGood'
  BY StoreMCPServerDoes DEF ServerGood, DiscoveryShape, MCPServerIsSeen, LastEventIsCurrent

(* Nothing changes for a reconciler whose objects and whose state do not.  *)
LEMMA OwnedKept ==
  ASSUME OwnedGood, UNCHANGED owned
  PROVE  OwnedGood'
  BY DEF OwnedGood, owned, JudgeShape, Judged, ModelConfigIsSeen

LEMMA ServerKept ==
  ASSUME ServerGood, UNCHANGED server
  PROVE  ServerGood'
  BY DEF ServerGood, server, DiscoveryShape, MCPServerIsSeen, LastEventIsCurrent

(* A push that goes on still carries what it carried. *)
LEMMA PushGoesOn ==
  ASSUME TypeOK, PushShape, NEW h \in Handlers, push[h].pc # "idle",
         NEW pc \in {"idle", "modelconfig", "mcpserver"}, GoesOn(h, pc),
         pc = "modelconfig" => push[h].req.model \in Models,
         uids' = uids
  PROVE  /\ push' \in [Handlers -> Push]
         /\ PushShape'
<1>1. /\ IdlePush \in Push
      /\ IdlePush.pc = "idle"
  BY DEF IdlePush, Push
<1>2. /\ [push[h] EXCEPT !.pc = pc] \in Push
      /\ [push[h] EXCEPT !.pc = pc].pc = pc
      /\ [push[h] EXCEPT !.pc = pc].req = push[h].req
      /\ [push[h] EXCEPT !.pc = pc].owner = push[h].owner
  BY DEF TypeOK, Push
<1>3. /\ push'[h].pc = pc
      /\ push'[h] \in Push
      /\ pc # "idle" => push'[h].req = push[h].req /\ push'[h].owner = push[h].owner
      /\ push' \in [Handlers -> Push]
      /\ \A k \in Handlers \ {h} : push'[k] = push[k]
  BY <1>1, <1>2 DEF TypeOK, GoesOn
<1>4. QED
  BY <1>3 DEF PushShape

-----------------------------------------------------------------------------
(* The handlers of pushes.                                                 *)

(* The Agent is written: it is new, and has a new UID, or keeps its own.   *)
LEMMA PushAgentStep ==
  ASSUME ResourcesInv, NEW h \in Handlers, pushAgent(h)
  PROVE  ResourcesInv'
<1> USE ResourcesAssumption DEF ResourcesInv
<1>1. PICK r \in Requests :
        /\ uids' = IF agent = None THEN uids + 1 ELSE uids
        /\ agent' = [uid |-> uids', tools |-> ~r.image /\ r.url # None]
        /\ push' = [push EXCEPT ![h] =
              [pc |-> IF ~r.image /\ r.model # None THEN "secret" ELSE "mcpserver",
               req |-> r, owner |-> uids']]
  BY DEF pushAgent
<1>2. /\ r \in PushAgentRequest
      /\ r.model \in Models \cup {None}
  BY DEF PushAgentRequest
<1>3. /\ uids' \in Nat /\ uids <= uids'
      /\ uids' >= 1
      /\ agent' \in Agent /\ agent'.uid = uids'
  BY <1>1 DEF TypeOK, Agent, OwnersAreKnown
<1>4. push' \in [Handlers -> Push]
  BY <1>1, <1>3 DEF TypeOK, Push
<1>5. UNCHANGED <<owned, server, net, token, forgets, tool, faults>> /\ ops' \in Nat
  BY DEF pushAgent, Acts, TypeOK
<1>6. TypeOK'
  BY <1>3, <1>4, <1>5 DEF TypeOK, owned, server
<1>7. PushShape'
  BY <1>1, <1>2, <1>3 DEF PushShape, TypeOK
<1>8. OwnersAreKnown'
  BY <1>3, <1>5 DEF OwnersAreKnown, TypeOK, owned
<1>9. QED
  BY <1>5, <1>6, <1>7, <1>8, OwnedKept, ServerKept

(* The Secret is created for the agent that was written, or its key is     *)
(* replaced.                                                               *)
LEMMA UpsertSecretStep ==
  ASSUME ResourcesInv, NEW h \in Handlers, upsertSecret(h)
  PROVE  ResourcesInv'
<1> USE ResourcesAssumption DEF ResourcesInv
<1>1. /\ push[h] \in Push
      /\ push[h].pc = "secret"
      /\ GoesOn(h, "modelconfig")
      /\ push[h].req \in PushAgentRequest
      /\ push[h].req.model \in Models
      /\ push[h].owner \in 1 .. uids
  BY DEF upsertSecret, TypeOK, PushShape
<1>2. UNCHANGED <<agent, uids, net, token, forgets, tool, ops, mc, mcCtl, server>>
  BY DEF upsertSecret, Lost
<1>3. push' \in [Handlers -> Push] /\ PushShape'
  BY <1>1, <1>2, PushGoesOn
<1>4. faults' \in Nat
  BY DEF upsertSecret, Lost, Fault, TypeOK
<1>5. secret' \in Secret \cup {None} /\ (secret' # None => secret'.owner \in 1 .. uids)
  <2>1. push[h].req.apiKey \in Keys \cup {None}
    BY <1>1 DEF PushAgentRequest
  <2>2. CASE secret' = secret
    BY <2>2 DEF TypeOK, OwnersAreKnown
  <2>3. CASE push[h].req.apiKey # None /\ secret = None /\ secret' = buildModelSecret(h)
    BY <1>1, <2>1, <2>3 DEF buildModelSecret, agentOwnerRef, Secret, TypeOK
  <2>4. CASE /\ push[h].req.apiKey # None /\ secret # None
             /\ secret' = [secret EXCEPT !.key = push[h].req.apiKey]
    BY <2>1, <2>4 DEF TypeOK, OwnersAreKnown, Secret
  <2>5. QED
    BY <2>2, <2>3, <2>4 DEF upsertSecret, Lost
<1>6. TypeOK'
  BY <1>2, <1>3, <1>4, <1>5 DEF TypeOK, server
<1>7. OwnersAreKnown'
  BY <1>2, <1>5 DEF OwnersAreKnown
<1>8. QED
  BY <1>2, <1>3, <1>6, <1>7, OwnedKept, ServerKept
     DEF OwnedGood, JudgeShape, Judged, ModelConfigIsSeen

(* The ModelConfig is created for the agent that was written, or its spec  *)
(* is replaced.                                                            *)
LEMMA PushModelConfigStep ==
  ASSUME ResourcesInv, NEW h \in Handlers, pushModelConfig(h)
  PROVE  ResourcesInv'
<1> USE ResourcesAssumption DEF ResourcesInv
<1>1. /\ push[h] \in Push
      /\ push[h].pc = "modelconfig"
      /\ GoesOn(h, "mcpserver")
      /\ push[h].req.model \in Models
      /\ push[h].owner \in 1 .. uids
  BY DEF pushModelConfig, TypeOK, PushShape
<1>2. UNCHANGED <<agent, uids, net, token, forgets, tool, ops, secret, server>>
  BY DEF pushModelConfig, Lost
<1>3. push' \in [Handlers -> Push] /\ PushShape'
  BY <1>1, <1>2, PushGoesOn
<1>4. faults' \in Nat
  BY DEF pushModelConfig, Lost, Fault, TypeOK
<1> DEFINE new == buildModelConfigFromPush(h)
           updated == [mc EXCEPT !.model = new.model, !.sec = new.sec]
<1>5. /\ new \in ModelConfig
      /\ new.owner \in 0 .. uids
      /\ new.model \in Models /\ new.sec \in BOOLEAN
  <2>1. push[h].owner \in 0 .. uids /\ push[h].owner \in Nat
    BY <1>1 DEF TypeOK
  <2> DEFINE sec == push[h].req.apiKey # None
  <2>2. sec \in BOOLEAN
    OBVIOUS
  <2>3. new = [owner |-> push[h].owner, model |-> push[h].req.model, sec |-> sec,
               accepted |-> "", hash |-> None]
    BY DEF buildModelConfigFromPush, agentOwnerRef
  <2> HIDE DEF sec, new
  <2>4. new \in ModelConfig
    BY <1>1, <2>1, <2>2, <2>3 DEF ModelConfig
  <2>5. buildModelConfigFromPush(h).owner = push[h].owner
    BY DEF buildModelConfigFromPush, agentOwnerRef
  <2>6. buildModelConfigFromPush(h).model = push[h].req.model
    BY DEF buildModelConfigFromPush
  <2>7. \A m \in ModelConfig : m.sec \in BOOLEAN
    BY DEF ModelConfig
  <2>8. QED
    BY <1>1, <2>1, <2>4, <2>5, <2>6, <2>7 DEF new
<1>6. mc # None => updated \in ModelConfig /\ updated.owner = mc.owner
  <2>1. SUFFICES ASSUME mc \in ModelConfig
                 PROVE  updated \in ModelConfig /\ updated.owner = mc.owner
    BY DEF TypeOK
  <2>2. ASSUME NEW m \in Models, NEW s \in BOOLEAN
        PROVE  /\ [mc EXCEPT !.model = m, !.sec = s] \in ModelConfig
               /\ [mc EXCEPT !.model = m, !.sec = s].owner = mc.owner
    BY <2>1 DEF ModelConfig
  <2>3. QED
    BY <1>5, <2>2
<1>7. \/ UNCHANGED <<mc, mcCtl>>
      \/ mc = None /\ StoreModelConfig(new)
      \/ mc # None /\ StoreModelConfig(updated)
  BY DEF pushModelConfig, Lost
<1> HIDE DEF new, updated
<1>8. CASE UNCHANGED <<mc, mcCtl>>
  <2>1. TypeOK' /\ OwnersAreKnown'
    BY <1>2, <1>3, <1>4, <1>8 DEF TypeOK, OwnersAreKnown, server
  <2>2. QED
    BY <1>2, <1>3, <1>8, <2>1, OwnedKept, ServerKept DEF owned
<1>9. ASSUME NEW m \in ModelConfig, m.owner \in 0 .. uids, StoreModelConfig(m)
      PROVE  ResourcesInv'
  <2>1. mc' = m /\ mcCtl' \in ModelConfigCtl
    BY <1>9, StoreModelConfigDoes
  <2>2. OwnedGood'
    BY <1>9, StoreModelConfigGood
  <2>3. TypeOK' /\ OwnersAreKnown'
    BY <1>2, <1>3, <1>4, <1>9, <2>1 DEF TypeOK, OwnersAreKnown, server
  <2>4. QED
    BY <1>2, <1>3, <2>2, <2>3, ServerKept
<1>10. QED
  BY <1>5, <1>6, <1>7, <1>8, <1>9 DEF OwnersAreKnown

(* A step that stores an MCPServer, or leaves it alone, and nothing else   *)
(* of what the reconcilers use.                                            *)
LEMMA ServerStored ==
  ASSUME ResourcesInv,
         \/ UNCHANGED server
         \/ \E s \in MCPServer : StoreMCPServer(s) /\ s.discovered = "" 
         \/ \E s \in MCPServer : StoreMCPServer(s) /\ mcp # None /\ s.tools = mcp.tools
                                 /\ s.discovered = mcp.discovered
  PROVE  /\ ServerGood'
         /\ mcp' \in MCPServer \cup {None} /\ mcpCtl' \in MCPServerCtl
         /\ recent' \in BOOLEAN
         /\ events' \in Seq(MCPServerSpec) /\ Len(events') <= MaxEvents
         /\ mcp' # None /\ mcp'.discovered = "True" => mcp'.tools \in ToolSets
         /\ mcpCtl'.discovered = "True" => mcpCtl'.tools \in ToolSets
<1> USE DEF ResourcesInv
<1>1. CASE UNCHANGED server
  BY <1>1, ServerKept DEF server, TypeOK
<1>2. ASSUME NEW s \in MCPServer, StoreMCPServer(s), 
             s.discovered = "True" => s.tools \in ToolSets
      PROVE  /\ ServerGood'
             /\ mcp' \in MCPServer \cup {None} /\ mcpCtl' \in MCPServerCtl
             /\ recent' \in BOOLEAN
             /\ events' \in Seq(MCPServerSpec) /\ Len(events') <= MaxEvents
             /\ mcp' # None /\ mcp'.discovered = "True" => mcp'.tools \in ToolSets
             /\ mcpCtl'.discovered = "True" => mcpCtl'.tools \in ToolSets
  BY <1>2, StoreMCPServerDoes, StoreMCPServerGood DEF TypeOK
<1>3. QED
  BY <1>1, <1>2 DEF TypeOK

(* What a request, a user or a push may make of an MCPServer.              *)
LEMMA NewMCPServerType ==
  ASSUME NEW spec \in MCPServerSpec
  PROVE  /\ NewMCPServer(spec) \in MCPServer
         /\ NewMCPServer(spec).discovered = ""
  BY DEF NewMCPServer, MCPServer

LEMMA RespecifiedType ==
  ASSUME TypeOK, mcp # None, NEW spec \in MCPServerSpec
  PROVE  /\ [mcp EXCEPT !.spec = spec] \in MCPServer
         /\ [mcp EXCEPT !.spec = spec].tools = mcp.tools
         /\ [mcp EXCEPT !.spec = spec].discovered = mcp.discovered
  BY DEF TypeOK, MCPServer

(* The MCPServer is created, or its spec is replaced if it is another one. *)
LEMMA PushMCPServerStep ==
  ASSUME ResourcesInv, NEW h \in Handlers, pushMCPServer(h)
  PROVE  ResourcesInv'
<1> USE ResourcesAssumption DEF ResourcesInv
<1>1. /\ push[h] \in Push
      /\ push[h].pc = "mcpserver"
      /\ GoesOn(h, "idle")
      /\ push[h].req \in PushAgentRequest
  BY DEF pushMCPServer, TypeOK, PushShape
<1>2. UNCHANGED <<agent, uids, net, token, forgets, tool, ops, secret, mc, mcCtl>>
  BY DEF pushMCPServer, Lost
<1>3. push' \in [Handlers -> Push] /\ PushShape'
  BY <1>1, <1>2, PushGoesOn
<1>4. faults' \in Nat
  BY DEF pushMCPServer, Lost, Fault, TypeOK
<1> DEFINE spec == buildMCPServerFromPush(push[h].req)
<1>5. push[h].req.url # None => spec \in MCPServerSpec
  BY <1>1 DEF buildMCPServerFromPush, MCPServerSpec, PushAgentRequest
<1>6. \/ UNCHANGED server
      \/ /\ push[h].req.url # None
         /\ \/ mcp = None /\ StoreMCPServer(NewMCPServer(spec))
            \/ mcp # None /\ StoreMCPServer([mcp EXCEPT !.spec = spec])
  BY DEF pushMCPServer, Lost
<1> HIDE DEF spec
<1>7. \/ UNCHANGED server
      \/ \E s \in MCPServer : StoreMCPServer(s) /\ s.discovered = ""
      \/ \E s \in MCPServer : StoreMCPServer(s) /\ mcp # None /\ s.tools = mcp.tools
                              /\ s.discovered = mcp.discovered
  <2>1. CASE UNCHANGED server
    BY <2>1
  <2>2. CASE push[h].req.url # None /\ mcp = None /\ StoreMCPServer(NewMCPServer(spec))
    BY <1>5, <2>2, NewMCPServerType
  <2>3. CASE push[h].req.url # None /\ mcp # None /\ StoreMCPServer([mcp EXCEPT !.spec = spec])
    BY <1>5, <2>3, RespecifiedType
  <2>4. QED
    BY <1>6, <2>1, <2>2, <2>3
<1>8. TypeOK' /\ ServerGood'
  BY <1>2, <1>3, <1>4, <1>7, ServerStored DEF TypeOK
<1>9. OwnersAreKnown'
  BY <1>2 DEF OwnersAreKnown
<1>10. QED
  BY <1>2, <1>3, <1>8, <1>9, OwnedKept DEF owned

-----------------------------------------------------------------------------
(* The other handlers.                                                     *)

(* The Agent goes; its UID is not given to another one. *)
LEMMA DeleteAgentStep ==
  ASSUME ResourcesInv, deleteAgent
  PROVE  ResourcesInv'
<1>1. UNCHANGED <<owned, server, uids, push, net, token, tool, faults>>
  BY DEF deleteAgent
<1>2. TypeOK'
  BY <1>1 DEF ResourcesInv, TypeOK, deleteAgent, Acts, owned, server
<1>3. PushShape' /\ OwnersAreKnown'
  BY <1>1 DEF ResourcesInv, PushShape, OwnersAreKnown, deleteAgent, owned
<1>4. QED
  BY <1>1, <1>2, <1>3, OwnedKept, ServerKept DEF ResourcesInv

(* A ModelConfig is created by a user, patched, or removed. *)
LEMMA ModelConfigStored ==
  ASSUME ResourcesInv, NEW m \in ModelConfig \cup {None}, StoreModelConfig(m),
         m # None => m.owner \in 0 .. uids,
         UNCHANGED <<agent, secret, server, uids, push, net, token, forgets, tool, faults>>,
         ops' \in Nat
  PROVE  ResourcesInv'
<1>1. mc' = m /\ mcCtl' \in ModelConfigCtl
  BY StoreModelConfigDoes DEF ResourcesInv
<1>2. OwnedGood'
  BY StoreModelConfigGood DEF ResourcesInv
<1>3. TypeOK' /\ OwnersAreKnown' /\ PushShape'
  BY <1>1 DEF ResourcesInv, TypeOK, OwnersAreKnown, PushShape, server
<1>4. QED
  BY <1>2, <1>3, ServerKept DEF ResourcesInv

LEMMA ModelConfigHandlers ==
  ASSUME ResourcesInv, createModelConfig \/ patchModelConfig \/ deleteModelConfig
  PROVE  ResourcesInv'
<1> USE DEF ResourcesInv
<1>1. CASE createModelConfig
  <2>1. PICK m \in Models, sec \in BOOLEAN :
          StoreModelConfig([owner |-> 0, model |-> m, sec |-> sec, accepted |-> "",
                            hash |-> None])
    BY <1>1, Zenon DEF createModelConfig
  <2> DEFINE new == [owner |-> 0, model |-> m, sec |-> sec, accepted |-> "", hash |-> None]
  <2>2. new \in ModelConfig /\ new.owner = 0
    BY DEF ModelConfig
  <2>3. UNCHANGED <<agent, secret, server, uids, push, net, token, forgets, tool, faults>>
    BY <1>1 DEF createModelConfig
  <2>4. ops' \in Nat /\ 0 \in 0 .. uids
    <3>1. Acts
      BY <1>1, Zenon DEF createModelConfig
    <3>2. QED
      BY <3>1 DEF Acts, TypeOK
  <2> HIDE DEF new
  <2>5. StoreModelConfig(new)
    BY <2>1 DEF new
  <2>6. QED
    BY <2>2, <2>3, <2>4, <2>5, ModelConfigStored
<1>2. CASE patchModelConfig
  <2>1. mc # None /\ mc \in ModelConfig /\ mc.owner \in 0 .. uids
    BY <1>2 DEF patchModelConfig, TypeOK, OwnersAreKnown
  <2>2. PICK m \in Models : StoreModelConfig([mc EXCEPT !.model = m])
    BY <1>2, Zenon DEF patchModelConfig
  <2>3. [mc EXCEPT !.model = m] \in ModelConfig /\ [mc EXCEPT !.model = m].owner = mc.owner
    BY <2>1 DEF ModelConfig
  <2>4. UNCHANGED <<agent, secret, server, uids, push, net, token, forgets, tool, faults>>
    BY <1>2 DEF patchModelConfig
  <2>5. ops' \in Nat
    BY <1>2 DEF patchModelConfig, Acts, TypeOK
  <2>6. QED
    BY <2>1, <2>2, <2>3, <2>4, <2>5, ModelConfigStored
<1>3. CASE deleteModelConfig
  BY <1>3, ModelConfigStored DEF deleteModelConfig, Acts, TypeOK
<1>4. QED
  BY <1>1, <1>2, <1>3

(* An MCPServer is created by a user, or patched. *)
LEMMA MCPServerStored ==
  ASSUME ResourcesInv,
         \/ \E s \in MCPServer : StoreMCPServer(s) /\ s.discovered = ""
         \/ \E s \in MCPServer : StoreMCPServer(s) /\ mcp # None /\ s.tools = mcp.tools
                                 /\ s.discovered = mcp.discovered,
         UNCHANGED <<agent, owned, uids, push, net, token, forgets, tool, faults>>,
         ops' \in Nat
  PROVE  ResourcesInv'
<1>1. TypeOK' /\ ServerGood'
  BY ServerStored DEF ResourcesInv, TypeOK, owned
<1>2. OwnersAreKnown' /\ PushShape'
  BY DEF ResourcesInv, OwnersAreKnown, PushShape, owned
<1>3. QED
  BY <1>1, <1>2, OwnedKept DEF ResourcesInv

LEMMA MCPServerHandlers ==
  ASSUME ResourcesInv, createMCPServer \/ patchMCPServer \/ deleteMCPServer
  PROVE  ResourcesInv'
<1> USE ResourcesAssumption DEF ResourcesInv
<1>1. CASE createMCPServer
  <2>1. PICK spec \in Posted : StoreMCPServer(NewMCPServer(spec))
    BY <1>1, Zenon DEF createMCPServer
  <2>2. NewMCPServer(spec) \in MCPServer /\ NewMCPServer(spec).discovered = ""
    BY NewMCPServerType
  <2>3. UNCHANGED <<agent, owned, uids, push, net, token, forgets, tool, faults>>
    BY <1>1 DEF createMCPServer
  <2>4. ops' \in Nat
    BY <1>1 DEF createMCPServer, Acts, TypeOK
  <2>5. QED
    BY <2>1, <2>2, <2>3, <2>4, MCPServerStored
<1>2. CASE patchMCPServer
  <2>1. mcp # None
    BY <1>2 DEF patchMCPServer
  <2>2. PICK spec \in Posted : StoreMCPServer([mcp EXCEPT !.spec = spec])
    BY <1>2, Zenon DEF patchMCPServer
  <2>3. /\ [mcp EXCEPT !.spec = spec] \in MCPServer
        /\ [mcp EXCEPT !.spec = spec].tools = mcp.tools
        /\ [mcp EXCEPT !.spec = spec].discovered = mcp.discovered
    BY <2>1, RespecifiedType
  <2>4. UNCHANGED <<agent, owned, uids, push, net, token, forgets, tool, faults>>
    BY <1>2 DEF patchMCPServer
  <2>5. ops' \in Nat
    BY <1>2 DEF patchMCPServer, Acts, TypeOK
  <2>6. QED
    BY <2>1, <2>2, <2>3, <2>4, <2>5, MCPServerStored
<1>3. CASE deleteMCPServer
  <2>1. /\ mcp' = None
        /\ UNCHANGED <<agent, owned, uids, push, recent, net, token, events, forgets, tool,
                       faults>>
        /\ ops' \in Nat
    BY <1>3 DEF deleteMCPServer, Acts, TypeOK
  <2>2. /\ mcpCtl' \in MCPServerCtl
        /\ ~mcpCtl'.fresh
        /\ mcpCtl'.pc = mcpCtl.pc /\ mcpCtl'.url = mcpCtl.url
        /\ mcpCtl'.tools = mcpCtl.tools /\ mcpCtl'.discovered = mcpCtl.discovered
    BY <1>3 DEF deleteMCPServer, TypeOK, MCPServerCtl
  <2>3. TypeOK'
    BY <2>1, <2>2 DEF TypeOK, owned
  <2>4. ServerGood'
    BY <2>1, <2>2 DEF ServerGood, DiscoveryShape, MCPServerIsSeen, LastEventIsCurrent
  <2>5. OwnersAreKnown' /\ PushShape'
    BY <2>1 DEF OwnersAreKnown, PushShape, owned
  <2>6. QED
    BY <2>1, <2>3, <2>4, <2>5, OwnedKept
<1>4. QED
  BY <1>1, <1>2, <1>3

-----------------------------------------------------------------------------
(* What is external.                                                       *)

LEMMA CollectorSteps ==
  ASSUME ResourcesInv, CollectSecret \/ CollectModelConfig
  PROVE  ResourcesInv'
<1>1. CASE CollectSecret
  <2>1. /\ secret' = None
        /\ UNCHANGED <<agent, mc, mcCtl, server, uids, push, net, token, forgets, tool, ops,
                       faults>>
    BY <1>1 DEF CollectSecret
  <2>2. TypeOK' /\ OwnersAreKnown' /\ PushShape'
    BY <2>1 DEF ResourcesInv, TypeOK, OwnersAreKnown, PushShape, server
  <2>3. OwnedGood'
    BY <2>1 DEF ResourcesInv, OwnedGood, JudgeShape, Judged, ModelConfigIsSeen
  <2>4. QED
    BY <2>1, <2>2, <2>3, ServerKept DEF ResourcesInv
<1>2. CASE CollectModelConfig
  BY <1>2, ModelConfigStored DEF CollectModelConfig, ResourcesInv, TypeOK
<1>3. QED
  BY <1>1, <1>2

(* Servers change, and forget the session they had with the reconciler.    *)
LEMMA ServerBecomes ==
  ASSUME ResourcesInv, NEW u \in URLs, NEW s \in [reply : Replies, tools : ToolSets],
         Becomes(u, s), faults' \in Nat
  PROVE  ResourcesInv'
<1>1. /\ net' = [net EXCEPT ![u] = s]
      /\ UNCHANGED <<agent, owned, mcp, recent, events, uids, push, token, forgets, tool, ops>>
  BY DEF Becomes
<1>2. /\ mcpCtl' \in MCPServerCtl
      /\ mcpCtl'.queued = mcpCtl.queued /\ mcpCtl'.timer = mcpCtl.timer
      /\ mcpCtl'.fresh = mcpCtl.fresh
      /\ mcpCtl'.pc = mcpCtl.pc /\ mcpCtl'.url = mcpCtl.url
      /\ mcpCtl'.tools = mcpCtl.tools /\ mcpCtl'.discovered = mcpCtl.discovered
  <2>1. PICK knows \in BOOLEAN :
          mcpCtl' = IF mcpCtl.url = u
                      THEN [mcpCtl EXCEPT !.session = mcpCtl.session /\ knows] ELSE mcpCtl
    BY DEF Becomes
  <2>2. ASSUME NEW b \in BOOLEAN, mcpCtl' = [mcpCtl EXCEPT !.session = b]
        PROVE  /\ mcpCtl' \in MCPServerCtl
               /\ mcpCtl'.queued = mcpCtl.queued /\ mcpCtl'.timer = mcpCtl.timer
               /\ mcpCtl'.fresh = mcpCtl.fresh
               /\ mcpCtl'.pc = mcpCtl.pc /\ mcpCtl'.url = mcpCtl.url
               /\ mcpCtl'.tools = mcpCtl.tools /\ mcpCtl'.discovered = mcpCtl.discovered
    BY <2>2 DEF ResourcesInv, TypeOK, MCPServerCtl
  <2>3. (mcpCtl.session /\ knows) \in BOOLEAN
    OBVIOUS
  <2>4. QED
    BY <2>1, <2>2, <2>3 DEF ResourcesInv, TypeOK
<1>3. TypeOK'
  BY <1>1, <1>2 DEF ResourcesInv, TypeOK, owned
<1>4. ServerGood'
  BY <1>1, <1>2 DEF ResourcesInv, ServerGood, DiscoveryShape, MCPServerIsSeen,
                    LastEventIsCurrent
<1>5. OwnersAreKnown' /\ PushShape'
  BY <1>1 DEF ResourcesInv, OwnersAreKnown, PushShape, owned
<1>6. QED
  BY <1>1, <1>3, <1>4, <1>5, OwnedKept DEF ResourcesInv

LEMMA ServerSteps ==
  ASSUME ResourcesInv, ServerChanges \/ ServerRecovers
  PROVE  ResourcesInv'
<1>1. CASE ServerChanges
  <2>1. PICK u \in URLs, r \in Replies, tools \in ToolSets :
          Becomes(u, [reply |-> r, tools |-> tools]) /\ Fault
    BY <1>1 DEF ServerChanges
  <2>2. faults' \in Nat
    BY <2>1 DEF Fault, ResourcesInv, TypeOK
  <2>3. [reply |-> r, tools |-> tools] \in [reply : Replies, tools : ToolSets]
    OBVIOUS
  <2>4. QED
    BY <2>1, <2>2, <2>3, ServerBecomes
<1>2. CASE ServerRecovers
  <2>1. PICK u \in URLs, r \in Replies :
          Becomes(u, [net[u] EXCEPT !.reply = r]) /\ UNCHANGED faults
    BY <1>2, Zenon DEF ServerRecovers
  <2>2. [net[u] EXCEPT !.reply = r] \in [reply : Replies, tools : ToolSets]
    BY DEF ResourcesInv, TypeOK
  <2>3. faults' \in Nat
    BY <2>1 DEF ResourcesInv, TypeOK
  <2>4. QED
    BY <2>1, <2>2, <2>3, ServerBecomes
<1>3. QED
  BY <1>1, <1>2

(* Steps that leave the objects and the reconcilers alone. *)
LEMMA OtherSteps ==
  ASSUME ResourcesInv, TokenChanges \/ ASecondPasses \/ onMCPServer \/ onAgentDelete
  PROVE  ResourcesInv'
<1> USE DEF ResourcesInv
<1>1. UNCHANGED <<agent, owned, uids, push, mcp, mcpCtl, net, ops>>
  BY DEF TokenChanges, ASecondPasses, onMCPServer, onAgentDelete, others, owned, server
<1>2. OwnersAreKnown' /\ PushShape'
  BY <1>1 DEF OwnersAreKnown, PushShape, owned
<1>3. CASE onMCPServer
  <2>1. /\ events # <<>> /\ events' = Tail(events)
        /\ tool' \in {tool, Head(events)}
        /\ UNCHANGED <<recent, token, forgets, faults>>
    BY <1>3 DEF onMCPServer
  <2>2. /\ Head(events) \in MCPServerSpec
        /\ events' \in Seq(MCPServerSpec)
        /\ Len(events') = Len(events) - 1
        /\ events' # <<>> => events'[Len(events')] = events[Len(events)]
    BY <2>1 DEF TypeOK
  <2>3. TypeOK'
    BY <1>1, <2>1, <2>2, ResourcesAssumption DEF TypeOK, owned
  <2>4. ServerGood'
    BY <1>1, <2>1, <2>2 DEF ServerGood, DiscoveryShape, MCPServerIsSeen, LastEventIsCurrent
  <2>5. QED
    BY <1>1, <1>2, <2>3, <2>4, OwnedKept
<1>4. CASE TokenChanges \/ ASecondPasses \/ onAgentDelete
  <2>1. events' = events /\ recent' \in BOOLEAN
    BY <1>4 DEF TokenChanges, ASecondPasses, onAgentDelete, server, TypeOK
  <2>2. token' \in BOOLEAN
    BY <1>4, Zenon DEF TokenChanges, ASecondPasses, onAgentDelete, others, TypeOK
  <2>3. forgets' \in Nat /\ faults' \in Nat
    BY <1>4 DEF TokenChanges, ASecondPasses, onAgentDelete, Fault, others, TypeOK
  <2>4. tool' \in {tool, None}
    BY <1>4 DEF TokenChanges, ASecondPasses, onAgentDelete, others
  <2>5. TypeOK'
    BY <1>1, <2>1, <2>2, <2>3, <2>4 DEF TypeOK, owned
  <2>6. ServerGood'
    BY <1>1, <2>1 DEF ServerGood, DiscoveryShape, MCPServerIsSeen, LastEventIsCurrent
  <2>7. QED
    BY <1>1, <1>2, <2>5, <2>6, OwnedKept
<1>5. QED
  BY <1>3, <1>4

(* A restart leaves the objects, and queues what is there. *)
LEMMA RestartStep ==
  ASSUME ResourcesInv, Restart
  PROVE  ResourcesInv'
<1> USE DEF ResourcesInv
<1>1. /\ push' = [h \in Handlers |-> IdlePush]
      /\ mcCtl' = [IdleMC EXCEPT !.queued = mc # None]
      /\ mcpCtl' = [IdleMCP EXCEPT !.queued = mcp # None]
      /\ events' = IF mcp = None THEN <<>> ELSE <<mcp.spec>>
      /\ forgets' = 0 /\ tool' = None
      /\ UNCHANGED <<agent, secret, mc, mcp, uids, recent, net, token, ops>>
      /\ Fault
  BY Zenon DEF Restart
<1>2. push' \in [Handlers -> Push] /\ PushShape'
  BY <1>1 DEF IdlePush, Push, PushShape
<1>3. ASSUME NEW b \in BOOLEAN
      PROVE  /\ [IdleMC EXCEPT !.queued = b] \in ModelConfigCtl
             /\ [IdleMC EXCEPT !.queued = b].queued = b
             /\ [IdleMC EXCEPT !.queued = b].pc = "idle"
             /\ [IdleMC EXCEPT !.queued = b].fresh = FALSE
             /\ [IdleMCP EXCEPT !.queued = b] \in MCPServerCtl
             /\ [IdleMCP EXCEPT !.queued = b].queued = b
             /\ [IdleMCP EXCEPT !.queued = b].pc = "idle"
             /\ [IdleMCP EXCEPT !.queued = b].fresh = FALSE
             /\ [IdleMCP EXCEPT !.queued = b].discovered = ""
  BY DEF IdleMC, IdleMCP, ModelConfigCtl, MCPServerCtl
<1> DEFINE some == mc # None
           server_ == mcp # None
<1>4. some \in BOOLEAN /\ server_ \in BOOLEAN
  OBVIOUS
<1>5. mcCtl' = [IdleMC EXCEPT !.queued = some] /\ mcpCtl' = [IdleMCP EXCEPT !.queued = server_]
  BY <1>1, Zenon
<1> HIDE DEF some, server_
<1>6. /\ mcCtl' \in ModelConfigCtl /\ mcCtl'.queued = some
      /\ mcCtl'.pc = "idle" /\ mcCtl'.fresh = FALSE
      /\ mcpCtl' \in MCPServerCtl /\ mcpCtl'.queued = server_
      /\ mcpCtl'.pc = "idle" /\ mcpCtl'.fresh = FALSE /\ mcpCtl'.discovered = ""
  BY <1>3, <1>4, <1>5, Zenon
<1>7. mcp # None => mcp.spec \in MCPServerSpec
  BY DEF TypeOK, MCPServer
<1>8. /\ events' \in Seq(MCPServerSpec) /\ Len(events') <= MaxEvents
      /\ events' # <<>> => mcp # None /\ events'[Len(events')] = mcp.spec
  BY <1>1, <1>7, ResourcesAssumption
<1>9. TypeOK'
  <2>1. faults' \in Nat
    BY <1>1 DEF Fault, TypeOK
  <2>2. QED
    BY <1>1, <1>2, <1>6, <1>8, <2>1 DEF TypeOK
<1>10. OwnersAreKnown'
  BY <1>1 DEF OwnersAreKnown
<1>11. OwnedGood'
  BY <1>1, <1>6 DEF OwnedGood, JudgeShape, ModelConfigIsSeen, some
<1>12. ServerGood'
  BY <1>1, <1>6, <1>8 DEF ServerGood, DiscoveryShape, MCPServerIsSeen, LastEventIsCurrent,
     server_
<1>13. QED
  BY <1>2, <1>9, <1>10, <1>11, <1>12

-----------------------------------------------------------------------------
(* ModelConfigReconciler.                                                  *)

(* A step of the reconciler that leaves the ModelConfig but for its status *)
(* alone, and everything else.                                             *)
LEMMA ModelConfigStep ==
  ASSUME ResourcesInv, mc' \in ModelConfig \cup {None}, mcCtl' \in ModelConfigCtl,
         mc' # None => mc # None /\ mc'.owner = mc.owner,
         OwnedGood', faults' \in Nat,
         UNCHANGED <<agent, secret, server, uids, push, net, token, forgets, tool, ops>>
  PROVE  ResourcesInv'
<1>1. TypeOK'
  BY DEF ResourcesInv, TypeOK, server
<1>2. OwnersAreKnown' /\ PushShape'
  BY DEF ResourcesInv, OwnersAreKnown, PushShape
<1>3. QED
  BY <1>1, <1>2, ServerKept DEF ResourcesInv

(* The copy is fresh when it is read. *)
LEMMA ReconcileModelConfigStep ==
  ASSUME ResourcesInv, ReconcileModelConfig
  PROVE  ResourcesInv'
<1> USE DEF ResourcesInv
<1>1. UNCHANGED <<agent, secret, mc, server, uids, push, net, token, forgets, tool, ops, faults>>
  BY DEF ReconcileModelConfig
<1>2. CASE mc = None
  <2>1. mcCtl' = IdleMC
    BY <1>2 DEF ReconcileModelConfig
  <2>2. /\ mcCtl' \in ModelConfigCtl
        /\ mcCtl'.pc = "idle" /\ mcCtl'.fresh = FALSE
    BY <2>1 DEF IdleMC, ModelConfigCtl
  <2>3. OwnedGood'
    BY <1>1, <1>2, <2>2 DEF OwnedGood, JudgeShape, ModelConfigIsSeen
  <2>4. QED
    BY <1>1, <1>2, <2>2, <2>3, ModelConfigStep DEF TypeOK
<1>3. CASE mc # None
  <2>1. mc \in ModelConfig /\ mc.hash \in Keys \cup {None} /\ mc.sec \in BOOLEAN
    BY <1>3 DEF TypeOK, ModelConfig
  <2>2. mcCtl' = [queued |-> FALSE, pc |-> IF mc.sec THEN "secret" ELSE "write",
                  fresh |-> TRUE, accepted |-> "True", hash |-> mc.hash]
    BY <1>3, Zenon DEF ReconcileModelConfig
  <2>3. /\ mcCtl' \in ModelConfigCtl
        /\ mcCtl'.pc = IF mc.sec THEN "secret" ELSE "write"
        /\ mcCtl'.fresh = TRUE /\ mcCtl'.accepted = "True"
    BY <2>1, <2>2 DEF ModelConfigCtl
  <2>4. OwnedGood'
    BY <1>1, <1>3, <2>3 DEF OwnedGood, JudgeShape, Judged, ModelConfigIsSeen
  <2>5. QED
    BY <1>1, <2>3, <2>4, ModelConfigStep DEF TypeOK
<1>4. QED
  BY <1>2, <1>3

(* What is found out goes with a ModelConfig that has a Secret. *)
LEMMA ComputeSecretHashStep ==
  ASSUME ResourcesInv, computeSecretHash
  PROVE  ResourcesInv'
<1> USE DEF ResourcesInv
<1>1. UNCHANGED <<agent, secret, mc, server, uids, push, net, token, forgets, tool, ops, faults>>
  BY DEF computeSecretHash
<1>2. mcCtl.pc = "secret"
  BY DEF computeSecretHash
<1>3. /\ mcCtl' \in ModelConfigCtl
      /\ mcCtl'.pc = "write" /\ mcCtl'.fresh = mcCtl.fresh
      /\ mcCtl'.queued = mcCtl.queued
      /\ \/ mcCtl'.accepted = "False"
         \/ mcCtl'.hash \in Keys /\ mcCtl'.accepted = mcCtl.accepted
  <2>1. CASE secret = None
    <3>1. mcCtl' = [mcCtl EXCEPT !.pc = "write", !.accepted = "False"]
      BY <2>1, Zenon DEF computeSecretHash
    <3>2. mcCtl \in ModelConfigCtl
      BY DEF TypeOK
    <3>3. QED
      BY <3>1, <3>2 DEF ModelConfigCtl
  <2>2. CASE secret # None
    <3>1. secret.key \in Keys
      BY <2>2 DEF TypeOK, Secret
    <3>2. mcCtl' = [mcCtl EXCEPT !.pc = "write", !.hash = secret.key]
      BY <2>2, Zenon DEF computeSecretHash
    <3>3. QED
      BY <3>1, <3>2 DEF TypeOK, ModelConfigCtl
  <2>3. QED
    BY <2>1, <2>2
<1>4. OwnedGood'
  BY <1>1, <1>2, <1>3 DEF OwnedGood, JudgeShape, Judged, ModelConfigIsSeen
<1>5. mc' \in ModelConfig \cup {None} /\ mc' = mc /\ faults' \in Nat
  BY <1>1 DEF TypeOK
<1>6. QED
  BY <1>1, <1>3, <1>4, <1>5, ModelConfigStep

(* A status is written only to the ModelConfig it was made for. *)
LEMMA WriteModelConfigStep ==
  ASSUME ResourcesInv, WriteModelConfig
  PROVE  ResourcesInv'
<1> USE DEF ResourcesInv
<1>1. UNCHANGED <<agent, secret, server, uids, push, net, token, forgets, tool, ops>>
  BY DEF WriteModelConfig
<1>2. mcCtl.pc = "write"
  BY DEF WriteModelConfig
<1>3. faults' \in Nat
  BY DEF WriteModelConfig, Fault, TypeOK
<1>4. ASSUME NEW b \in BOOLEAN
      PROVE  /\ [IdleMC EXCEPT !.queued = b] \in ModelConfigCtl
             /\ [IdleMC EXCEPT !.queued = b].queued = b
             /\ [IdleMC EXCEPT !.queued = b].pc = "idle"
             /\ [IdleMC EXCEPT !.queued = b].fresh = FALSE
  BY DEF IdleMC, ModelConfigCtl
<1>5. CASE mc # None /\ mcCtl.fresh /\ mc' = [mc EXCEPT !.accepted = mcCtl.accepted,
                                                        !.hash = mcCtl.hash]
           /\ \E later \in BOOLEAN :
                mcCtl' = [IdleMC EXCEPT !.queued = mcCtl.queued \/ mc' # mc \/ later]
  <2>1. mc \in ModelConfig /\ Judged(mcCtl.accepted, mcCtl.hash)
    BY <1>2, <1>5 DEF TypeOK, OwnedGood, JudgeShape
  <2>2. mcCtl.accepted \in {"", "True", "False"} /\ mcCtl.hash \in Keys \cup {None}
    BY DEF TypeOK, ModelConfigCtl
  <2>3. /\ mc' \in ModelConfig /\ mc'.owner = mc.owner /\ mc'.sec = mc.sec
        /\ mc'.accepted = mcCtl.accepted /\ mc'.hash = mcCtl.hash
    BY <1>5, <2>1, <2>2 DEF ModelConfig
  <2>4. \E b \in BOOLEAN : mcCtl' = [IdleMC EXCEPT !.queued = b]
    <3>1. PICK later \in BOOLEAN :
            mcCtl' = [IdleMC EXCEPT !.queued = mcCtl.queued \/ mc' # mc \/ later]
      BY <1>5, Zenon
    <3>2. (mcCtl.queued \/ mc' # mc \/ later) \in BOOLEAN
      OBVIOUS
    <3> DEFINE b == mcCtl.queued \/ mc' # mc \/ later
    <3>3. mcCtl' = [IdleMC EXCEPT !.queued = b] /\ b \in BOOLEAN
      BY <3>1, <3>2, Zenon
    <3> HIDE DEF b
    <3>4. QED
      BY <3>3, Zenon
  <2>5. mcCtl' \in ModelConfigCtl /\ mcCtl'.pc = "idle" /\ mcCtl'.fresh = FALSE
    BY <1>4, <2>4, Zenon
  <2>6. OwnedGood'
    BY <2>1, <2>3, <2>5 DEF OwnedGood, JudgeShape, Judged, ModelConfigIsSeen
  <2>7. QED
    BY <1>1, <1>3, <1>5, <2>3, <2>5, <2>6, ModelConfigStep
<1>6. CASE mcCtl' = [IdleMC EXCEPT !.queued = TRUE] /\ UNCHANGED mc
  <2>1. /\ mcCtl' \in ModelConfigCtl /\ mcCtl'.queued = TRUE
        /\ mcCtl'.pc = "idle" /\ mcCtl'.fresh = FALSE
    BY <1>4, <1>6, Zenon
  <2>2. OwnedGood'
    BY <1>6, <2>1 DEF OwnedGood, JudgeShape, ModelConfigIsSeen
  <2>3. QED
    BY <1>1, <1>3, <1>6, <2>1, <2>2, ModelConfigStep DEF TypeOK
<1>7. QED
  BY <1>5, <1>6, Zenon DEF WriteModelConfig

-----------------------------------------------------------------------------
(* MCPServerReconciler.                                                    *)

(* A step of the reconciler that leaves everything else alone. *)
LEMMA MCPServerCtlStep ==
  ASSUME ResourcesInv, mcpCtl' \in MCPServerCtl,
         mcpCtl'.discovered = "True" => mcpCtl'.tools \in ToolSets,
         ServerGood', UNCHANGED <<others, mcp, recent, events, faults>>
  PROVE  ResourcesInv'
<1>1. TypeOK'
  BY DEF ResourcesInv, TypeOK, others, owned
<1>2. OwnersAreKnown' /\ PushShape'
  BY DEF ResourcesInv, OwnersAreKnown, PushShape, others, owned
<1>3. QED
  BY <1>1, <1>2, OwnedKept DEF ResourcesInv, others

(* A call of the discovery goes on with the address it has, or it failed.  *)
LEMMA CallStep ==
  ASSUME ResourcesInv, mcpCtl.pc \in {"headers", "initialize", "list"},
         UNCHANGED <<others, mcp, recent, events, faults>>,
         mcpCtl' \in MCPServerCtl,
         mcpCtl'.discovered = "True" => mcpCtl'.tools \in ToolSets,
         mcpCtl'.pc # "idle", mcpCtl'.url = mcpCtl.url, mcpCtl'.queued = mcpCtl.queued,
         mcpCtl'.fresh = mcpCtl.fresh
  PROVE  ResourcesInv'
<1>1. ServerGood'
  BY DEF ResourcesInv, ServerGood, DiscoveryShape, MCPServerIsSeen, LastEventIsCurrent
<1>2. QED
  BY <1>1, MCPServerCtlStep

LEMMA DiscoveryFailedStep ==
  ASSUME ResourcesInv, mcpCtl.pc \in {"headers", "initialize", "list"},
         UNCHANGED <<others, mcp, recent, events, faults>>, mcpCtl' = DiscoveryFailed
  PROVE  ResourcesInv'
<1>1. mcpCtl \in MCPServerCtl
  BY DEF ResourcesInv, TypeOK
<1>2. /\ mcpCtl' \in MCPServerCtl
      /\ mcpCtl'.discovered = "False"
      /\ mcpCtl'.pc = "write" /\ mcpCtl'.url = mcpCtl.url
      /\ mcpCtl'.queued = mcpCtl.queued /\ mcpCtl'.fresh = mcpCtl.fresh
  BY <1>1 DEF DiscoveryFailed, MCPServerCtl
<1>3. QED
  BY <1>2, CallStep

LEMMA ResolveHeadersStep ==
  ASSUME ResourcesInv, resolveHeaders
  PROVE  ResourcesInv'
<1>1. mcpCtl.pc = "headers" /\ UNCHANGED <<others, mcp, recent, events, faults>>
  BY DEF resolveHeaders
<1>2. CASE mcpCtl' = DiscoveryFailed
  BY <1>1, <1>2, DiscoveryFailedStep
<1>3. CASE mcpCtl' = [mcpCtl EXCEPT !.pc = "initialize"]
  <2>1. /\ mcpCtl \in MCPServerCtl
        /\ mcpCtl.discovered = "True" => mcpCtl.tools \in ToolSets
    BY DEF ResourcesInv, TypeOK
  <2>2. /\ mcpCtl' \in MCPServerCtl
        /\ mcpCtl'.discovered = mcpCtl.discovered /\ mcpCtl'.tools = mcpCtl.tools
        /\ mcpCtl'.pc = "initialize" /\ mcpCtl'.url = mcpCtl.url
        /\ mcpCtl'.queued = mcpCtl.queued /\ mcpCtl'.fresh = mcpCtl.fresh
    BY <1>3, <2>1 DEF MCPServerCtl
  <2>3. QED
    BY <1>1, <2>1, <2>2, CallStep
<1>4. QED
  BY <1>2, <1>3, Zenon DEF resolveHeaders

LEMMA InitializeStep ==
  ASSUME ResourcesInv, initialize
  PROVE  ResourcesInv'
<1>1. mcpCtl.pc = "initialize" /\ UNCHANGED <<others, mcp, recent, events, faults>>
  BY DEF initialize
<1>2. CASE mcpCtl' = DiscoveryFailed
  BY <1>1, <1>2, DiscoveryFailedStep
<1>3. CASE mcpCtl' = [mcpCtl EXCEPT !.pc = "list", !.session = TRUE]
  <2>1. /\ mcpCtl \in MCPServerCtl
        /\ mcpCtl.discovered = "True" => mcpCtl.tools \in ToolSets
    BY DEF ResourcesInv, TypeOK
  <2>2. /\ mcpCtl' \in MCPServerCtl
        /\ mcpCtl'.discovered = mcpCtl.discovered /\ mcpCtl'.tools = mcpCtl.tools
        /\ mcpCtl'.pc = "list" /\ mcpCtl'.url = mcpCtl.url
        /\ mcpCtl'.queued = mcpCtl.queued /\ mcpCtl'.fresh = mcpCtl.fresh
    BY <1>3, <2>1 DEF MCPServerCtl
  <2>3. QED
    BY <1>1, <2>1, <2>2, CallStep
<1>4. QED
  BY <1>2, <1>3, Zenon DEF initialize

LEMMA ListToolsStep ==
  ASSUME ResourcesInv, listTools
  PROVE  ResourcesInv'
<1>1. mcpCtl.pc = "list" /\ UNCHANGED <<others, mcp, recent, events, faults>>
  BY DEF listTools
<1>2. CASE mcpCtl' = DiscoveryFailed
  BY <1>1, <1>2, DiscoveryFailedStep
<1>3. CASE mcpCtl' = [mcpCtl EXCEPT !.pc = "write", !.discovered = "True",
                                    !.tools = net[mcpCtl.url].tools]
  <2>1. mcpCtl \in MCPServerCtl /\ net[mcpCtl.url].tools \in ToolSets
    BY <1>1 DEF ResourcesInv, TypeOK, ServerGood, DiscoveryShape
  <2>2. /\ mcpCtl' \in MCPServerCtl
        /\ mcpCtl'.tools = net[mcpCtl.url].tools
        /\ mcpCtl'.pc = "write" /\ mcpCtl'.url = mcpCtl.url
        /\ mcpCtl'.queued = mcpCtl.queued /\ mcpCtl'.fresh = mcpCtl.fresh
    BY <1>3, <2>1 DEF MCPServerCtl
  <2>3. QED
    BY <1>1, <2>1, <2>2, CallStep
<1>4. QED
  BY <1>2, <1>3, Zenon DEF listTools

(* The copy is fresh when it is read, and its address is that of the spec. *)
LEMMA ReconcileMCPServerStep ==
  ASSUME ResourcesInv, ReconcileMCPServer
  PROVE  ResourcesInv'
<1> USE DEF ResourcesInv
<1>1. /\ mcpCtl.pc = "idle" /\ mcpCtl.fresh = FALSE
      /\ mcpCtl \in MCPServerCtl
      /\ mcpCtl.discovered = "True" => mcpCtl.tools \in ToolSets
      /\ UNCHANGED <<others, mcp, recent, events, faults>>
  BY DEF ReconcileMCPServer, ServerGood, DiscoveryShape, TypeOK, MCPServerCtl
<1>2. CASE mcp = None
  <2>1. mcpCtl' = [mcpCtl EXCEPT !.queued = FALSE]
    BY <1>2, Zenon DEF ReconcileMCPServer
  <2>2. /\ mcpCtl' \in MCPServerCtl
        /\ mcpCtl'.discovered = mcpCtl.discovered /\ mcpCtl'.tools = mcpCtl.tools
        /\ mcpCtl'.pc = "idle" /\ mcpCtl'.fresh = FALSE
    BY <1>1, <2>1 DEF MCPServerCtl
  <2>3. ServerGood'
    BY <1>1, <1>2, <2>2 DEF ServerGood, DiscoveryShape, MCPServerIsSeen, LastEventIsCurrent
  <2>4. QED
    BY <1>1, <2>2, <2>3, MCPServerCtlStep
<1>3. CASE mcp # None
  <2> DEFINE pc == IF mcp.spec.type = "Stdio" \/ ~validateMCPServer(mcp.spec)
                     THEN "write" ELSE "headers"
             url == IF mcp.spec.type = "Remote" THEN mcp.spec.config ELSE None
  <2>1. mcpCtl' = [mcpCtl EXCEPT !.queued = FALSE, !.fresh = TRUE, !.session = FALSE,
                                 !.pc = pc, !.url = url,
                                 !.tools = mcp.tools, !.discovered = mcp.discovered]
    BY <1>3, Zenon DEF ReconcileMCPServer
  <2>2. /\ mcp \in MCPServer /\ mcp.spec \in MCPServerSpec
        /\ mcp.tools \in ToolSets \cup {NoTools}
        /\ mcp.discovered \in {"", "True", "False"}
        /\ mcp.discovered = "True" => mcp.tools \in ToolSets
    BY <1>3 DEF TypeOK, MCPServer
  <2>3. /\ pc \in {"write", "headers"}
        /\ url \in URLs \cup {None}
        /\ pc = "headers" => url \in URLs
    BY <2>2 DEF MCPServerSpec, validateMCPServer
  <2>4. url = AddressOf(mcp.spec)
    BY DEF AddressOf
  <2> HIDE DEF pc, url
  <2>5. /\ mcpCtl' \in MCPServerCtl
        /\ mcpCtl'.discovered = mcp.discovered /\ mcpCtl'.tools = mcp.tools
        /\ mcpCtl'.pc = pc /\ mcpCtl'.fresh = TRUE /\ mcpCtl'.url = url
    BY <1>1, <2>1, <2>2, <2>3 DEF MCPServerCtl
  <2>6. ServerGood'
    BY <1>1, <1>3, <2>3, <2>4, <2>5 DEF ServerGood, DiscoveryShape, MCPServerIsSeen,
       LastEventIsCurrent
  <2>7. QED
    BY <1>1, <2>2, <2>5, <2>6, MCPServerCtlStep
<1>4. QED
  BY <1>2, <1>3

LEMMA RequeueAfterStep ==
  ASSUME ResourcesInv, RequeueAfter
  PROVE  ResourcesInv'
<1> USE DEF ResourcesInv
<1>1. /\ mcpCtl' = [mcpCtl EXCEPT !.timer = FALSE, !.queued = TRUE]
      /\ recent' = FALSE
      /\ UNCHANGED <<others, mcp, events, faults>>
  BY DEF RequeueAfter
<1>2. mcpCtl \in MCPServerCtl
  BY DEF TypeOK
<1>3. /\ mcpCtl' \in MCPServerCtl
      /\ mcpCtl'.queued /\ mcpCtl'.fresh = mcpCtl.fresh
      /\ mcpCtl'.pc = mcpCtl.pc /\ mcpCtl'.url = mcpCtl.url
      /\ mcpCtl'.discovered = mcpCtl.discovered /\ mcpCtl'.tools = mcpCtl.tools
  BY <1>1, <1>2 DEF MCPServerCtl
<1>4. TypeOK'
  BY <1>1, <1>3 DEF TypeOK, others, owned
<1>5. ServerGood'
  BY <1>1, <1>3 DEF ServerGood, DiscoveryShape, MCPServerIsSeen, LastEventIsCurrent
<1>6. OwnersAreKnown' /\ PushShape'
  BY <1>1 DEF OwnersAreKnown, PushShape, others, owned
<1>7. QED
  BY <1>1, <1>4, <1>5, <1>6, OwnedKept DEF others

(* What is left of a reconciliation that is over. *)
LEMMA DoneDoes ==
  ASSUME NEW timer \in BOOLEAN, NEW queued \in BOOLEAN,
         mcpCtl' = [IdleMCP EXCEPT !.timer = timer, !.queued = queued]
  PROVE  /\ mcpCtl' \in MCPServerCtl
         /\ mcpCtl'.timer = timer /\ mcpCtl'.queued = queued
         /\ mcpCtl'.pc = "idle" /\ mcpCtl'.fresh = FALSE /\ mcpCtl'.discovered = ""
  BY DEF IdleMCP, MCPServerCtl

(* The status is written to the server it was made for, and the key is     *)
(* queued by the event, or the timer set.                                  *)
LEMMA WriteMCPServerStep ==
  ASSUME ResourcesInv, WriteMCPServer
  PROVE  ResourcesInv'
<1> USE DEF ResourcesInv
<1> DEFINE written == [mcp EXCEPT !.tools = mcpCtl.tools, !.discovered = mcpCtl.discovered]
           again == mcpCtl.timer \/ Again
           queued == mcpCtl.queued \/ FALSE
           timer == mcpCtl.timer \/ FALSE
           woken == mcpCtl.queued \/ TRUE
<1>1. /\ again \in BOOLEAN /\ queued \in BOOLEAN /\ timer \in BOOLEAN /\ woken \in BOOLEAN
      /\ woken
      /\ Again => again
  OBVIOUS
<1>2. UNCHANGED others /\ faults' \in Nat
  BY DEF WriteMCPServer, Fault, TypeOK
<1>3. \/ /\ MayWrite
         /\ mcpCtl' = [IdleMCP EXCEPT !.timer = again, !.queued = queued]
         /\ UNCHANGED <<mcp, recent, events>>
      \/ /\ MayWrite
         /\ Len(events) < MaxEvents
         /\ mcp' = written /\ recent' = TRUE
         /\ events' = Append(events, mcp.spec)
         /\ mcpCtl' = [IdleMCP EXCEPT !.timer = again, !.queued = woken]
      \/ /\ mcpCtl' = [IdleMCP EXCEPT !.timer = timer, !.queued = woken]
         /\ UNCHANGED <<mcp, recent, events>>
  BY Zenon DEF WriteMCPServer
<1> HIDE DEF again, queued, timer, woken
<1>4. ASSUME NEW t \in BOOLEAN, NEW q \in BOOLEAN,
             mcpCtl' = [IdleMCP EXCEPT !.timer = t, !.queued = q],
             UNCHANGED <<mcp, recent, events>>,
             q \/ (mcp # None /\ validateMCPServer(mcp.spec) => t)
      PROVE  ResourcesInv'
  <2>1. /\ mcpCtl' \in MCPServerCtl
        /\ mcpCtl'.timer = t /\ mcpCtl'.queued = q
        /\ mcpCtl'.pc = "idle" /\ mcpCtl'.fresh = FALSE /\ mcpCtl'.discovered = ""
    BY <1>4, DoneDoes
  <2>2. TypeOK'
    BY <1>2, <1>4, <2>1 DEF TypeOK, others, owned
  <2>3. ServerGood'
    BY <1>4, <2>1 DEF ServerGood, DiscoveryShape, MCPServerIsSeen, LastEventIsCurrent
  <2>4. OwnersAreKnown' /\ PushShape'
    BY <1>2 DEF OwnersAreKnown, PushShape, others, owned
  <2>5. QED
    BY <1>2, <2>2, <2>3, <2>4, OwnedKept DEF others
<1>5. CASE /\ MayWrite
           /\ mcpCtl' = [IdleMCP EXCEPT !.timer = again, !.queued = queued]
           /\ UNCHANGED <<mcp, recent, events>>
  BY <1>1, <1>4, <1>5 DEF Again
<1>6. CASE /\ mcpCtl' = [IdleMCP EXCEPT !.timer = timer, !.queued = woken]
           /\ UNCHANGED <<mcp, recent, events>>
  BY <1>1, <1>4, <1>6
<1>7. CASE /\ MayWrite
           /\ Len(events) < MaxEvents
           /\ mcp' = written /\ recent' = TRUE
           /\ events' = Append(events, mcp.spec)
           /\ mcpCtl' = [IdleMCP EXCEPT !.timer = again, !.queued = woken]
  <2>1. mcp # None /\ mcp \in MCPServer /\ mcp.spec \in MCPServerSpec
    BY <1>7 DEF MayWrite, TypeOK, MCPServer
  <2>2. /\ mcpCtl.tools \in ToolSets \cup {NoTools}
        /\ mcpCtl.discovered \in {"", "True", "False"}
        /\ mcpCtl.discovered = "True" => mcpCtl.tools \in ToolSets
    BY DEF TypeOK, MCPServerCtl
  <2>3. /\ mcp' \in MCPServer /\ mcp'.spec = mcp.spec
        /\ mcp'.tools = mcpCtl.tools /\ mcp'.discovered = mcpCtl.discovered
    BY <1>7, <2>1, <2>2 DEF MCPServer
  <2>4. /\ mcpCtl' \in MCPServerCtl
        /\ mcpCtl'.queued = woken
        /\ mcpCtl'.pc = "idle" /\ mcpCtl'.fresh = FALSE /\ mcpCtl'.discovered = ""
    BY <1>1, <1>7, DoneDoes
  <2>5. /\ events' \in Seq(MCPServerSpec) /\ Len(events') <= MaxEvents
        /\ events' # <<>> /\ events'[Len(events')] = mcp.spec
    BY <1>7, <2>1, ResourcesAssumption DEF TypeOK
  <2>6. TypeOK'
    BY <1>2, <1>7, <2>2, <2>3, <2>4, <2>5 DEF TypeOK, others, owned
  <2>7. ServerGood'
    BY <1>1, <2>3, <2>4, <2>5 DEF ServerGood, DiscoveryShape, MCPServerIsSeen,
       LastEventIsCurrent
  <2>8. OwnersAreKnown' /\ PushShape'
    BY <1>2 DEF OwnersAreKnown, PushShape, others, owned
  <2>9. QED
    BY <1>2, <2>6, <2>7, <2>8, OwnedKept DEF others
<1>8. QED
  BY <1>3, <1>5, <1>6, <1>7

-----------------------------------------------------------------------------
(* The theorems.                                                           *)

\* Nothing is there at first.
LEMMA ResourcesInitInv == Init => ResourcesInv
<1> SUFFICES ASSUME Init PROVE ResourcesInv
  OBVIOUS
<1> USE ResourcesAssumption
<1>1. /\ IdlePush \in Push /\ IdlePush.pc = "idle"
      /\ IdleMC \in ModelConfigCtl /\ IdleMC.pc = "idle" /\ ~IdleMC.fresh
      /\ IdleMCP \in MCPServerCtl /\ IdleMCP.pc = "idle" /\ ~IdleMCP.fresh
      /\ IdleMCP.discovered = ""
  BY DEF IdlePush, Push, IdleMC, ModelConfigCtl, IdleMCP, MCPServerCtl
<1>2. net \in [URLs -> [reply : Replies, tools : ToolSets]]
  BY DEF Init
<1>3. TypeOK
  <2>1. /\ agent = None /\ secret = None /\ mc = None /\ mcp = None
        /\ uids = 0 /\ ops = 0 /\ faults = 0
        /\ push = [h \in Handlers |-> IdlePush]
        /\ mcCtl = IdleMC /\ mcpCtl = IdleMCP
        /\ recent = FALSE /\ token = TRUE
        /\ events = <<>> /\ forgets = 0 /\ tool = None
    BY DEF Init
  <2>2. events \in Seq(MCPServerSpec) /\ Len(events) <= MaxEvents
    BY <2>1
  <2>3. QED
    BY <1>1, <1>2, <2>1, <2>2 DEF TypeOK
<1>4. PushShape /\ OwnersAreKnown
  BY <1>1 DEF Init, PushShape, OwnersAreKnown
<1>5. OwnedGood
  BY <1>1 DEF Init, OwnedGood, JudgeShape, ModelConfigIsSeen
<1>6. ServerGood
  BY <1>1 DEF Init, ServerGood, DiscoveryShape, MCPServerIsSeen, LastEventIsCurrent
<1>7. QED
  BY <1>3, <1>4, <1>5, <1>6 DEF ResourcesInv

\* Every step keeps the invariant.
LEMMA ResourcesStepInv == ResourcesInv /\ [Next]_vars => ResourcesInv'
<1> SUFFICES ASSUME ResourcesInv, [Next]_vars PROVE ResourcesInv'
  OBVIOUS
<1>1. CASE Users
  BY <1>1, PushAgentStep, DeleteAgentStep, ModelConfigHandlers, MCPServerHandlers DEF Users
<1>2. CASE Pushes
  BY <1>2, UpsertSecretStep, PushModelConfigStep, PushMCPServerStep DEF Pushes
<1>3. CASE Cluster
  BY <1>3, CollectorSteps DEF Cluster
<1>4. CASE World
  BY <1>4, ServerSteps, OtherSteps, RestartStep DEF World
<1>5. CASE ModelConfigSteps
  BY <1>5, ReconcileModelConfigStep, ComputeSecretHashStep, WriteModelConfigStep
     DEF ModelConfigSteps
<1>6. CASE MCPServerSteps
  BY <1>6, ReconcileMCPServerStep, ResolveHeadersStep, InitializeStep, ListToolsStep,
     WriteMCPServerStep DEF MCPServerSteps
<1>7. CASE RequeueAfter \/ onMCPServer \/ onAgentDelete
  BY <1>7, RequeueAfterStep, OtherSteps
<1>8. CASE UNCHANGED vars
  BY <1>8 DEF vars, ResourcesInv, TypeOK, PushShape, OwnersAreKnown, OwnedGood, JudgeShape,
     Judged, ModelConfigIsSeen, ServerGood, DiscoveryShape, MCPServerIsSeen,
     LastEventIsCurrent
<1>9. QED
  BY <1>1, <1>2, <1>3, <1>4, <1>5, <1>6, <1>7, <1>8 DEF Next

LEMMA ResourcesInvariant == Spec => []ResourcesInv
  BY ResourcesInitInv, ResourcesStepInv, PTL DEF Spec

(* Every object, push and reconciler has its type, and a server that is    *)
(* said to be discovered has tools (mcpserver_controller.go:118-141).      *)
THEOREM ResourcesTypeCorrect == Spec => []TypeOK
<1>1. ResourcesInv => TypeOK
  BY DEF ResourcesInv
<1>2. QED
  BY <1>1, ResourcesInvariant, PTL

(* A ModelConfig that the reconciler is done with has been judged as it    *)
(* is, whoever wrote it while the reconciler was at work                   *)
(* (modelconfig_controller.go:33-92).                                      *)
THEOREM ModelConfigsAreSeen == Spec => []ModelConfigIsSeen
<1>1. ResourcesInv => ModelConfigIsSeen
  BY DEF ResourcesInv, OwnedGood
<1>2. QED
  BY <1>1, ResourcesInvariant, PTL

(* A valid MCPServer is asked for its tools sooner or later: no failure,   *)
(* conflict or restart leaves its key neither queued, nor being worked on, *)
(* nor waiting for the timer (mcpserver_controller.go:82-86, 118-141).     *)
THEOREM MCPServersAreSeen == Spec => []MCPServerIsSeen
<1>1. ResourcesInv => MCPServerIsSeen
  BY DEF ResourcesInv, ServerGood
<1>2. QED
  BY <1>1, ResourcesInvariant, PTL

(* What the watcher is given last is what is stored                        *)
(* (config_watcher.go:133-150).                                            *)
THEOREM LastEventsAreCurrent == Spec => []LastEventIsCurrent
<1>1. ResourcesInv => LastEventIsCurrent
  BY DEF ResourcesInv, ServerGood
<1>2. QED
  BY <1>1, ResourcesInvariant, PTL

(* The tools in a status were discovered at the address that the spec has: *)
(* the status is written only if the spec is the one that was read, and    *)
(* that is where the reconciler has asked (mcpserver_controller.go:101-141). *)
THEOREM ToolsComeFromSpec == Spec => ToolsAreOfSpec
<1> DEFINE P == \A u \in URLs :
                  /\ mcp # None /\ mcp' # None
                  /\ mcp'.tools # mcp.tools
                  /\ mcpCtl.url = u
                  => mcp'.spec = [type |-> "Remote", config |-> u]
<1>1. ResourcesInv /\ [Next]_vars => [P]_vars
  <2> SUFFICES ASSUME ResourcesInv, Next, NEW u \in URLs,
                      mcp # None, mcp' # None, mcp'.tools # mcp.tools, mcpCtl.url = u
               PROVE  mcp'.spec = [type |-> "Remote", config |-> u]
    BY DEF vars
  <2>1. mcp \in MCPServer /\ mcp.spec \in MCPServerSpec
    BY DEF ResourcesInv, TypeOK, MCPServer
  <2>2. CASE WriteMCPServer
    <3>1. MayWrite /\ mcp' = [mcp EXCEPT !.tools = mcpCtl.tools,
                                         !.discovered = mcpCtl.discovered]
      BY <2>2, Zenon DEF WriteMCPServer
    <3>2. mcp'.spec = mcp.spec
      BY <2>1, <3>1 DEF MCPServer
    <3>3. AddressOf(mcp.spec) = u /\ u # None
      BY <3>1, StoredIsSome DEF MayWrite, ResourcesInv, ServerGood, DiscoveryShape
    <3>4. mcp.spec.type = "Remote" /\ mcp.spec.config = u
      BY <3>3 DEF AddressOf
    <3>5. QED
      BY <2>1, <3>2, <3>4 DEF MCPServerSpec
  <2>3. ASSUME NEW s \in MCPServer, mcp' = s, s.tools = mcp.tools
        PROVE  FALSE
    BY <2>3
  <2>4. CASE \E h \in Handlers : pushMCPServer(h)
    <3>1. PICK h \in Handlers : pushMCPServer(h)
      BY <2>4
    <3>2. /\ mcp' = [mcp EXCEPT !.spec = buildMCPServerFromPush(push[h].req)]
          /\ push[h].req.url # None
      BY <3>1, Zenon DEF pushMCPServer, Lost, StoreMCPServer, server
    <3>3. push[h].req \in PushAgentRequest
      BY <3>1, ResourcesAssumption DEF pushMCPServer, ResourcesInv, PushShape
    <3>4. buildMCPServerFromPush(push[h].req) \in MCPServerSpec
      BY <3>2, <3>3 DEF buildMCPServerFromPush, MCPServerSpec, PushAgentRequest
    <3>5. QED
      BY <2>3, <3>2, <3>4, RespecifiedType DEF ResourcesInv
  <2>5. CASE patchMCPServer
    <3>1. PICK spec \in Posted : mcp' = [mcp EXCEPT !.spec = spec]
      BY <2>5, Zenon DEF patchMCPServer, StoreMCPServer
    <3>2. QED
      BY <2>3, <3>1, RespecifiedType, ResourcesAssumption DEF ResourcesInv
  <2>6. CASE createMCPServer \/ deleteMCPServer
    BY <2>6 DEF createMCPServer, deleteMCPServer
  <2>7. CASE UNCHANGED mcp
    BY <2>7
  <2>8. QED
    BY <2>2, <2>4, <2>5, <2>6, <2>7 DEF Next, Users, Pushes, Cluster, World, ModelConfigSteps,
       MCPServerSteps, pushAgent, upsertSecret, pushModelConfig, Lost, deleteAgent,
       createModelConfig, patchModelConfig, deleteModelConfig, CollectSecret,
       CollectModelConfig, ServerChanges, ServerRecovers, Becomes, TokenChanges,
       ASecondPasses, Restart, ReconcileModelConfig, computeSecretHash, WriteModelConfig,
       ReconcileMCPServer, resolveHeaders, initialize, listTools, RequeueAfter, onMCPServer,
       onAgentDelete, server, others
<1>2. QED
  BY <1>1, ResourcesInvariant, PTL DEF Spec, ToolsAreOfSpec

(* Nobody changes the owner of what is there. *)
LEMMA OwnersAreKept ==
  ASSUME ResourcesInv, Next
  PROVE  /\ secret # None /\ secret' # None => secret'.owner = secret.owner
         /\ mc # None /\ mc' # None => mc'.owner = mc.owner
<1>1. /\ secret # None => secret \in Secret
      /\ mc # None => mc \in ModelConfig
  BY DEF ResourcesInv, TypeOK
<1>2. CASE UNCHANGED <<secret, mc>>
  BY <1>2
<1>3. ASSUME NEW h \in Handlers, upsertSecret(h)
      PROVE  /\ secret # None /\ secret' # None => secret'.owner = secret.owner
             /\ UNCHANGED mc
  <2>1. UNCHANGED mc /\ (secret # None =>
          secret' = secret \/ secret' = [secret EXCEPT !.key = push[h].req.apiKey])
    BY <1>3 DEF upsertSecret, Lost
  <2>2. ASSUME NEW k, secret # None PROVE [secret EXCEPT !.key = k].owner = secret.owner
    BY <1>1, <2>2 DEF Secret
  <2>3. QED
    BY <2>1, <2>2
<1>4. ASSUME NEW h \in Handlers, pushModelConfig(h)
      PROVE  /\ mc # None /\ mc' # None => mc'.owner = mc.owner
             /\ UNCHANGED secret
  <2>1. UNCHANGED secret /\ (mc # None => \E m, s :
          mc' = mc \/ mc' = [mc EXCEPT !.model = m, !.sec = s])
    BY <1>4, Zenon DEF pushModelConfig, Lost, StoreModelConfig
  <2>2. ASSUME NEW m, NEW s, mc # None
        PROVE  [mc EXCEPT !.model = m, !.sec = s].owner = mc.owner
    BY <1>1, <2>2 DEF ModelConfig
  <2>3. QED
    BY <2>1, <2>2
<1>5. CASE patchModelConfig
  <2>1. PICK m \in Models : mc' = [mc EXCEPT !.model = m]
    BY <1>5, Zenon DEF patchModelConfig, StoreModelConfig
  <2>2. UNCHANGED secret /\ mc # None
    BY <1>5 DEF patchModelConfig
  <2>3. QED
    BY <1>1, <2>1, <2>2 DEF ModelConfig
<1>6. CASE WriteModelConfig
  <2>1. \/ mc # None /\ mc' = [mc EXCEPT !.accepted = mcCtl.accepted, !.hash = mcCtl.hash]
        \/ UNCHANGED mc
    BY <1>6, Zenon DEF WriteModelConfig
  <2>2. UNCHANGED secret
    BY <1>6 DEF WriteModelConfig
  <2>3. QED
    BY <1>1, <2>1, <2>2 DEF ModelConfig
<1>7. CASE createModelConfig \/ deleteModelConfig \/ CollectModelConfig
  BY <1>7 DEF createModelConfig, deleteModelConfig, CollectModelConfig, StoreModelConfig
<1>8. CASE CollectSecret
  BY <1>8 DEF CollectSecret
<1>9. QED
  BY <1>2, <1>3, <1>4, <1>5, <1>6, <1>7, <1>8 DEF Next, Users, Pushes, Cluster, World,
     ModelConfigSteps, MCPServerSteps, pushAgent, pushMCPServer, Lost, deleteAgent,
     createMCPServer, patchMCPServer, deleteMCPServer, ServerChanges, ServerRecovers, Becomes,
     TokenChanges, ASecondPasses, Restart, ReconcileModelConfig, computeSecretHash,
     ReconcileMCPServer, resolveHeaders, initialize, listTools, WriteMCPServer, RequeueAfter,
     onMCPServer, onAgentDelete, owned, others

(* The agent there is after a step is the one there was, or has a UID that *)
(* nobody has had.                                                         *)
LEMMA UIDsAreNew ==
  ASSUME ResourcesInv, Next
  PROVE  /\ Living' \subseteq Living \cup {uids + 1}
         /\ uids \in Nat
<1>1. agent' = None \/ agent' = agent \/ agent'.uid \in Living \cup {uids + 1}
  <2>1. ASSUME NEW h \in Handlers, pushAgent(h)
        PROVE  agent'.uid \in Living \cup {uids + 1}
    <3>1. PICK t : agent' = [uid |-> uids', tools |-> t]
      BY <2>1, Zenon DEF pushAgent
    <3>2. uids' = IF agent = None THEN uids + 1 ELSE uids
      BY <2>1, Zenon DEF pushAgent
    <3>3. agent # None => agent.uid = uids
      BY DEF ResourcesInv, OwnersAreKnown
    <3>4. agent'.uid = uids'
      BY <3>1
    <3>5. QED
      BY <3>2, <3>3, <3>4 DEF Living
  <2>2. CASE deleteAgent
    BY <2>2 DEF deleteAgent
  <2>3. CASE UNCHANGED agent
    BY <2>3
  <2>4. QED
    BY <2>1, <2>2, <2>3 DEF Next, Users, Pushes, Cluster, World, ModelConfigSteps,
       MCPServerSteps, upsertSecret, pushModelConfig, pushMCPServer, createModelConfig,
       patchModelConfig, deleteModelConfig, createMCPServer, patchMCPServer, deleteMCPServer,
       CollectSecret, CollectModelConfig, ServerChanges, ServerRecovers, Becomes,
       TokenChanges, ASecondPasses, Restart, ReconcileModelConfig, computeSecretHash,
       WriteModelConfig, ReconcileMCPServer, resolveHeaders, initialize, listTools,
       WriteMCPServer, RequeueAfter, onMCPServer, onAgentDelete, others
<1>2. uids \in Nat
  BY DEF ResourcesInv, TypeOK
<1>3. QED
  BY <1>1, <1>2 DEF Living

(* A key or a ModelConfig that has lost its agent stays without one until  *)
(* it is removed, even if an agent of that name is pushed again meanwhile  *)
(* (agent_handler.go:217-227, 523-534).                                    *)
THEOREM OrphansAreNotAdopted == Spec => OrphansStayOrphans
<1> DEFINE P == /\ Collectable(secret) => secret' = None \/ Collectable(secret)'
                /\ Collectable(mc) => mc' = None \/ Collectable(mc)'
<1>1. ResourcesInv /\ [Next]_vars => [P]_vars
  <2> SUFFICES ASSUME ResourcesInv, Next PROVE P
    OBVIOUS
  <2>1. /\ secret # None => secret.owner \in 1 .. uids
        /\ mc # None => mc.owner \in 0 .. uids
    BY DEF ResourcesInv, OwnersAreKnown
  <2>2. QED
    BY <2>1, OwnersAreKept, UIDsAreNew DEF Collectable
<1>2. QED
  BY <1>1, ResourcesInvariant, PTL DEF Spec, OrphansStayOrphans
=============================================================================
