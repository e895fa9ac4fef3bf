----------------------------- MODULE Resources ------------------------------
(***************************************************************************)
(* The objects a push writes after the Agent, and what becomes of them:    *)
(*   - the Secret with the model's API key and the ModelConfig, owned by   *)
(*     the Agent, and ModelConfigReconciler, which validates the latter;   *)
(*   - the MCPServer of its tools, which nobody owns, MCPServerReconciler, *)
(*     which asks the server for its tools, and ConfigPushWatcher, which   *)
(*     makes the server's spec the TOOL snapshot of the agent.             *)
(* One agent name with one tool server.  How an Agent goes through its     *)
(* finalizer is in AgentWorkload, how a snapshot reaches the data plane in *)
(* ConfigPush: here the first is one step and the second none.             *)
(*                                                                         *)
(* Every object is written back under optimistic concurrency: a handler's  *)
(* Get and Update are one step that may fail, a reconciler keeps its copy  *)
(* over several calls and may write only while the copy is fresh.  An      *)
(* Update that changes nothing is no event.                                *)
(***************************************************************************)
EXTENDS Integers, Sequences, FiniteSets

CONSTANTS
    Handlers,       \* pushes that may be under way at once
    Requests,       \* what they carry
    Keys,           \* model API keys
    Models,         \* provider, model and options
    URLs,           \* addresses of MCP servers
    AuthURLs,       \* the ones that are sent a header from a Secret
    ToolSets,       \* lists of tools that a server may advertise
    Offered,        \* what the server at each address advertises at first
    Replies,        \* what may come back for a JSON-RPC request, as messages
    Posted,         \* the specs that are created or patched over REST
    EnableWebhook,  \* --enable-webhook
    MaxOps,         \* bound on what users do
    MaxFaults,      \* bound on failures and on what servers and Secrets undergo
    MaxEvents,      \* bound on MCPServer events that are not delivered
    NoTools,        \* status.discoveredTools of a server nobody has asked
    None

(* Spec.Type and Spec.Remote.URL, or Spec.Stdio.Command, of an MCPServer;  *)
(* the config is None if the part that belongs to the type is missing.     *)
Command == "command"
MCPServerSpec == [type : {"Remote"}, config : URLs \cup {None}]
                   \cup [type : {"Stdio"}, config : {Command, None}]

(* The stored objects.  An owner is the UID of the owner reference, or 0.  *)
Agent == [uid : Nat, tools : BOOLEAN]
Secret == [owner : Nat, key : Keys]
ModelConfig == [owner : Nat, model : Models, sec : BOOLEAN,
                accepted : {"", "True", "False"}, hash : Keys \cup {None}]
MCPServer == [spec : MCPServerSpec, tools : ToolSets \cup {NoTools},
              discovered : {"", "True", "False"}]

(* A push: its kind, its model and the key with it, the server it names.   *)
PushAgentRequest == [image : BOOLEAN, model : Models \cup {None},
                     apiKey : Keys \cup {None}, url : URLs \cup {None}]

(* AgentValidator's counterparts for MCPServer and ModelConfig.  That of   *)
(* ModelConfig refuses nothing that the CRD's schema lets through:         *)
(* provider and model are required there and the key has a default.        *)
validateMCPServer(spec) == spec.config # None

ASSUME ResourcesAssumption ==
    /\ Requests \subseteq PushAgentRequest
    /\ AuthURLs \subseteq URLs
    /\ Offered \in [URLs -> ToolSets]
    /\ Replies \subseteq Seq({"notification", "result", "error"})
    /\ Posted \subseteq MCPServerSpec
    /\ EnableWebhook \in BOOLEAN
    /\ MaxOps \in Nat /\ MaxFaults \in Nat /\ MaxEvents \in Nat \ {0}
    /\ None \notin Keys \cup Models \cup URLs \cup {Command} \cup Agent \cup Secret
                     \cup ModelConfig \cup MCPServer \cup MCPServerSpec \cup Requests
    /\ NoTools \notin ToolSets

VARIABLES
    agent, secret, mc, mcp,  \* the stored objects, or None
    uids,      \* UIDs given to Agents so far
    push,      \* each push: where it is, what it carries, the agent it has written
    mcCtl,     \* ModelConfigReconciler
    mcpCtl,    \* MCPServerReconciler
    recent,    \* the MCPServer's status was written within the running second
    net,       \* what the server at each address answers and advertises
    token,     \* the Secret that headers are taken from exists
    events,    \* MCPServer informer: specs that onMCPServer has not been given
    forgets,   \* Agent informer: deletions that onAgentDelete has not been given
    tool,      \* the TOOL snapshot of the agent, or None
    ops, faults

owned == <<secret, mc, mcCtl>>
server == <<mcp, mcpCtl, recent, events>>
vars == <<agent, secret, mc, mcp, uids, push, mcCtl, mcpCtl, recent, net, token,
          events, forgets, tool, ops, faults>>

(* A push under way, and what the two reconcilers work with.               *)
Push == [pc : {"idle", "secret", "modelconfig", "mcpserver"},
         req : Requests \cup {None}, owner : Nat]
ModelConfigCtl == [queued : BOOLEAN, pc : {"idle", "secret", "write"}, fresh : BOOLEAN,
                   accepted : {"", "True", "False"}, hash : Keys \cup {None}]
MCPServerCtl == [queued : BOOLEAN, timer : BOOLEAN, fresh : BOOLEAN, session : BOOLEAN,
                 pc : {"idle", "headers", "initialize", "list", "write"},
                 url : URLs \cup {None}, tools : ToolSets \cup {NoTools},
                 discovered : {"", "True", "False"}]

TypeOK ==
    /\ agent \in Agent \cup {None}
    /\ secret \in Secret \cup {None}
    /\ mc \in ModelConfig \cup {None}
    /\ mcp \in MCPServer \cup {None}
    /\ uids \in Nat /\ ops \in Nat /\ faults \in Nat
    /\ push \in [Handlers -> Push]
    /\ mcCtl \in ModelConfigCtl
    /\ mcpCtl \in MCPServerCtl
    /\ recent \in BOOLEAN /\ token \in BOOLEAN
    /\ net \in [URLs -> [reply : Replies, tools : ToolSets]]
    /\ events \in Seq(MCPServerSpec) /\ Len(events) <= MaxEvents
    /\ forgets \in Nat
    /\ tool \in MCPServerSpec \cup {None}
    /\ mcp # None /\ mcp.discovered = "True" => mcp.tools \in ToolSets
    /\ mcpCtl.discovered = "True" => mcpCtl.tools \in ToolSets

IdlePush == [pc |-> "idle", req |-> None, owner |-> 0]
IdleMC == [queued |-> FALSE, pc |-> "idle", fresh |-> FALSE, accepted |-> "", hash |-> None]
IdleMCP == [queued |-> FALSE, timer |-> FALSE, fresh |-> FALSE, session |-> FALSE,
            pc |-> "idle", url |-> None, tools |-> NoTools, discovered |-> ""]

(* parseSSE: the first message of a stream that carries a result or an     *)
(* error is the response; a stream without one is a failed call.  (A plain *)
(* JSON response is the stream of one message.)                            *)
parseSSE(stream) ==
    LET answers == {i \in 1 .. Len(stream) : stream[i] \in {"result", "error"}}
    IN  IF answers = {} THEN "none"
        ELSE stream[CHOOSE i \in answers : \A j \in answers : i <= j]

Init ==
    /\ agent = None /\ secret = None /\ mc = None /\ mcp = None
    /\ uids = 0 /\ ops = 0 /\ faults = 0
    /\ push = [h \in Handlers |-> IdlePush]
    /\ mcCtl = IdleMC /\ mcpCtl = IdleMCP
    /\ recent = FALSE /\ token = TRUE
    /\ \E r \in Replies : /\ parseSSE(r) = "result"
                          /\ net = [u \in URLs |-> [reply |-> r, tools |-> Offered[u]]]
    /\ events = <<>> /\ forgets = 0 /\ tool = None

-----------------------------------------------------------------------------
(* Storing objects.                                                        *)

Acts == ops < MaxOps /\ ops' = ops + 1
Fault == faults < MaxFaults /\ faults' = faults + 1

(* The ModelConfig becomes m, which is not what it was: the reconciler's   *)
(* copy is old, and unless it is gone the key is queued.                   *)
StoreModelConfig(m) ==
    /\ mc' = m
    /\ mcCtl' = [mcCtl EXCEPT !.fresh = FALSE, !.queued = TRUE]

(* The MCPServer becomes one with spec; this is an event for both the      *)
(* controller and the watcher.                                             *)
StoreMCPServer(s) ==
    /\ Len(events) < MaxEvents
    /\ mcp' = s
    /\ mcpCtl' = [mcpCtl EXCEPT !.fresh = FALSE, !.queued = TRUE]
    /\ events' = Append(events, s.spec)
    /\ UNCHANGED recent

-----------------------------------------------------------------------------
(* POST /agents/{name}/push.                                               *)

(* The Agent is created or updated.  An image push binds no tools.         *)
pushAgent(h) ==
    /\ push[h].pc = "idle"
    /\ Acts
    /\ \E r \in Requests :
         LET binds == ~r.image /\ r.url # None IN
         /\ uids' = IF agent = None THEN uids + 1 ELSE uids
         /\ agent' = [uid |-> uids', tools |-> binds]
         /\ push' = [push EXCEPT ![h] =
              [pc |-> IF ~r.image /\ r.model # None THEN "secret" ELSE "mcpserver",
               req |-> r, owner |-> uids']]
    /\ UNCHANGED <<owned, server, net, token, forgets, tool, faults>>

(* Mutant: the owner is looked up when it is needed.  *)
OwnerReadAgain(h) == IF agent = None THEN 0 ELSE agent.uid

(* buildModelSecret, buildModelConfigFromPush, buildMCPServerFromPush and  *)
(* agentOwnerRef: the owner is the agent as it was when it was written.    *)
agentOwnerRef(h) == push[h].owner
buildModelSecret(h) == [owner |-> agentOwnerRef(h), key |-> push[h].req.apiKey]
buildModelConfigFromPush(h) ==
    [owner |-> agentOwnerRef(h), model |-> push[h].req.model,
     sec |-> push[h].req.apiKey # None, accepted |-> "", hash |-> None]
buildMCPServerFromPush(r) == [type |-> "Remote", config |-> r.url]
NewMCPServer(spec) == [spec |-> spec, tools |-> NoTools, discovered |-> ""]

(* The push goes on whatever came of a write.                              *)
GoesOn(h, pc) ==
    push' = [push EXCEPT ![h] = IF pc = "idle" THEN IdlePush ELSE [push[h] EXCEPT !.pc = pc]]
Lost == Fault /\ UNCHANGED <<secret, mc, mcCtl, server>>

(* The Secret, if the request has a key.  One that exists keeps its owner. *)
upsertSecret(h) ==
    /\ push[h].pc = "secret"
    /\ GoesOn(h, "modelconfig")
    /\ \/ /\ secret' = IF push[h].req.apiKey = None THEN secret
                       ELSE IF secret = None THEN buildModelSecret(h)
                       ELSE [secret EXCEPT !.key = push[h].req.apiKey]
          /\ UNCHANGED <<mc, mcCtl, server, faults>>
       \/ Lost
    /\ UNCHANGED <<agent, uids, net, token, forgets, tool, ops>>

pushModelConfig(h) ==
    /\ push[h].pc = "modelconfig"
    /\ GoesOn(h, "mcpserver")
    /\ \/ LET new == buildModelConfigFromPush(h)
              updated == [mc EXCEPT !.model = new.model, !.sec = new.sec]
          IN  /\ IF mc = None THEN StoreModelConfig(new)
                 ELSE IF mc # updated THEN StoreModelConfig(updated)
                 ELSE UNCHANGED <<mc, mcCtl>>
              /\ UNCHANGED <<secret, server, faults>>
       \/ Lost
    /\ UNCHANGED <<agent, uids, net, token, forgets, tool, ops>>

(* The MCPServer, if the request names one.  It is shared and gets no      *)
(* owner.                                                                  *)
pushMCPServer(h) ==
    /\ push[h].pc = "mcpserver"
    /\ GoesOn(h, "idle")
    /\ \/ LET spec == buildMCPServerFromPush(push[h].req) IN
          /\ IF push[h].req.url = None THEN UNCHANGED server
             ELSE IF mcp = None THEN StoreMCPServer(NewMCPServer(spec))
             ELSE IF mcp.spec # spec THEN StoreMCPServer([mcp EXCEPT !.spec = spec])
             ELSE UNCHANGED server
          /\ UNCHANGED <<secret, mc, mcCtl, faults>>
       \/ Lost
    /\ UNCHANGED <<agent, uids, net, token, forgets, tool, ops>>

-----------------------------------------------------------------------------
(* The other handlers.                                                     *)

(* DELETE /agents/{name}; the finalizer has run.  *)
deleteAgent ==
    /\ agent # None
    /\ Acts
    /\ agent' = None
    /\ forgets' = forgets + 1
    /\ UNCHANGED <<owned, server, uids, push, net, token, tool, faults>>

createModelConfig ==
    /\ mc = None
    /\ Acts
    /\ \E m \in Models, sec \in BOOLEAN :
         StoreModelConfig([owner |-> 0, model |-> m, sec |-> sec, accepted |-> "", hash |-> None])
    /\ UNCHANGED <<agent, secret, server, uids, push, net, token, forgets, tool, faults>>

(* Provider, model and options; not the Secret.  *)
patchModelConfig ==
    /\ mc # None
    /\ Acts
    /\ \E m \in Models \ {mc.model} : StoreModelConfig([mc EXCEPT !.model = m])
    /\ UNCHANGED <<agent, secret, server, uids, push, net, token, forgets, tool, faults>>

deleteModelConfig ==
    /\ mc # None
    /\ Acts
    /\ StoreModelConfig(None)
    /\ UNCHANGED <<agent, secret, server, uids, push, net, token, forgets, tool, faults>>

createMCPServer ==
    /\ mcp = None
    /\ Acts
    /\ \E spec \in Posted :
         /\ EnableWebhook => validateMCPServer(spec)
         /\ StoreMCPServer(NewMCPServer(spec))
    /\ UNCHANGED <<agent, owned, uids, push, net, token, forgets, tool, faults>>

(* A patch replaces spec.remote, if it has one; never the type.  On a      *)
(* Stdio server that part is of no consequence.                            *)
patchMCPServer ==
    /\ mcp # None /\ mcp.spec.type = "Remote"
    /\ Acts
    /\ \E spec \in Posted :
         /\ spec.type = "Remote" /\ spec.config \notin {None, mcp.spec.config}
         /\ StoreMCPServer([mcp EXCEPT !.spec = spec])
    /\ UNCHANGED <<agent, owned, uids, push, net, token, forgets, tool, faults>>

(* The watcher has no handler for it: the snapshot stays.  *)
deleteMCPServer ==
    /\ mcp # None
    /\ Acts
    /\ mcp' = None
    /\ mcpCtl' = [mcpCtl EXCEPT !.fresh = FALSE, !.queued = TRUE]
    /\ UNCHANGED <<agent, owned, uids, push, recent, net, token, events, forgets, tool, faults>>

-----------------------------------------------------------------------------
(* External.                                                               *)

(* The garbage collector removes what an Agent owned that is gone: an      *)
(* owner is looked up by UID.                                              *)
Living == IF agent = None THEN {} ELSE {agent.uid}
Collectable(o) == o # None /\ o.owner \notin Living \cup {0}

CollectSecret ==
    /\ Collectable(secret)
    /\ secret' = None
    /\ UNCHANGED <<agent, mc, mcCtl, server, uids, push, net, token, forgets, tool, ops, faults>>

CollectModelConfig ==
    /\ Collectable(mc)
    /\ StoreModelConfig(None)
    /\ UNCHANGED <<agent, secret, server, uids, push, net, token, forgets, tool, ops, faults>>

(* A server breaks or is upgraded, or it is well again; it may then not    *)
(* know the sessions it had.                                               *)
Becomes(u, s) ==
    /\ net[u] # s
    /\ net' = [net EXCEPT ![u] = s]
    /\ \E knows \in BOOLEAN :
         mcpCtl' = IF mcpCtl.url = u THEN [mcpCtl EXCEPT !.session = mcpCtl.session /\ knows]
                  ELSE mcpCtl
    /\ UNCHANGED <<agent, owned, mcp, recent, events, uids, push, token, forgets, tool, ops>>

ServerChanges ==
    \E u \in URLs, r \in Replies, tools \in ToolSets :
        Becomes(u, [reply |-> r, tools |-> tools]) /\ Fault

ServerRecovers ==
    \E u \in URLs, r \in Replies :
        /\ parseSSE(net[u].reply) # "result" /\ parseSSE(r) = "result"
        /\ Becomes(u, [net[u] EXCEPT !.reply = r])
        /\ UNCHANGED faults

TokenChanges ==
    /\ token' = ~token
    /\ Fault
    /\ UNCHANGED <<agent, owned, server, uids, push, net, forgets, tool, ops>>

-----------------------------------------------------------------------------
(* ModelConfigReconciler.                                                  *)

(* Reconcile up to the Secret.  A ModelConfig without one is valid.        *)
ReconcileModelConfig ==
    /\ mcCtl.queued /\ mcCtl.pc = "idle"
    /\ mcCtl' = IF mc = None THEN IdleMC
                ELSE [queued |-> FALSE, pc |-> IF mc.sec THEN "secret" ELSE "write",
                      fresh |-> TRUE, accepted |-> "True", hash |-> mc.hash]
    /\ UNCHANGED <<agent, secret, mc, server, uids, push, net, token, forgets, tool, ops, faults>>

(* SecretNotFound leaves the hash that was there.  *)
computeSecretHash ==
    /\ mcCtl.pc = "secret"
    /\ mcCtl' = IF secret = None
                  THEN [mcCtl EXCEPT !.pc = "write", !.accepted = "False"]
                  ELSE [mcCtl EXCEPT !.pc = "write", !.hash = secret.key]
    /\ UNCHANGED <<agent, secret, mc, server, uids, push, net, token, forgets, tool, ops, faults>>

(* The status is written, which is an event if it changes anything, the    *)
(* time of the condition (in seconds) included; a failed write is tried    *)
(* again.  A missing Secret is not: nothing watches Secrets.               *)
WriteModelConfig ==
    /\ mcCtl.pc = "write"
    /\ \/ /\ mc # None /\ mcCtl.fresh
          /\ mc' = [mc EXCEPT !.accepted = mcCtl.accepted, !.hash = mcCtl.hash]
          /\ \E later \in BOOLEAN :
               mcCtl' = [IdleMC EXCEPT !.queued = mcCtl.queued \/ mc' # mc \/ later]
          /\ UNCHANGED faults
       \/ /\ \/ (mc = None \/ ~mcCtl.fresh) /\ UNCHANGED faults
             \/ Fault
          /\ mcCtl' = [IdleMC EXCEPT !.queued = TRUE]
          /\ UNCHANGED mc
    /\ UNCHANGED <<agent, secret, server, uids, push, net, token, forgets, tool, ops>>

-----------------------------------------------------------------------------
(* MCPServerReconciler.                                                    *)

others == <<agent, owned, uids, push, net, token, forgets, tool, ops>>

DiscoveryFailed == [mcpCtl EXCEPT !.pc = "write", !.discovered = "False"]

(* Reconcile up to the first call.  An invalid server is not asked, nor    *)
(* one that is a command; neither condition then says anything new of      *)
(* discovery.                                                              *)
ReconcileMCPServer ==
    /\ mcpCtl.queued /\ mcpCtl.pc = "idle"
    /\ mcpCtl' =
         IF mcp = None THEN [mcpCtl EXCEPT !.queued = FALSE]
         ELSE [mcpCtl EXCEPT
                 !.queued = FALSE, !.fresh = TRUE, !.session = FALSE,
                 !.pc = IF mcp.spec.type = "Stdio" \/ ~validateMCPServer(mcp.spec)
                          THEN "write" ELSE "headers",
                 !.url = IF mcp.spec.type = "Remote" THEN mcp.spec.config ELSE None,
                 !.tools = mcp.tools, !.discovered = mcp.discovered]
    /\ UNCHANGED <<others, mcp, recent, events, faults>>

resolveHeaders ==
    /\ mcpCtl.pc = "headers"
    /\ mcpCtl' = IF mcpCtl.url \in AuthURLs /\ ~token
                   THEN DiscoveryFailed
                   ELSE [mcpCtl EXCEPT !.pc = "initialize"]
    /\ UNCHANGED <<others, mcp, recent, events, faults>>

(* doRPC: what comes of a request, of which all but the first carry the    *)
(* session id; a session that the server does not know is an error.        *)
doRPC(first) ==
    IF first \/ mcpCtl.session THEN parseSSE(net[mcpCtl.url].reply) ELSE "none"

(* Mutant: a server that answers the first request is discovered.  *)
InitializeIsEnough ==
    /\ mcpCtl.pc = "initialize"
    /\ mcpCtl' = IF doRPC(TRUE) = "result"
                   THEN [mcpCtl EXCEPT !.pc = "write", !.discovered = "True"]
                   ELSE DiscoveryFailed
    /\ UNCHANGED <<others, mcp, recent, events, faults>>

(* DiscoverTools: initialize, after which a notification is sent whose     *)
(* fate does not matter, and tools/list.                                   *)
initialize ==
    /\ mcpCtl.pc = "initialize"
    /\ mcpCtl' = IF doRPC(TRUE) = "result"
                   THEN [mcpCtl EXCEPT !.pc = "list", !.session = TRUE]
                   ELSE DiscoveryFailed
    /\ UNCHANGED <<others, mcp, recent, events, faults>>

listTools ==
    /\ mcpCtl.pc = "list"
    /\ mcpCtl' = IF doRPC(FALSE) = "result"
                   THEN [mcpCtl EXCEPT !.pc = "write", !.discovered = "True",
                                       !.tools = net[mcpCtl.url].tools]
                   ELSE DiscoveryFailed
    /\ UNCHANGED <<others, mcp, recent, events, faults>>

(* Mutant: a server that cannot be asked is not asked again. *)
AgainOnlyIfFound == mcpCtl.discovered # "False" /\ validateMCPServer(mcp.spec)

(* RequeueAfter is set unless the configuration was refused.  *)
Again == validateMCPServer(mcp.spec)

(* Mutant: the status is written to whatever is stored (RetryOnConflict).  *)
MayWriteAnyway == mcp # None

MayWrite == mcp # None /\ mcpCtl.fresh

(* The status is written.  Its conditions are given the time, in seconds:  *)
(* a write that says the same within a second changes nothing.             *)
WriteMCPServer ==
    LET written == [mcp EXCEPT !.tools = mcpCtl.tools, !.discovered = mcpCtl.discovered]
        done(again, queued) ==
            [IdleMCP EXCEPT !.timer = mcpCtl.timer \/ again, !.queued = mcpCtl.queued \/ queued]
    IN  /\ mcpCtl.pc = "write"
        /\ \/ /\ MayWrite
              /\ IF recent /\ written = mcp
                   THEN /\ mcpCtl' = done(Again, FALSE)
                        /\ UNCHANGED <<mcp, recent, events>>
                   ELSE /\ Len(events) < MaxEvents
                        /\ mcp' = written /\ recent' = TRUE
                        /\ events' = Append(events, mcp.spec)
                        /\ mcpCtl' = done(Again, TRUE)
              /\ UNCHANGED faults
           \/ /\ \/ ~MayWrite /\ UNCHANGED faults
                 \/ Fault
              /\ mcpCtl' = done(FALSE, TRUE)
              /\ UNCHANGED <<mcp, recent, events>>
        /\ UNCHANGED others

(* Five minutes, and with them a second, have passed. *)
RequeueAfter ==
    /\ mcpCtl.timer
    /\ mcpCtl' = [mcpCtl EXCEPT !.timer = FALSE, !.queued = TRUE]
    /\ recent' = FALSE
    /\ UNCHANGED <<others, mcp, events, faults>>

ASecondPasses ==
    /\ recent
    /\ recent' = FALSE
    /\ UNCHANGED <<others, mcp, mcpCtl, events, faults>>

-----------------------------------------------------------------------------
(* ConfigPushWatcher.                                                      *)

(* referencesServer of the one agent there may be. *)
referencesServer == agent # None /\ agent.tools

onMCPServer ==
    /\ events # <<>>
    /\ events' = Tail(events)
    /\ tool' = IF referencesServer THEN Head(events) ELSE tool
    /\ UNCHANGED <<agent, owned, mcp, mcpCtl, recent, uids, push, net, token, forgets,
                   ops, faults>>

onAgentDelete ==
    /\ forgets > 0
    /\ forgets' = forgets - 1
    /\ tool' = None
    /\ UNCHANGED <<agent, owned, server, uids, push, net, token, ops, faults>>

(* The process restarts: pushes are cut off, snapshots and queues are      *)
(* gone, and every object that exists is an Add event.                     *)
Restart ==
    /\ Fault
    /\ push' = [h \in Handlers |-> IdlePush]
    /\ mcCtl' = [IdleMC EXCEPT !.queued = mc # None]
    /\ mcpCtl' = [IdleMCP EXCEPT !.queued = mcp # None]
    /\ events' = IF mcp = None THEN <<>> ELSE <<mcp.spec>>
    /\ forgets' = 0 /\ tool' = None
    /\ UNCHANGED <<agent, secret, mc, mcp, uids, recent, net, token, ops>>

-----------------------------------------------------------------------------
Users == \/ \E h \in Handlers : pushAgent(h)
         \/ deleteAgent
         \/ createModelConfig \/ patchModelConfig \/ deleteModelConfig
         \/ createMCPServer \/ patchMCPServer \/ deleteMCPServer

Pushes == \E h \in Handlers : upsertSecret(h) \/ pushModelConfig(h) \/ pushMCPServer(h)
Cluster == CollectSecret \/ CollectModelConfig
World == ServerChanges \/ ServerRecovers \/ TokenChanges \/ ASecondPasses \/ Restart
ModelConfigSteps == ReconcileModelConfig \/ computeSecretHash \/ WriteModelConfig
MCPServerSteps == \/ ReconcileMCPServer \/ resolveHeaders \/ initialize \/ listTools
                  \/ WriteMCPServer

Next == \/ Users \/ Pushes \/ Cluster \/ World
        \/ ModelConfigSteps \/ MCPServerSteps
        \/ RequeueAfter \/ onMCPServer \/ onAgentDelete

Spec == Init /\ [][Next]_vars

(* A handler runs to its end, the garbage collector and the informers      *)
(* deliver, a controller goes on and a timer expires.  Nothing is assumed  *)
(* of users, of servers or of failures.                                    *)
FairSpec ==
    /\ Spec
    /\ \A h \in Handlers : WF_vars(upsertSecret(h) \/ pushModelConfig(h) \/ pushMCPServer(h))
    /\ WF_vars(CollectSecret) /\ WF_vars(CollectModelConfig)
    /\ WF_vars(ModelConfigSteps) /\ WF_vars(MCPServerSteps)
    /\ WF_vars(RequeueAfter) /\ WF_vars(onMCPServer) /\ WF_vars(onAgentDelete)

-----------------------------------------------------------------------------
(* The tools in the status of a server are never replaced by ones that     *)
(* were discovered at another address than the one its spec has: the spec  *)
(* may change while a discovery, which takes several calls, is under way   *)
(* (mcpserver_controller.go:101-141).                                      *)
ToolsAreOfSpec ==
    [][\A u \in URLs :
         /\ mcp # None /\ mcp' # None
         /\ mcp'.tools # mcp.tools
         /\ mcpCtl.url = u
         => mcp'.spec = [type |-> "Remote", config |-> u]]_vars

(* A server that from some time on answers at the address in its spec, and *)
(* accepts its headers, has in its status the tools it advertises: after a *)
(* failure, a restart, an upgrade, or an answer to the address it had      *)
(* before (mcpserver_controller.go:98-141, mcp/client.go:83-125).  And if  *)
(* from some time on an agent is bound to a valid server, the snapshot of  *)
(* tools the agent is given is that server's spec, although the agent may  *)
(* have come after the server, and the forgetting of an earlier agent of   *)
(* that name may come late (config_watcher.go:107-150).                    *)
Answers ==
    /\ mcp # None /\ mcp.spec.type = "Remote" /\ mcp.spec.config # None
    /\ parseSSE(net[mcp.spec.config].reply) = "result"
    /\ mcp.spec.config \in AuthURLs => token
Bound == mcp # None /\ validateMCPServer(mcp.spec) /\ referencesServer

ToolsSettle ==
    /\ <>[]Answers => <>[](Answers /\ mcp.tools = net[mcp.spec.config].tools)
    /\ <>[]Bound => <>[](mcp # None /\ tool = mcp.spec)

(* Once an agent is gone for good the key that was pushed with it is gone, *)
(* and so is the ModelConfig, unless it was somebody else's: also if the   *)
(* push was still writing them when the agent was deleted                  *)
(* (agent_handler.go:155-182).                                             *)
KeysGo ==
    <>[](agent = None) => <>[](secret = None /\ (mc = None \/ mc.owner = 0))
=============================================================================
