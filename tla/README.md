# Verification of aistio's control plane

aistio is a Kubernetes control plane for AI agents: a server (`aistiod`) with
controllers for Agents, AgentTeams, AgentSessions, ModelConfigs and MCPServers,
a REST API, and a gRPC service (ASDP) over which data-plane instances connect,
receive configuration and commands, and report what they do. This directory
holds TLA+ modules of the parts of it whose correctness depends on
interleavings, the TLC configurations that model-check them, and TLAPS proofs
of their main safety properties. `PROJECT.json` maps each definition to the
source lines it models.

## 1. Inventory

### Components, state, operations

| Part | Source | State | Operations that change it |
|---|---|---|---|
| ASDP connection registry | `internal/asdp/{server,service,connect_handler}.go` | map instance -> Connection under one lock; per Connection a 64-slot channel, a context and a writer goroutine; active-connections gauge | handshake (reject, look up, evict, acknowledge, register), `Send`, writer loop, teardown, `Stop` |
| Snapshot store and distributor | `internal/asdp/{snapshot,distributor}.go`, `internal/controller/{config_watcher,distributor}.go` | snapshot and version counter per agent and type | `UpdateSnapshot`, `DeleteAgent`, `PushConfig`, `PushFullSync`, `ForgetAgent`, session and team sends |
| Connector | `connector/connector.go` | stream, upstream channel, backoff | connect and retry, apply config, report, answer commands |
| Agent handlers, revision history | `internal/httpapi/agent_handler.go` | Agent object with history annotation and `status.revision`; ModelConfig, Secret, MCPServers | push, patch, roll back, delete |
| Team task store | `internal/team/task_store_k8s.go` (in-memory twin for tests: `task_store.go`) | TeamTask objects: state, owner, resourceVersion | create, claim, complete, unclaim, delete team |
| Team lifecycle and controller | `internal/team/lifecycle.go`, `internal/controller/{agentteam_controller,team_sink}.go`, `internal/httpapi/team_handler.go` | AgentTeam phase, members, task summary, sessions | start, complete, fail, time out, reschedule, spawn, add and remove members, clean up |
| Team outbox | `internal/controller/teamevent_watcher.go`, `internal/team/message_router.go` | TeamMessage objects: delivered, attempts; every replica's cache and queue | route, broadcast, deliver, record, drop |
| Sessions | `internal/controller/{session_controller,session_poller,asdp_sink}.go`, `internal/httpapi/session_handler.go` | AgentSession phase, command flags | create, compress, terminate, report, poll, orphan sweep |
| Agent, discovery and BYO controllers | `internal/controller/{agent_controller,discovery_controller,byo_workload_controller}.go`, `internal/discovery/{adopt,label_discovery}.go` | Agent with finalizer and status, owned ConfigMap, Deployment, Service; three queues | reconcile, finalize, adopt, discover, probe |
| ModelConfig and MCPServer | `internal/controller/{modelconfig,mcpserver}_controller.go`, their handlers, `internal/mcp/client.go` | ModelConfig with its Secret, MCPServer with discovered tools | push, create, patch, delete, validate, hash, discover |
| Webhooks | `internal/discovery/*webhook.go` | none | refuse a spec |
| Sandbox, adapters, prober, CLI, wiring | see `PROJECT.json` | none that is kept | rendering, I/O |

### How they interact

* Informer threads (Agent, ModelConfig, MCPServer) call the distributor; each
  thread runs its callbacks one after the other, the threads run concurrently.
* Handler goroutines, one per stream, use the registry and the distributor;
  a writer goroutine per connection drains its channel. Registry and store have
  separate locks, held for one lookup or update at a time.
* REST handlers, controllers and ASDP sinks of all replicas share Kubernetes
  objects. The only mutual exclusion is the API server's check of
  resourceVersion on update; reads come from caches that may lag.
* Data planes reach the controllers through the sinks (reports, team events);
  controllers reach data planes through the distributor's sends.

### What is hard here

Reconnects racing teardowns of the same instance; a push racing a full sync;
a bounded channel whose overflow path closes the connection; read-modify-write
of one object by several handlers, some with retry, some without, some whose
error is ignored; multi-object updates with a crash in the middle; commands and
phases written by both the control plane and late reports of data planes;
message delivery by every replica; finalizers that wait for other objects;
controllers whose work on a copy takes several calls while the object changes its
kind, is deleted, or is made anew. The `hazards` of `PROJECT.json` list these by
line with the property that covers each, or why none does yet.

### What makes each part correct

* Registry: the map contains exactly the connections being served, less those
  that were deliberately taken out; an old stream's teardown never removes its
  successor; the gauge counts the connections in use (it does not: section 3).
* Distribution: no update is lost between a push and a connect; updates arrive;
  the last thing applied is the newest.
* Revisions: no successful push or rollback vanishes from the history; a
  revision names the configuration it applied.
* Tasks: one member wins a claim; concurrent operations amount to some sequence
  of atomic ones; finished work is not undone.
* Teams: no accepted member is lost and there is no more room than allowed; a
  team that is over stays so; it completes as its policy says (it does not: section 3);
  it ends when it is late, and goes when it is deleted.
* Sessions: an accepted command is not lost; the sweep spares what the polled pod
  holds; a record whose session is gone ends up Terminated, and the Agent's count
  of active sessions settles on the truth.
* Outbox: a message is tried until it is delivered or was tried five times; its
  status counts the tries that were recorded; no replica forgets one it knows of.
* Agents: deletion waits for the sessions the control plane knows of; what runs settles on the spec
  pushed last, and Ready on what runs.
* Resources: the tools in a server's status are those of the address in its spec
  and settle on what it advertises; keys of an agent that is gone are gone.

## 2. The modules

| Module | Models |
|---|---|
| `ConnRegistry` | the registry, its handlers, writers and gauge |
| `ConfigPush` | extends `ConnRegistry` with store, distributor, informer threads, and the connector as the peer that applies configs |
| `Revisions` | one Agent's history under concurrent REST requests and controllers |
| `TaskBoard` | abstract: a board of tasks with atomic operations |
| `TaskStore` | `K8sTaskStore` and its concurrent callers |
| `SessionControl` | the AgentSession records of one agent, under REST requests, the session controller, the poller and the ASDP reports |
| `Outbox` | TeamMessages, the router that writes them and the replicas that deliver them |
| `TeamLifecycle` | one AgentTeam from creation to the end of its finalizer, on top of `TaskBoard` |
| `AgentWorkload` | one agent name: Agent, Deployment, ConfigMap, sessions, and the three controllers that work on them |
| `Resources` | what else a push writes: Secret, ModelConfig, MCPServer, with their controllers and the tool snapshot |
| `*Proofs` | theorems of the module they extend |
| `MC*` | constants for TLC |

A definition whose comment starts with "Mutant of" is a deliberately wrong
version of the action after it. It is not part of any specification; it shows
that the named property would notice that bug.

### ConnRegistry and ConfigPush

A member of `Streams` stands for a gRPC stream, its handler and the Connection
the handler creates. `pc[s]` follows `service.Connect`: waiting for the first
message, looked (`HandleConnect` found the old connection), accepted (removed
it), serving, returned. The registry's lock covers single map operations, so
`LookupExisting`, `EvictExisting` and `RegisterConnection` are separate steps
and two handshakes of one instance interleave between them. `Close` cancels the
derived context, and that is all it does: the writer stops, the handler stays
in `Recv` until the stream itself dies (`StreamDown`: peer gone, keepalive, or
`MaxConnectionAge`). `Send` never blocks: a full channel drops the message and
closes. `evicted`, `leaked` and `got` are history variables.

`PushConfig` is `PushUpdate` (store), `PushCollect` (registry), then `PushSend`
per connection; `PushFullSync` is `SyncRead`, `SyncLookup`, `SyncSend`. Rendered
resources are values of `Contents`; the nonce hash is taken as injective in
agent, type and version, which is what it hashes. Commands, team events and
heartbeat answers are the message `Other`.

### Revisions

A handler reads the Agent, computes the object it will write, and writes it;
`CreateAgent`, `UpdateAgent` and `UpdateStatus` succeed only on the version
read. A lagging cache is a read made earlier, which the interleaving covers.
`appendRevision` keeps the newest 20 entries and 5 snapshots (constants). `log`
is the history variable of what was really written. Abstracted: the spec is a
value; its JSON round trip is lossless; an annotation that does not parse
(nobody writes one) is left out; generated revision IDs do not collide, though
a four-byte hash could.

### TaskStore and TaskBoard

Every operation is a read and a conditional write. `Claim` checks the state it
read; it looks neither at `BlockedBy` nor at the expected version, so the model
has neither. `Complete` and `Unclaim` accept any state. A created task has an
empty status (`"new"`) until the second write, which may fail silently.
`reschedMember` lists, then unclaims what it listed. Names are generated by the
API server, so a deleted task never comes back. Nobody checks `claimedBy`, neither the
REST handler nor the sink nor the store, and it may be empty: `Claimants` are the
members and `None`, and a task that nobody claimed is in progress without an owner.
`told[t]` records the names whose claim call returned success. A handler may crash
or its write be refused at any point; refused writes are not tried again.

### SessionControl

`compressSession` and `terminateSession` read the record and write it back with
the flag set (`CommandRead`, `CommandWrite`). The API server refuses the write if
the object changed; instead of a version counter, the request carries `fresh`,
which every write of the object clears. The status writes of the controller, the
sinks and the poller read again on a conflict, so each is one step
(`SetPhase`) that replaces the phase of whatever object there is, on the strength
of a decision taken earlier. The controller works through its queue: a compress
command comes first, a command is never cleared, and a failure queues the session
again. `Dispatch` is the call to some ready pod, `CtlWrite` the phase written
afterwards; between the two, or instead of the second, anything else may happen.

`UpsertGet` and `UpsertStatus` are `upsertObservedSession`, used by the poller
and by each pod's stream handler. A poll probes one pod, upserts its answer,
lists the records the pod did not report, marks them and counts the rest. The
60 s grace of new records is the flag `old`: `Age` sets it at any time, except
for a record created during the poll under way (`poll.created`), which rests on
a poll taking less than 60 s.

Assumed of the data plane: session IDs are unique and a session that ended does
not start again. What a pod answers to a command for a session it does not hold
is left open. The sweep of sessions of *other* pods is what the code does, its
comment says so, and `SweepSpares` speaks only of the polled pod.
Abstracted: message counts, tokens, conditions, the hash of long IDs. The
controller sees its own writes, and the Agent controller's own writes of
`activeSessions` are left out.

### Outbox

Each replica has its informer cache (`Watch` brings one message up to date), a
queue, and one reconciliation: `Reconcile` reads the cache, `DeliverTeamEvent`
sends, `Mark` writes the status of the copy that was read, which the API server
refuses if the object has changed (`MarkRefused`). The recipient's connection is looked
for by the agent of the session that the replica's list shows first for the role
(`hosts[r][k]`): another session of that role may have a connection and is not
asked, and the lists of two replicas may differ. What `Host` puts there is left open,
because sessions come and go. A connection that vanished between lookup and send
counts as delivered, as in the code (`"vanished"`, `distributor.go:196-199`), so the
mark says that a send was tried without an error, not that anybody got the message.
`Restart` loses queue and work and lists everything anew; caches are then current.
`tries` is history. A broadcast writes one message per role and gives up at the first error.
The router's map of members is written by the REST handlers and read by nobody on
the way of a message, so it is left out.

### TeamLifecycle

The controller, REST requests and sinks write one status. A controller's copy
carries `fresh`, which every write of others clears; a REST request likewise. The
sinks and the timeout retry on a conflict, so each is one step that changes
whatever there is. Reads of the controller are current: from a lagging cache it
would be refused more often and spawn more sessions, and nothing else, its writes
being conditional. `StartTeam` spawns one session after the other and then
replaces status and members at once; health checks go through the members of the
copy read at the start and write all of it for each that failed. Tasks are the
atomic ones of `TaskBoard`, which `TaskStore` implements; `Release` of a member's
tasks is one step here, where `TaskStore` has its races. `late` says that
maxDuration has passed. Timestamps, TTL and messages are left out: `handleTerminal`
may delete at any time.

Left out because nothing in the program reaches them: the legacy handlers used when
`Lifecycle` is nil, `FailTeam`, `ShouldCleanup` and `SpawnDynamicMember`.

### AgentWorkload

Every controller has the key in its queue or not, and works on one key at a time;
the predicates filter events, not what is in a queue, so a controller may be given
an Agent that is not its kind any more. `AgentReconciler` keeps its copy of
`uid` and `spec` while it builds (`reconcileConfigMap`, `reconcileDeployment`,
`reconcileService`), and then reads again for the status. Where a copy is written
back as a whole (finalizer, BYO status), `fresh` says whether it still may be.
`DiscoveryReconciler` makes an Agent of a labelled Deployment, or sets Ready on the
one there is. Every status write carries the time and changes the Agent, also when
Ready stays what it is, so it makes the copies of the others old and queues the key of
the Agent's controller; only one that repeats another of the same second is no change
(`WriteReady`). Agents, Deployments and ConfigMaps are read as they are. Sessions are
listed from another informer, which lags: `seen` is what it shows, and
`SessionSeen` brings it up to date with one session. Deletion marks an Agent that has
the finalizer; `doomed` are the sessions that were there and shown then. The garbage
collector follows owner UIDs. Pods become
ready when their ConfigMap is there. Errors (`AgentFails`, `DiscoveryFails`,
`BYOFails`) and `Restart` count against `MaxFaults`, except for those that a
conflict explains.

Abstracted: a spec is its kind, runtime, what it says of the Deployment and what it
says to the data plane; the Service has no content; of the status only Ready is
kept; probes answer or do not. An edit of the Agent by hand that turns one the
control plane runs into a `workloadRef`, and Unadopt, which nothing calls, are left
out.

### Resources

A push goes on through Secret, ModelConfig and MCPServer whatever came of each
write; owner references carry the UID of the Agent as it was written. The
ModelConfig controller is one read, the Secret's hash and one write. The MCPServer
controller resolves headers, initializes a session, lists the tools and writes, and
the server may change, forget the session or answer something else between any two
(`ServerChanges`). A reply is a stream of messages of which the first that is no
notification counts. Status writes carry the time in seconds, so that one that says
the same within a second is no event (`recent`); another one wakes the controller at
once. `events` and `forgets` are the queues of the two informer threads.

## 3. The runs

| Run | Bounds | Checks |
|---|---|---|
| `asdp_push` | 2 streams of one instance, 1 agent, 1 type, 2 contents, 1 version between deletes, channel of 1 | types; `RegisteredIsServing`, `ServingIsReachable`, `NoMissedUpdate` |
| `asdp_live` | 1 stream, 2 versions, channel of 1 | `EveryUpdateWritten`, `DeadStreamsLeave` under fairness |
| `asdp_stale_sync` | same | violation of `UpToDateWhenDrained` |
| `asdp_gauge` | 2 streams of one instance, no stop of the server | violation of `GaugeCountsActive` |
| `revisions` | 2 requests, 2 specs, 4 revisions, history 3, snapshots 2, 6 resourceVersions | types; `HistoryIsRecentLog`, `StatusOnlyToNewest` |
| `tasks` | 3 handlers, 2 tasks, 2 members, claims without a name, 5 resourceVersions | `OneWinner`, refinement `ImplementsBoard` |
| `sessions` | 1 session, 2 pods, 2 requests, contract levels 2 and 3 | types; `CommandsKept`, `SweepSpares`; `EndedIsTerminated`, `CountSettles` under fairness |
| `outbox` | 2 replicas, 1 message, 1 role, 1 agent with 1 instance, 2 attempts, 1 crash or failed write | types; `AttemptsAreTries`, `NothingForgotten`; `MessagesSettle` under fairness |
| `team` | 1 member, static and added again, room for 3, 1 restart, 1 task, 1 sink, 2 requests, 3 sessions, 2 writes of others, reschedule policy Auto | types; `MembersBounded`, `OverIsOver`, `MembersKept`; `DeletedTeamVanishes`, `LateTeamEnds` under fairness |
| `team_policy` | 1 static member, 1 task, 1 sink, policy lead-decides | violation of `LeadDecides` |
| `agents` | 3 pushes (declarative, image, unknown runtime), 1 session, 3 operations of users, 1 fault | types; `SessionsGoFirst`, `ReportsOnSpec`; `DeletedVanishes`, `WorkloadFollowsSpec`, `ReadySettles` under fairness |
| `resources` | 2 pushes, 1 handler, 2 models, 2 addresses of which one needs a header, 2 tool lists, 2 operations, 1 fault, 2 undelivered events | types; `ToolsAreOfSpec`; `ToolsSettle`, `KeysGo` under fairness |

Why the bounds are enough to meet the interesting cases: two streams of one
instance are what eviction, overwriting and late teardown need, and a channel of
one overflows on the second message. With two contents and deletes in between, a
snapshot is replaced and re-inserted. Two requests and four revisions cross both
trimming limits (3 and 2) while a race is under way. Three handlers are a claim,
a competing claim and a rescheduling. Sessions share nothing but the
controller's thread, a poll and the count, and all races are between writers of one
record: two requests, the controller, the poller and two streams. Two replicas are what it takes to deliver a
message twice and to write from an old copy, and two attempts to reach the limit by
different outcomes; one agent is enough, since the list may show it or nobody.
A team of one static member, whose name a request gives again to another member, has
starts, recoveries and additions that overlap, and one task is created, claimed,
completed and summed up at any time; `MaxWrites` bounds the writes of others, each of
which makes the controller's copy old, and the late summaries and tasks. The other
reschedule policies differ in which of the steps of recovery they leave out; the proofs
cover them. In `agents`, three operations are push,
delete and push again, or adopt, push over and delete; in `resources`, two are a
push with another push, patch or delete under way. `MaxVersion` bounds counters in the guards
and nothing else; the proofs are for every value of it. Deadlock is not checked:
these systems may stop for lack of clients, and the bounds stop them too.

Symmetry is used only for safety runs, over streams of the same instance and
over handlers, specs, revisions, tasks and members.

### Fairness

Only the runs with liveness properties assume any. `asdp_live`: weak fairness of the informer thread's push, of a
handler's full sync and teardown, and of the writer goroutine, all of which are
goroutines the Go scheduler runs again whenever they can run. `WF(Transmit)`
also says that a data plane on a live stream keeps reading. A peer that does not
is killed by keepalive, which is `StreamDown`. Nothing is assumed of peers
connecting, of configuration changes, of `Stop` or of a stream ever dying.

`sessions`: weak fairness of the controller (`Reconcile` and the end of what
it began), of the upserts of a report already received, of the poller, which is
queued again every 15 s, and of time (`Age`); strong fairness of `MarkOrphan` and
`UpdateCount`, because each poll repeats these writes, so that one that is tried
for ever gets through. Nothing is assumed of requests, of reports, of sessions
starting or ending, or of any command reaching its pod. `EndedIsTerminated` leaves
out records with a compress command: the controller sets such a record to
Compressing again each time the sweep terminates it.

`outbox`: a replica handles what it has queued, watches the objects and finishes a
delivery; a requeued key is in the queue at once. Nothing is assumed of connections,
which is why `MessagesSettle` speaks of a recipient that stays reachable.

`team`: weak fairness of the controller as a whole, which comes back every 30 s
to a running team and to an error. A team's writes by others are bounded
(`MaxWrites`), so they do not refuse the controller for ever.

`agents`: weak fairness of each controller, of the garbage collector and of the informer
of sessions; strong fairness of `AddFinalizer` and `RemoveFinalizer`. These two are
conditional writes of the whole Agent, and each status write of another controller in
between has them refused. A refused one is read and tried again within milliseconds to
seconds, while the others write once for an event or in 30 s, so they do not get in
between every time for ever; weak fairness does not say that, and TLC refutes
`WorkloadFollowsSpec` without the first and `DeletedVanishes` without the second. Pods need not become ready.
`resources`: of each push, of both controllers, of the timer that
asks a server again, of the informers and of the garbage collector; nothing of
servers, users or failures.

### What the violations show

**Stale full sync** (`asdp_stale_sync`, `distributor.go:111`). A new connection's full
sync reads the store; a push stores and sends a newer version to the same connection;
then the sync sends the old one. The instance ends on the old configuration
until the next change. `docs/zh/reference/asdp.md:27-28` describes snapshot
first, changes after.

**Gauge** (`asdp_gauge`, `server.go:190`). Two handshakes of one instance both find no
old connection, and the second registers over the first. The first is never counted
out: its teardown finds another connection in the map and does nothing. The gauge stays
one too high for good, where `metrics.go:59-62` has it as the number of active
connections. `GaugeCountsActive` asks only at rest, when no handshake and no teardown is
under way and the server was not stopped. That this and `Stop` are the only ways for
the gauge to drift from the map is the theorem `GaugeIsAccountedFor`.

**Lead decides** (`team_policy`, `lifecycle.go:165`). A team whose completion is left to
its lead is completed by the controller when its summary says that all tasks are
completed. The comment of `CheckAllComplete` (`lifecycle.go:160`) has that for the policy
all-complete, and the legacy handler (`agentteam_controller.go:231`) does ask for it.

### Other disagreements met while modelling

The models do what the code does here; no run is about these.

* Nonces: forgetting an agent resets its counters (`snapshot.go:100`), and a recreated
  agent starts again at version 1 with the same nonce, which the comment at
  `internal/controller/distributor.go:7-8` says does not happen.
* Overflow: the comment at `server.go:36-39` says that the connection is torn down so
  that the instance reconnects. The code stops the writer only (`server.go:51`): later
  configs are accepted into a channel nobody drains until the stream dies.
* Rollback: it stores the spec it replaces under the revision it creates
  (`agent_handler.go:681`); the comment at `agent_handler.go:139-141` says a revision
  and its snapshot are the same configuration.
* Rescheduling unclaims a task it saw in progress although it was completed meanwhile
  (`lifecycle.go:325`).
* Tasks without an owner: an empty `claimedBy` is accepted (`types.go:231-234`,
  `team_sink.go:80`, `task_store_k8s.go:95-105`). The task is in progress for nobody, and
  no failure of a member releases it, because rescheduling looks for the tasks of that
  member.
* Messages to nobody: a send to an instance whose connection has gone returns no error
  (`asdp/distributor.go:196-199`), and the message is marked delivered.
* Sessions that stay: `cleanupOwnedSessions` lists once, from the cache. A session recorded
  just before may be missing there and outlive its agent.
* Kinds: a name whose key is still queued for `AgentReconciler` when an agent with a
  `workloadRef` is made under it gets a finalizer that nobody removes and its Deployment rewritten,
  which `docs/zh/guides/byo.md` says never happens; the BYO reconciler panics on an agent
  pushed over (`byo_workload_controller.go:52`), and is tried again.
* BYO images: `BuildDeployment` mounts the agent's ConfigMap, which is made for
  Declarative agents only, so pods of an image agent do not start; the guide says so and
  advises against such agents (`docs/zh/guides/byo.md:108-114`).
* Snapshots that stay: removed skills, a deleted or unbound MCP server, the other one
  of two servers (`config_watcher.go:92`, `:145`).
* Secrets are not watched: the hash of a ModelConfig goes stale, and a missing Secret
  is not looked for again.

## 4. The proofs

All theorems are for every value of the constants that satisfies the named
assumptions (`RegistryAssumption`, `PushAssumption`, `RevisionsAssumption`,
`TaskAssumption`, `SessionAssumption`, `OutboxAssumption`, `WorkloadAssumption`,
`TeamAssumption`, `ResourcesAssumption`: finite sets of streams, instances and tasks, positive limits, what the
team webhook admits, and `None` being none of the values).

* `ConfigPushProofs`, the registry. `RegistryInv` is the types, `RegisteredIsServing` and
  `ServingIsReachable`, which are inductive only together: that an entry is being
  served and belongs to its instance is what keeps the late teardown of an old
  stream off its successor. `EvictedConnectionsAreClosed` follows from it.
  `GaugeIsAccountedFor` needs in addition that a leaked connection is never in the
  map again (`LeakedIsGone`), so that no later removal pays for it.
* `ConfigPushProofs`, the composition. `PushImplementsRegistry` shows each step of the composed
  system to be a step of the registry or to leave it alone, and
  `PushKeepsRegistry` carries the registry's theorems over. `PushMissesNothing`
  proves `NoMissedUpdate` from `PushInv`: `ShapeInv` (types and which fields go
  with which program counter), `SyncReachesOwn` (a full sync under way finds its
  own connection as long as that is healthy) and `UpdateAccounted`: a current
  snapshot that a healthy connection has not accepted is still going to be sent
  to it, by a push that has yet to collect or has it among its targets, or by
  its own full sync that has yet to read or has read it.
* `RevisionsProofs`. `RevInv` says that the history is the recent part of the
  log, that every version a handler holds was handed out, and that a handler
  whose version is still current computed its history from the current one
  (`Pending`). This last part is what the resourceVersion check buys.
* `TaskStoreProofs`. `TaskInv` says that a handler whose read version is still
  current has read the current object (`ReadFits`), and that nobody was told of
  a task that is not there (`NotToldYet`) or can be claimed (`ClaimableIsFree`), beside
  `OneWinner` itself: a claimable task being nobody's is why the next claim is the only
  one. From it follow `ClaimIsExclusive` and `StoreImplementsBoard`, the refinement. Both
  hold for claims without a name, too.
* `SessionControlProofs`. `SessionInv` is the types, `CommandInv` and `SweepInv`.
  `CommandInv` adds to `CommandsKept` that a request whose read is fresh holds the
  commands of the object (`ReadFits`). `SweepInv` follows a session of the polled
  pod through the poll: every record is of a session that has started
  (`RecordsAreKnown`), so one the pod holds and did not report is new
  (`UnseenIsNew`), hence young (`NewIsYoung`), hence not in the list
  (`TodoIsOrphaned`). From these follow `CommandsAreNotLost` and
  `SweepSparesTheLive`. `DueIsSeen`, inductive beside the types, says that a session
  with a command to carry out is queued or in the controller's hands; with
  `CommandsKept` this gives `CommandsArePursued`: not even a failed or refused write
  lets an accepted command rest.
* `OutboxProofs`. `OutboxInv` says, beside the types and `AttemptsAreTries`, that no copy
  of a message is ahead of the object, and that one as new
  as the object has its mark and its attempts (`Behind`, for the caches and for what
  each replica works on); and that what a replica delivers was worth delivering when it
  was read (`CopiesAreBehind`). A
  status write is accepted only for a copy as new as the object, so it counts one more
  than what is there: this gives `OutboxTypeCorrect`, which includes that no message is
  tried more than `MaxAttempts` times, and `TriesAreCounted`. `NothingForgotten`, inductive beside `OutboxInv`, says
  that a replica which knows an undelivered message as it is has it queued or in hand
  (`NoMessageIsForgotten`): a mark that is refused, a crash, or the delivery of another
  replica makes the message news again, and nothing else takes it off a queue.
* `AgentWorkloadProofs`. `AgentInv` adds to the types that a deleted agent has its
  finalizer (`DeletingIsHeld`), that sessions to wait for are there and shown by the cache,
  and so is their deleted agent (`DoomedIsHeld`), that a copy which may still be written is of an Agent
  that is there and its list has all the sessions to wait for (`FreshIsThere`), and that
  a ConfigMap is built from a Declarative spec (`CopyIsBuildable`). The list was made
  when the agent was already marked, and a cache does not lose a session that is there,
  so what is not in the list was not shown at the deletion. From this
  `WorkloadTypeCorrect` and `SessionsGoBeforeAgent`.

  `SeenInv` relates every copy to the object: as long as the key is not queued, what
  AgentReconciler has in hand is the stored Agent, and what it has built so far is of
  the stored spec (`AgentIsSeen`, by program counter in `InHand`); the same for the BYO
  reconciler (`RefIsSeen`), which leaves an agent alone only when its status says that
  it is not ready (`GoneIsNotReady`). It is inductive because each write by others
  queues the key of the Agent it changes, of the owner of a Deployment or ConfigMap, or of
  every agent that references the Deployment. `AgentsAreSeen`, `RefsAreSeen` and
  `ReportsAreOnSpec` follow, with and without the webhook.
* `ResourcesProofs`. `ResourcesInv` is the types, how far a push is (`PushShape`), that
  owners are UIDs that were given (`OwnersAreKnown`), and for each reconciler that its
  copy, while fresh, is the object and its findings are of it (`JudgeShape`,
  `DiscoveryShape`); that an object whose key is neither queued, in hand nor waiting for
  the timer has been judged as it is (`ModelConfigIsSeen`, `MCPServerIsSeen`); and that
  the last undelivered event carries the stored spec (`LastEventIsCurrent`). From it
  `ResourcesTypeCorrect`, `ModelConfigsAreSeen`, `MCPServersAreSeen`,
  `LastEventsAreCurrent` and `ToolsComeFromSpec`. `OrphansAreNotAdopted` is a step
  property: because a UID is never given twice, what the garbage collector may take it
  may take until it has.
* `TeamLifecycleProofs`. `TeamInv` says of the controller's copy, while it is current
  (`CtlCurrent`), that a team being started is pending and that one being repaired has
  the copy's members, none missing and none restarted less often (`Kept`); of a request
  that is current, that there is room for its member (`ReqCurrent`); and of the
  controller's loops how far they are (`CtlShape`). Every write is conditional or done on
  what is there, so each step keeps `Kept` and an end final: this gives
  `TeamTypeCorrect`, which includes that nobody is restarted more than `MaxRestarts`
  times, `MembersStayBounded`, `EndIsFinal` and `NobodyIsLost`. That the loops find
  the first member of a name is a lemma about least elements, by well-foundedness of `<`.

  `TheirsInv` says of the status and of the controller's copy, current or not, that each
  session in it was spawned for the member that has it and that no two members have the
  same. It is inductive because both are only copied, given phases, or given a session
  that was spawned in the same step and so is in neither (`TheirsSpawned`);
  `SessionsAreTheirs` follows.

The invariants that say that nothing is missed (`SeenInv`, `ModelConfigIsSeen`,
`MCPServerIsSeen`, `LastEventIsCurrent`, `NothingForgotten`, `DueIsSeen`) are the safety
half of `WorkloadFollowsSpec`, `ReadySettles`, `ToolsSettle` and `MessagesSettle`:
the state in which work is left to do and nobody is going to do it cannot be reached.
TLC agreed with each of them on the bounds of its run before it was proved. What
remains of those properties is that the work that is queued is done, which takes
fairness.

Only model-checked: the liveness properties (`EveryUpdateWritten`, `DeadStreamsLeave`,
`EndedIsTerminated`, `CountSettles`, `MessagesSettle`, `DeletedTeamVanishes`,
`LateTeamEnds`, `DeletedVanishes`, `WorkloadFollowsSpec`, `ReadySettles`, `ToolsSettle`,
`KeysGo`), because liveness under fairness is beyond the proof system, and the
violations, which are counterexamples. Every safety property that a run checks is
proved.

## 5. What is not modelled

* Generated code, the command line client, wiring, authorization, metrics and tracing:
  no state whose order matters.
* The sandbox broker, which the repository itself marks as not implemented.
* The fields of rendered Kubernetes objects, the Service's content, the HTTP client of the
  prober, TLS.
* The connector's backoff, reports and answers to commands: one client's own loop.
* The defaulting webhook and the validator of AgentSessions: stateless rules about fields
  nothing here depends on.
* The in-memory task store, the legacy team handlers, `FailTeam`, `ShouldCleanup`,
  `SpawnDynamicMember`, `Unadopt`: only tests use them, or nobody.
* Edits by hand that the REST API does not offer.

What would come next: the content of distribution (which skills and servers an agent's
snapshots hold), the composition of `AgentWorkload` with `ConfigPush`, and the connector
as the other end of a stream.
