--------------------------- MODULE AgentWorkload ----------------------------
(***************************************************************************)
(* One agent name: the Agent object, its Deployment and ConfigMap, the     *)
(* sessions labelled with it, and the three controllers that work on them  *)
(* at once.                                                                *)
(*   "agent"  AgentReconciler builds the objects of an agent that the      *)
(*            control plane runs (Declarative, BYO image) and keeps a      *)
(*            finalizer on it;                                             *)
(*   "disc"   DiscoveryReconciler turns a labelled Deployment into an      *)
(*            Agent that references it (BYO workloadRef);                  *)
(*   "byo"    BYOWorkloadReconciler observes the Deployment of such one.   *)
(*                                                                         *)
(* A controller works on one key at a time.  Predicates filter the events  *)
(* that put the key in its queue, never what is in the queue already: a    *)
(* key that was put back, to be tried again or after 30 s, is reconciled   *)
(* whatever the object of that name has become.                            *)
(*                                                                         *)
(* A read followed by a conditional write is one step where nothing else   *)
(* is kept from the read: if the object changes in between the write fails,*)
(* which is what every step may do (Fails).  The Ready condition is all of *)
(* the status that is kept.                                                *)
(*                                                                         *)
(* Agents, Deployments and ConfigMaps are read as they are: the informers  *)
(* of the control plane are taken to be up to date with them, and a change *)
(* and its event are one step.  The informer of AgentSessions is another   *)
(* one and lags behind: what a list of sessions shows may be gone, and     *)
(* what was just recorded may be missing from it.                          *)
(***************************************************************************)
EXTENDS Integers

CONSTANTS
    Sessions,       \* AgentSessions that may be created for the agent
    Workloads,      \* what a spec says of the Deployment: image, replicas, resources
    Configs,        \* what it says to the data plane: prompt, model, tools, skills
    Requests,       \* the pushes there may be
    EnableWebhook,  \* --enable-webhook
    MaxOps,         \* bound on what users do to the agent and to the Deployment
    MaxFaults,      \* bound on failed calls, failed probes, lost pods and restarts
    Own,            \* the pod template of a Deployment that a user made
    Default,        \* the workload of a spec that says nothing of it
    None

Controllers == {"agent", "byo", "disc"}

(* An adapter is registered for one runtime.                               *)
IsRegistered(runtime) == runtime = "agentscope-java"
Runtimes == {"agentscope-java", "custom"}

(* A Declarative spec, a BYO spec with an image, and one with a            *)
(* workloadRef.  Only the first has a config.                              *)
AgentSpec ==
    [kind : {"declarative"}, runtime : Runtimes, workload : Workloads, config : Configs]
      \cup [kind : {"image"}, runtime : Runtimes, workload : Workloads, config : {None}]
      \cup [kind : {"ref"}, runtime : Runtimes, workload : {Default}, config : {None}]
Templates == Workloads \cup {Own, Default}

(* A push and the spec that is made of it: with an image what else it says *)
(* to the data plane does not apply.                                       *)
PushAgentRequest == [image : BOOLEAN, runtime : Runtimes \cup {""}, workload : Workloads,
                     config : Configs]
buildAgentFromPush(r) ==
    [kind |-> IF r.image THEN "image" ELSE "declarative",
     runtime |-> IF r.runtime = "" THEN "agentscope-java" ELSE r.runtime,
     workload |-> r.workload,
     config |-> IF r.image THEN None ELSE r.config]

(* AgentValidator: an agent whose Deployment an adapter builds must have   *)
(* one.  (That the parts of a spec go with its type holds of AgentSpec.)   *)
validate(spec) == spec.kind # "ref" => IsRegistered(spec.runtime)

(* The objects as they are stored.  An owner is the UID in the controller  *)
(* owner reference, or 0.  (A Deployment of the agent's name has the       *)
(* selector app = name; with another one the API server would refuse the   *)
(* template that BuildDeployment makes.)                                   *)
Agent == [uid : Nat, spec : AgentSpec, deleting : BOOLEAN, fin : BOOLEAN, ready : BOOLEAN]
Deployment == [owner : Nat, managed : BOOLEAN, template : Templates,
               pods : {"none", "some", "all"}]
ConfigMap == [owner : Nat, config : Configs]
Copy == [uid : Nat, spec : AgentSpec]

(* What the adapter makes of a copy of an Agent.  The config leaves out    *)
(* what only matters to the Deployment.                                    *)
RenderAgentConfig(spec) == spec.config
BuildConfigMap(a) == [owner |-> a.uid, config |-> RenderAgentConfig(a.spec)]
BuildDeployment(a) ==
    [owner |-> a.uid, managed |-> TRUE, template |-> a.spec.workload, pods |-> "none"]

ASSUME WorkloadAssumption ==
    /\ Requests \subseteq PushAgentRequest
    /\ EnableWebhook \in BOOLEAN
    /\ MaxOps \in Nat /\ MaxFaults \in Nat
    /\ Own \notin Workloads \cup {Default}
    /\ None \notin Agent \cup Deployment \cup ConfigMap \cup Copy

VARIABLES
    agent,     \* the Agent, or None
    dep,       \* the Deployment of the agent's name, or None
    cm,        \* its ConfigMap, or None
    sessions,  \* sessions labelled with the agent that nobody has deleted
    seen,      \* those that the informer cache shows
    queue,     \* the controllers whose queue holds the key
    fresh,     \* the controllers that are to write back the Agent they have read,
               \* and whose copy is still what is stored
    ctl,       \* AgentReconciler: where it is, and its copies
    disc,      \* DiscoveryReconciler: where it is, and whether it has seen a ready pod
    byo,       \* BYOWorkloadReconciler: where it is, and the status it is to write
    uids,      \* UIDs given to Agents so far
    ops,       \* what users have done, counted against MaxOps
    faults,    \* counted against MaxFaults
    doomed     \* history: sessions that the cache showed when deletion of the
               \*          agent was asked for, and that are there still

objects == <<agent, dep, cm, sessions, seen, uids, doomed>>
vars == <<agent, dep, cm, sessions, seen, queue, fresh, ctl, disc, byo, uids, ops,
          faults, doomed>>

AgentPCs == {"idle", "clean", "finalizer", "refuse", "configmap", "deployment", "service",
             "status", "write"}

TypeOK ==
    /\ agent \in Agent \cup {None}
    /\ dep \in Deployment \cup {None}
    /\ cm \in ConfigMap \cup {None}
    /\ sessions \subseteq Sessions /\ seen \subseteq Sessions
    /\ queue \subseteq Controllers
    /\ fresh \subseteq {"agent", "byo"}
    /\ ctl \in [pc : AgentPCs, copy : Copy \cup {None}, todo : SUBSET Sessions, ok : BOOLEAN]
    /\ disc \in [pc : {"idle", "check", "create", "status"}, ok : BOOLEAN]
    /\ byo \in [pc : {"idle", "write"}, ok : BOOLEAN, again : BOOLEAN]
    /\ uids \in Nat /\ ops \in Nat /\ faults \in Nat
    /\ doomed \subseteq Sessions

IdleAgent == [pc |-> "idle", copy |-> None, todo |-> {}, ok |-> FALSE]
IdleDisc == [pc |-> "idle", ok |-> FALSE]
IdleByo == [pc |-> "idle", ok |-> FALSE, again |-> FALSE]

Init ==
    /\ agent = None /\ dep = None /\ cm = None
    /\ sessions = {} /\ seen = {} /\ queue = {} /\ fresh = {}
    /\ ctl = IdleAgent /\ disc = IdleDisc /\ byo = IdleByo
    /\ uids = 0 /\ ops = 0 /\ faults = 0
    /\ doomed = {}

-----------------------------------------------------------------------------
(* Events.                                                                 *)

(* agentWorkloadRefPredicate: of the two Agent controllers, the one that   *)
(* an event about a puts the key in the queue of.                          *)
agentWorkloadRefPredicate(a) == IF a.spec.kind = "ref" THEN {"byo"} ELSE {"agent"}

(* An event about d: Owns(Deployment) without a predicate, and             *)
(* managedDeploymentPredicate.                                             *)
DeploymentEvent(d) ==
    (IF d.owner # 0 THEN {"agent"} ELSE {}) \cup (IF d.managed THEN {"disc"} ELSE {})

(* The Agent becomes a, which is not None: every copy is old.              *)
Stored(a) ==
    /\ agent' = a
    /\ fresh' = {}

(* The Agent is gone: the event is about the object it was. *)
Removed ==
    /\ agent' = None
    /\ fresh' = {}

(* Mutant of Wakes: only changes of the spec are events                    *)
(* (GenerationChangedPredicate).                                           *)
WakesNobody == {}

(* The status of the Agent that is there changes. *)
Wakes == agentWorkloadRefPredicate(agent)

(* The status is written, with Ready as ok.  A condition carries the time  *)
(* of the write, and replicas go with it, so the Agent changes even if     *)
(* Ready does not - unless all is as somebody has written it within the    *)
(* same second.  Whatever changes, the writer puts the key back in the     *)
(* queues of again.                                                        *)
WriteReady(writer, ok, again) ==
    \/ /\ Stored([agent EXCEPT !.ready = ok])
       /\ queue' = queue \cup again \cup Wakes
    \/ /\ agent.ready = ok
       /\ UNCHANGED agent
       /\ fresh' = fresh \ {writer}
       /\ queue' = queue \cup again

-----------------------------------------------------------------------------
(* Users, and the data plane that reports sessions.                        *)

Op == /\ ops < MaxOps
      /\ ops' = ops + 1

New(spec) == [uid |-> uids + 1, spec |-> spec, deleting |-> FALSE, fin |-> FALSE,
              ready |-> FALSE]

(* Create the Agent, or replace the spec of the one there is, whoever made *)
(* it and even if it is being deleted.                                     *)
pushAgent(r) ==
    /\ Op
    /\ EnableWebhook => validate(buildAgentFromPush(r))
    /\ LET spec == buildAgentFromPush(r)
           a == IF agent = None THEN New(spec) ELSE [agent EXCEPT !.spec = spec]
       IN  /\ Stored(a)
           /\ queue' = queue \cup agentWorkloadRefPredicate(a)
    /\ uids' = IF agent = None THEN uids + 1 ELSE uids
    /\ UNCHANGED <<dep, cm, sessions, seen, ctl, disc, byo, faults, doomed>>

(* kubectl apply of an Agent that references the Deployment of its name. *)
applyRef(runtime) ==
    /\ Op
    /\ agent = None
    /\ LET a == New([kind |-> "ref", runtime |-> runtime, workload |-> Default,
                      config |-> None])
       IN  /\ Stored(a)
           /\ queue' = queue \cup agentWorkloadRefPredicate(a)
    /\ uids' = uids + 1
    /\ UNCHANGED <<dep, cm, sessions, seen, ctl, disc, byo, faults, doomed>>

(* deleteAgent: an Agent that has a finalizer stays, marked. *)
deleteAgent ==
    /\ Op
    /\ agent # None
    /\ ~agent.deleting
    /\ IF agent.fin THEN /\ Stored([agent EXCEPT !.deleting = TRUE])
                         /\ doomed' = seen \cap sessions
                    ELSE /\ Removed
                         /\ UNCHANGED doomed
    /\ queue' = queue \cup agentWorkloadRefPredicate(agent)
    /\ UNCHANGED <<dep, cm, sessions, seen, ctl, disc, byo, uids, faults>>

(* A user makes a Deployment of the agent's name. *)
createDeployment ==
    /\ Op
    /\ dep = None
    /\ dep' = [owner |-> 0, managed |-> FALSE, template |-> Own, pods |-> "none"]
    /\ UNCHANGED <<agent, cm, sessions, seen, queue, fresh, ctl, disc, byo, uids, faults, doomed>>

(* adoptAgent and Adopter.Adopt: label the Deployment, whoever owns it. *)
adoptAgent ==
    /\ Op
    /\ dep # None
    /\ ~dep.managed
    /\ dep' = [dep EXCEPT !.managed = TRUE]
    /\ queue' = queue \cup DeploymentEvent(dep')
    /\ UNCHANGED <<agent, cm, sessions, seen, fresh, ctl, disc, byo, uids, faults, doomed>>

DeploymentGone ==
    /\ dep # None
    /\ dep' = None
    /\ queue' = queue \cup DeploymentEvent(dep)
    /\ UNCHANGED <<agent, cm, sessions, seen, fresh, ctl, disc, byo, uids, faults, doomed>>

deleteDeployment == Op /\ DeploymentGone

(* Sessions are reported and spawned at any time (SessionControl,          *)
(* TeamLifecycle).                                                         *)
SessionStarts(s) ==
    /\ Op
    /\ s \notin sessions
    /\ sessions' = sessions \cup {s}
    /\ UNCHANGED <<agent, dep, cm, seen, queue, fresh, ctl, disc, byo, uids, faults, doomed>>

-----------------------------------------------------------------------------
(* Kubernetes.                                                             *)

(* Pods of the Deployment become ready.  Pods of a template that           *)
(* BuildDeployment made mount the agent's ConfigMap, and do not start      *)
(* without it.                                                             *)
PodsReady ==
    /\ dep # None
    /\ dep.pods # "all"
    /\ dep.template # Own => cm # None
    /\ \E p \in {"some", "all"} \ {dep.pods} : dep' = [dep EXCEPT !.pods = p]
    /\ queue' = queue \cup DeploymentEvent(dep)
    /\ UNCHANGED <<agent, cm, sessions, seen, fresh, ctl, disc, byo, uids, ops, faults, doomed>>

Fault == /\ faults < MaxFaults
         /\ faults' = faults + 1

PodsFail ==
    /\ Fault
    /\ dep # None
    /\ dep.pods # "none"
    /\ dep' = [dep EXCEPT !.pods = "none"]
    /\ queue' = queue \cup DeploymentEvent(dep)
    /\ UNCHANGED <<agent, cm, sessions, seen, fresh, ctl, disc, byo, uids, ops, doomed>>

(* The garbage collector deletes what the controller owner reference of    *)
(* which names an Agent that is no more.                                   *)
Orphan(uid) == uid # 0 /\ (IF agent = None THEN TRUE ELSE agent.uid # uid)

CollectDeployment ==
    /\ dep # None
    /\ Orphan(dep.owner)
    /\ DeploymentGone
    /\ UNCHANGED ops

CollectConfigMap ==
    /\ cm # None
    /\ Orphan(cm.owner)
    /\ cm' = None
    /\ queue' = queue \cup {"agent"}
    /\ UNCHANGED <<agent, dep, sessions, seen, fresh, ctl, disc, byo, uids, ops, faults, doomed>>

(* The informer of AgentSessions sees that a session was recorded or is    *)
(* gone.                                                                   *)
SessionSeen(s) ==
    /\ (s \in sessions) # (s \in seen)
    /\ seen' = IF s \in sessions THEN seen \cup {s} ELSE seen \ {s}
    /\ UNCHANGED <<agent, dep, cm, sessions, queue, fresh, ctl, disc, byo, uids, ops, faults,
                   doomed>>

-----------------------------------------------------------------------------
(* AgentReconciler.                                                        *)

(* Mutant: every agent gets a ConfigMap. *)
BuildingAll(a) ==
    [IdleAgent EXCEPT !.pc = IF IsRegistered(a.spec.runtime) THEN "configmap" ELSE "refuse",
                      !.copy = [uid |-> a.uid, spec |-> a.spec]]

(* The next step for an Agent that has its finalizer: Accepted=False if no *)
(* adapter is registered, and a ConfigMap for Declarative agents only.     *)
Building(a) ==
    IF ~IsRegistered(a.spec.runtime) THEN [IdleAgent EXCEPT !.pc = "refuse"]
    ELSE [IdleAgent EXCEPT
            !.pc = IF a.spec.kind = "declarative" THEN "configmap" ELSE "deployment",
            !.copy = [uid |-> a.uid, spec |-> a.spec]]

(* The key is taken from the queue and the Agent is read; if it is being   *)
(* deleted its sessions are listed from the cache.                         *)
Reconcile ==
    /\ ctl.pc = "idle"
    /\ "agent" \in queue
    /\ queue' = queue \ {"agent"}
    /\ IF agent = None THEN ctl' = IdleAgent
       ELSE IF agent.deleting THEN ctl' = [IdleAgent EXCEPT !.pc = "clean", !.todo = seen]
       ELSE IF ~agent.fin THEN ctl' = [IdleAgent EXCEPT !.pc = "finalizer"]
       ELSE ctl' = Building(agent)
    /\ fresh' = IF ctl'.pc \in {"clean", "finalizer"} THEN fresh \cup {"agent"} ELSE fresh
    /\ UNCHANGED <<objects, disc, byo, ops, faults>>

(* cleanupOwnedSessions deletes what was listed, if it is still there.     *)
cleanupOwnedSessions(s) ==
    /\ ctl.pc = "clean"
    /\ s \in ctl.todo
    /\ ctl' = [ctl EXCEPT !.todo = @ \ {s}]
    /\ sessions' = sessions \ {s}
    /\ doomed' = doomed \ {s}
    /\ UNCHANGED <<agent, dep, cm, seen, queue, fresh, disc, byo, uids, ops, faults>>

(* Mutant: what could not be deleted is skipped. *)
CleanedAnyway == TRUE

Cleaned == ctl.todo = {}

(* All of them are deleted: the finalizer is removed from the copy and the *)
(* copy is written, after which nothing holds the Agent.                   *)
RemoveFinalizer ==
    /\ ctl.pc = "clean"
    /\ Cleaned
    /\ "agent" \in fresh
    /\ Removed
    /\ ctl' = IdleAgent
    /\ queue' = queue \cup agentWorkloadRefPredicate(agent)
    /\ UNCHANGED <<dep, cm, sessions, seen, disc, byo, uids, ops, faults, doomed>>

AddFinalizer ==
    /\ ctl.pc = "finalizer"
    /\ "agent" \in fresh
    /\ Stored([agent EXCEPT !.fin = TRUE])
    /\ ctl' = Building(agent)
    /\ queue' = queue \cup agentWorkloadRefPredicate(agent)
    /\ UNCHANGED <<dep, cm, sessions, seen, disc, byo, uids, ops, faults, doomed>>

(* setCondition UnsupportedRuntime: reconciliation ends, and is not put    *)
(* back in the queue.                                                      *)
setCondition ==
    /\ ctl.pc = "refuse"
    /\ agent # None
    /\ WriteReady("agent", agent.ready, {})
    /\ ctl' = IdleAgent
    /\ UNCHANGED <<dep, cm, sessions, seen, disc, byo, uids, ops, faults, doomed>>

reconcileConfigMap ==
    /\ ctl.pc = "configmap"
    /\ LET new == BuildConfigMap(ctl.copy)
       IN  cm' = IF cm = None THEN new ELSE [cm EXCEPT !.config = new.config]
    /\ ctl' = [ctl EXCEPT !.pc = "deployment"]
    /\ queue' = IF cm' = cm THEN queue ELSE queue \cup {"agent"}
    /\ UNCHANGED <<agent, dep, sessions, seen, fresh, disc, byo, uids, ops, faults, doomed>>

(* reconcileDeployment with what BuildDeployment makes of the copy: the    *)
(* Deployment that is there keeps its labels and its owner, and gets the   *)
(* replicas and the template of the agent, whoever made it.                *)
Rescaled(d, template) ==
    IF d.template = template \/ d.pods = "none" THEN {d.pods} ELSE {"some", "all"}

(* Mutant: a Deployment that is there is left as it is. *)
reconcileDeploymentOnce ==
    /\ ctl.pc = "deployment"
    /\ dep' = IF dep = None THEN BuildDeployment(ctl.copy)
              ELSE dep
    /\ ctl' = [IdleAgent EXCEPT !.pc = "service"]
    /\ queue' = IF dep' = dep THEN queue ELSE queue \cup DeploymentEvent(dep')
    /\ UNCHANGED <<agent, cm, sessions, seen, fresh, disc, byo, uids, ops, faults, doomed>>

reconcileDeployment ==
    /\ ctl.pc = "deployment"
    /\ LET new == BuildDeployment(ctl.copy)
       IN  IF dep = None THEN dep' = new
           ELSE \E p \in Rescaled(dep, new.template) :
                  dep' = [dep EXCEPT !.template = new.template, !.pods = p]
    /\ ctl' = [IdleAgent EXCEPT !.pc = "service"]
    /\ queue' = IF dep' = dep THEN queue ELSE queue \cup DeploymentEvent(dep')
    /\ UNCHANGED <<agent, cm, sessions, seen, fresh, disc, byo, uids, ops, faults, doomed>>

(* reconcileService: the ports and the selector of an agent's Service      *)
(* never change and nothing here reads them, so all that matters is that   *)
(* this step may fail (AgentFails).                                        *)
reconcileService ==
    /\ ctl.pc = "service"
    /\ ctl' = [ctl EXCEPT !.pc = "status"]
    /\ UNCHANGED <<objects, queue, fresh, disc, byo, ops, faults>>

(* updateStatus reads the Deployment: the agent is ready if all replicas   *)
(* are.  (What the probe tells of the data plane is not kept.)             *)
updateStatus ==
    /\ ctl.pc = "status"
    /\ IF dep = None
         THEN ctl' = IdleAgent /\ queue' = queue \cup {"agent"}
         ELSE ctl' = [ctl EXCEPT !.pc = "write", !.ok = (dep.pods = "all")] /\ UNCHANGED queue
    /\ UNCHANGED <<objects, fresh, disc, byo, ops, faults>>

(* ... and writes the status of whatever Agent there is then, reading it   *)
(* again on a conflict.  The key comes back after 30 s.                    *)
WriteStatus ==
    /\ ctl.pc = "write"
    /\ agent # None
    /\ WriteReady("agent", ctl.ok, {"agent"})
    /\ ctl' = IdleAgent
    /\ UNCHANGED <<dep, cm, sessions, seen, disc, byo, uids, ops, faults, doomed>>

(* An error ends the reconciliation: the copy is old, or the API server    *)
(* fails the call.  (The Agent is not gone: nobody else removes its        *)
(* finalizer.)                                                             *)
AgentError ==
    /\ ctl.pc # "idle"
    /\ \/ /\ ctl.pc \in {"finalizer", "clean"} /\ Cleaned /\ "agent" \notin fresh
          /\ UNCHANGED faults
       \/ Fault
    /\ ctl' = IdleAgent
    /\ fresh' = fresh \ {"agent"}
    /\ UNCHANGED <<objects, disc, byo, ops>>

(* Mutant: the error is logged, and the key is not put back. *)
AgentGivesUp == AgentError /\ UNCHANGED queue

(* ... and it is tried again. *)
AgentFails == AgentError /\ queue' = queue \cup {"agent"}

-----------------------------------------------------------------------------
(* DiscoveryReconciler.                                                    *)

(* Reconcile reads the Deployment, which must be labelled. *)
Discover ==
    /\ disc.pc = "idle"
    /\ "disc" \in queue
    /\ queue' = queue \ {"disc"}
    /\ disc' = IF dep = None THEN IdleDisc
               ELSE IF ~dep.managed THEN IdleDisc
               ELSE [pc |-> "check", ok |-> dep.pods # "none"]
    /\ UNCHANGED <<objects, fresh, ctl, byo, ops, faults>>

(* reconcileExistingAgent: ready if any pod is, for every kind of agent. *)
reconcileExistingAgent ==
    /\ disc.pc = "check"
    /\ agent # None
    /\ WriteReady("disc", disc.ok, {"disc"})
    /\ disc' = IdleDisc
    /\ UNCHANGED <<dep, cm, sessions, seen, ctl, byo, uids, ops, faults, doomed>>

(* There is no Agent yet: wait for a ready pod, or probe one. *)
NoAgent ==
    /\ disc.pc = "check"
    /\ agent = None
    /\ IF disc.ok
         THEN disc' = [pc |-> "create", ok |-> FALSE] /\ UNCHANGED queue
         ELSE disc' = IdleDisc /\ queue' = queue \cup {"disc"}
    /\ UNCHANGED <<objects, fresh, ctl, byo, ops, faults>>

(* createBYOAgent, with the runtime of the annotation, of the probe, or    *)
(* "custom".                                                               *)
createBYOAgent(runtime) ==
    /\ disc.pc = "create"
    /\ agent = None
    /\ LET a == New([kind |-> "ref", runtime |-> runtime, workload |-> Default,
                      config |-> None])
       IN  /\ Stored(a)
           /\ queue' = queue \cup agentWorkloadRefPredicate(a)
    /\ uids' = uids + 1
    /\ disc' = [disc EXCEPT !.pc = "status"]
    /\ UNCHANGED <<dep, cm, sessions, seen, ctl, byo, ops, faults, doomed>>

(* ... and the status WorkloadDiscovered of the Agent of that name.        *)
(* Reconciliation ends, and is not put back in the queue.                  *)
WorkloadDiscovered ==
    /\ disc.pc = "status"
    /\ agent # None
    /\ WriteReady("disc", TRUE, {})
    /\ disc' = IdleDisc
    /\ UNCHANGED <<dep, cm, sessions, seen, ctl, byo, uids, ops, faults, doomed>>

(* An Agent has been created meanwhile, or deleted, or the API server      *)
(* fails the call.                                                         *)
DiscoveryFails ==
    /\ disc.pc # "idle"
    /\ \/ disc.pc = "create" /\ agent # None /\ UNCHANGED faults
       \/ disc.pc = "status" /\ agent = None /\ UNCHANGED faults
       \/ Fault
    /\ disc' = IdleDisc
    /\ queue' = queue \cup {"disc"}
    /\ UNCHANGED <<objects, fresh, ctl, byo, ops>>

-----------------------------------------------------------------------------
(* BYOWorkloadReconciler.                                                  *)

(* probeAndUpdateStatus: what becomes of Ready when the health probe       *)
(* answers, when it does not, and when no ready pod is found.              *)
probeAndUpdateStatus(ok) ==
    \/ ok = TRUE /\ UNCHANGED faults
    \/ ok \in {FALSE, agent.ready} /\ Fault

(* Reconcile reads the Agent and the Deployment it references. *)
ReconcileBYO ==
    /\ byo.pc = "idle"
    /\ "byo" \in queue
    /\ agent # None
    /\ agent.spec.kind = "ref"
    /\ queue' = queue \ {"byo"}
    /\ fresh' = fresh \cup {"byo"}
    /\ \E ok \in BOOLEAN :
          /\ IF dep = None THEN ~ok /\ UNCHANGED faults
             ELSE IF dep.pods = "none" THEN ~ok /\ UNCHANGED faults
             ELSE probeAndUpdateStatus(ok)
          /\ byo' = [pc |-> "write", ok |-> ok, again |-> dep # None]
    /\ UNCHANGED <<objects, ctl, disc, ops>>

ReconcileGone ==
    /\ byo.pc = "idle"
    /\ "byo" \in queue
    /\ agent = None
    /\ queue' = queue \ {"byo"}
    /\ UNCHANGED <<objects, fresh, ctl, disc, byo, ops, faults>>

(* The Agent of that name no longer references a workload: spec.byo or its *)
(* workloadRef is nil, the reconciliation panics, controller-runtime       *)
(* recovers and tries again.                                               *)
ReconcilePanics ==
    /\ byo.pc = "idle"
    /\ "byo" \in queue
    /\ agent # None
    /\ agent.spec.kind # "ref"
    /\ UNCHANGED vars

(* The copy is written.  The key comes back after 30 s, but not if the     *)
(* Deployment was gone (WorkloadDeleted).                                  *)
WriteBYO ==
    /\ byo.pc = "write"
    /\ "byo" \in fresh
    /\ WriteReady("byo", byo.ok, IF byo.again THEN {"byo"} ELSE {})
    /\ byo' = IdleByo
    /\ UNCHANGED <<dep, cm, sessions, seen, ctl, disc, uids, ops, faults, doomed>>

BYOFails ==
    /\ byo.pc = "write"
    /\ \/ "byo" \notin fresh /\ UNCHANGED faults
       \/ Fault
    /\ byo' = IdleByo
    /\ queue' = queue \cup {"byo"}
    /\ fresh' = fresh \ {"byo"}
    /\ UNCHANGED <<objects, ctl, disc, ops>>

-----------------------------------------------------------------------------

(* The control plane restarts: what it was doing and what was queued is    *)
(* lost, and there is an event about every object that is there.           *)
Restart ==
    /\ Fault
    /\ ctl' = IdleAgent /\ disc' = IdleDisc /\ byo' = IdleByo
    /\ fresh' = {}
    /\ seen' = sessions
    /\ queue' = (IF agent = None THEN {} ELSE agentWorkloadRefPredicate(agent))
                \cup (IF dep = None THEN {} ELSE DeploymentEvent(dep))
                \cup (IF cm = None THEN {} ELSE {"agent"})
    /\ UNCHANGED <<agent, dep, cm, sessions, uids, doomed, ops>>

Users ==
    \/ \E r \in Requests : pushAgent(r)
    \/ \E r \in Runtimes : applyRef(r)
    \/ deleteAgent
    \/ createDeployment
    \/ adoptAgent
    \/ deleteDeployment
    \/ \E s \in Sessions : SessionStarts(s)

Collector == CollectDeployment \/ CollectConfigMap

AgentReconciler ==
    \/ Reconcile
    \/ \E s \in Sessions : cleanupOwnedSessions(s)
    \/ RemoveFinalizer
    \/ AddFinalizer
    \/ setCondition
    \/ reconcileConfigMap
    \/ reconcileDeployment
    \/ reconcileService
    \/ updateStatus
    \/ WriteStatus
    \/ AgentFails

DiscoveryReconciler ==
    \/ Discover
    \/ reconcileExistingAgent
    \/ NoAgent
    \/ \E r \in Runtimes : createBYOAgent(r)
    \/ WorkloadDiscovered
    \/ DiscoveryFails

BYOWorkloadReconciler == ReconcileBYO \/ ReconcileGone \/ ReconcilePanics \/ WriteBYO \/ BYOFails

Next ==
    \/ Users
    \/ PodsReady
    \/ PodsFail
    \/ Collector
    \/ \E s \in Sessions : SessionSeen(s)
    \/ AgentReconciler
    \/ DiscoveryReconciler
    \/ BYOWorkloadReconciler
    \/ Restart

Spec == Init /\ [][Next]_vars

(* Each controller has workers that take what is queued and finish what    *)
(* they take; the garbage collector runs, and the informer catches up.     *)
(* Users do nothing in particular, and pods need not become ready.  A      *)
(* refused write of the finalizer is tried again after a short while, and  *)
(* status writes come once for an event or in 30 s: they do not get in     *)
(* between read and write every time, for ever.                            *)
Fairness ==
    /\ WF_vars(AgentReconciler)
    /\ WF_vars(DiscoveryReconciler)
    /\ WF_vars(BYOWorkloadReconciler)
    /\ WF_vars(CollectDeployment)
    /\ WF_vars(CollectConfigMap)
    /\ \A s \in Sessions : WF_vars(SessionSeen(s))
    /\ SF_vars(RemoveFinalizer)
    /\ SF_vars(AddFinalizer)

FairSpec == Spec /\ Fairness

-----------------------------------------------------------------------------
(* Properties.                                                             *)

(* No session of an agent outlives it that the cache showed at the moment  *)
(* deletion was asked for: when an agent with a finalizer is gone, every   *)
(* one of them has been deleted (cleanupOwnedSessions), however often the  *)
(* listing and the deletions failed and were tried again in between.  One  *)
(* that was recorded just before, and that the cache does not show yet     *)
(* when it is listed, may stay.                                            *)
SessionsGoFirst == agent = None => doomed = {}

(* When AgentReconciler is about to report on the Deployment of an agent   *)
(* (updateStatus, agent_controller.go:259-284), and is not to look again,  *)
(* what it reports on was built of the spec that is stored, although it    *)
(* was built of a copy: a Deployment that some Agent owns has its          *)
(* workload, and a Declarative agent's ConfigMap has its config.           *)
ReportsOnSpec ==
    ctl.pc = "write" /\ "agent" \notin queue /\ agent # None /\ agent.spec.kind # "ref" =>
        /\ dep # None /\ dep.owner # 0 => dep.template = agent.spec.workload
        /\ agent.spec.kind = "declarative" => cm # None /\ cm.config = agent.spec.config

(* A deleted agent that the control plane runs does go, although its       *)
(* finalizer is removed by a conditional write that pushes and the status  *)
(* writes of two other controllers race with.                              *)
Leaving == agent # None /\ agent.deleting /\ agent.spec.kind # "ref"
DeletedVanishes == Leaving ~> ~Leaving

(* The objects settle on the spec that was pushed last: once an agent      *)
(* stays, its Deployment and, if it is Declarative, its ConfigMap are      *)
(* there, made of that spec, whatever copies were in flight, whoever owned *)
(* or deleted them.  With the webhook every agent that was let in is       *)
(* built; without it, those of which the runtime is known.                 *)
Settled == agent # None /\ ~agent.deleting /\ agent.spec.kind # "ref"
           /\ (EnableWebhook \/ IsRegistered(agent.spec.runtime))
Built == /\ dep # None /\ dep.template = agent.spec.workload
         /\ agent.spec.kind = "declarative" => cm # None /\ cm.config = agent.spec.config
WorkloadFollowsSpec == <>[]Settled => <>[](agent # None /\ Built)

(* Ready settles on what the Deployment is, although three controllers     *)
(* write it by three criteria from reads they made earlier: true if all    *)
(* pods of a labelled Deployment stay ready, false if an agent references  *)
(* a Deployment that stays away.                                           *)
AllReady == /\ dep # None /\ dep.managed /\ dep.pods = "all"
            /\ agent # None /\ ~agent.deleting
AllGone == dep = None /\ agent # None /\ agent.spec.kind = "ref"
ReadySettles ==
    /\ <>[]AllReady => <>[](agent # None /\ agent.ready)
    /\ <>[]AllGone => <>[](agent # None /\ ~agent.ready)

=============================================================================
