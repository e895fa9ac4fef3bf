------------------------ MODULE AgentWorkloadProofs ------------------------
(***************************************************************************)
(* Proofs about one agent name and the three controllers that work on it,  *)
(* for any pushes, sessions, specs and bounds: types, and that an agent is *)
(* only let go when the sessions known at its deletion are deleted.        *)
(***************************************************************************)
EXTENDS AgentWorkload, TLAPS

(* Only an Agent that has a finalizer is marked as deleted and stays.      *)
DeletingIsHeld == agent # None /\ agent.deleting => agent.fin

(* Sessions that deletion has to wait for are there and are seen to be,    *)
(* and the Agent is there.                                                 *)
DoomedIsHeld ==
    /\ doomed \subseteq sessions \cap seen
    /\ doomed # {} => agent # None /\ agent.deleting

(* A copy that is still what is stored is of an Agent that is there; while *)
(* the sessions of a deleted one are cleaned up, none is forgotten.        *)
FreshIsThere ==
    /\ "byo" \in fresh => agent # None
    /\ "agent" \in fresh /\ ctl.pc \in {"clean", "finalizer"} => agent # None
    /\ "agent" \in fresh /\ ctl.pc = "clean" => doomed \subseteq ctl.todo

(* Objects are built from the copy of an Agent, a ConfigMap only of a      *)
(* Declarative one.                                                        *)
CopyIsBuildable ==
    /\ ctl.pc \in {"configmap", "deployment"} => ctl.copy \in Copy
    /\ ctl.pc = "configmap" => ctl.copy.spec.kind = "declarative"

(* The inductive invariant. *)
AgentInv ==
    TypeOK /\ DeletingIsHeld /\ DoomedIsHeld /\ FreshIsThere /\ CopyIsBuildable

CtlType == [pc : AgentPCs, copy : Copy \cup {None}, todo : SUBSET Sessions, ok : BOOLEAN]

-----------------------------------------------------------------------------
(* Objects.                                                                *)

(* The spec that a push makes, and the one of a workloadRef. *)
LEMMA SpecTypes ==
  /\ WorkloadAssumption => \A r \in Requests : buildAgentFromPush(r) \in AgentSpec
  /\ \A rt \in Runtimes :
        [kind |-> "ref", runtime |-> rt, workload |-> Default, config |-> None] \in AgentSpec
<1>0. \A rt \in Runtimes, w \in Workloads, c \in Configs :
         /\ [kind |-> "image", runtime |-> rt, workload |-> w, config |-> None] \in AgentSpec
         /\ [kind |-> "declarative", runtime |-> rt, workload |-> w, config |-> c] \in AgentSpec
  BY DEF AgentSpec
<1>1. ASSUME NEW r \in PushAgentRequest PROVE buildAgentFromPush(r) \in AgentSpec
  <2>1. /\ r.image \in BOOLEAN /\ r.runtime \in Runtimes \cup {""}
        /\ r.workload \in Workloads /\ r.config \in Configs
    BY DEF PushAgentRequest
  <2>2. PICK rt \in Runtimes : rt = IF r.runtime = "" THEN "agentscope-java" ELSE r.runtime
    BY <2>1 DEF Runtimes
  <2>3. CASE r.image
    <3>1. buildAgentFromPush(r) = [kind |-> "image", runtime |-> rt, workload |-> r.workload,
                                   config |-> None]
      BY <2>2, <2>3 DEF buildAgentFromPush
    <3> QED BY <1>0, <2>1, <3>1
  <2>4. CASE ~r.image
    <3>1. buildAgentFromPush(r) = [kind |-> "declarative", runtime |-> rt,
                                   workload |-> r.workload, config |-> r.config]
      BY <2>2, <2>4 DEF buildAgentFromPush
    <3> QED BY <1>0, <2>1, <3>1
  <2> QED BY <2>1, <2>3, <2>4
<1>2. ASSUME NEW rt \in Runtimes
      PROVE  [kind |-> "ref", runtime |-> rt, workload |-> Default, config |-> None] \in AgentSpec
  BY DEF AgentSpec
<1> QED BY <1>1, <1>2 DEF WorkloadAssumption

(* The fields of a spec. *)
LEMMA SpecFields ==
  ASSUME NEW s \in AgentSpec
  PROVE  /\ s.workload \in Templates
         /\ s.kind = "declarative" => s.config \in Configs
BY DEF AgentSpec, Templates

(* A new Agent and what may change of one. *)
LEMMA AgentFields ==
  /\ \A s \in AgentSpec :
        uids \in Nat => /\ New(s) \in Agent
                        /\ New(s).deleting = FALSE /\ New(s).fin = FALSE
  /\ \A a \in Agent :
        /\ \A s \in AgentSpec :
              LET b == [a EXCEPT !.spec = s]
              IN b \in Agent /\ b.deleting = a.deleting /\ b.fin = a.fin
        /\ LET b == [a EXCEPT !.deleting = TRUE]
           IN b \in Agent /\ b.deleting = TRUE /\ b.fin = a.fin
        /\ LET b == [a EXCEPT !.fin = TRUE]
           IN b \in Agent /\ b.deleting = a.deleting /\ b.fin = TRUE
<1>1. ASSUME NEW s \in AgentSpec, uids \in Nat
      PROVE  New(s) \in Agent /\ New(s).deleting = FALSE /\ New(s).fin = FALSE
  BY <1>1 DEF New, Agent
<1>2. ASSUME NEW a \in Agent, NEW s \in AgentSpec
      PROVE  LET b == [a EXCEPT !.spec = s]
             IN b \in Agent /\ b.deleting = a.deleting /\ b.fin = a.fin
  BY DEF Agent
<1>3. ASSUME NEW a \in Agent
      PROVE  LET b == [a EXCEPT !.deleting = TRUE]
             IN b \in Agent /\ b.deleting = TRUE /\ b.fin = a.fin
  BY DEF Agent
<1>4. ASSUME NEW a \in Agent
      PROVE  LET b == [a EXCEPT !.fin = TRUE]
             IN b \in Agent /\ b.deleting = a.deleting /\ b.fin = TRUE
  BY DEF Agent
<1> QED BY <1>1, <1>2, <1>3, <1>4

(* Setting Ready. *)
LEMMA ReadyFields ==
  ASSUME NEW a \in Agent, NEW ok \in BOOLEAN
  PROVE  LET b == [a EXCEPT !.ready = ok]
         IN b \in Agent /\ b.deleting = a.deleting /\ b.fin = a.fin
BY DEF Agent

(* Deployments. *)
LEMMA DeploymentFields ==
  /\ [owner |-> 0, managed |-> FALSE, template |-> Own, pods |-> "none"] \in Deployment
  /\ \A c \in Copy : BuildDeployment(c) \in Deployment
  /\ \A d \in Deployment :
        /\ [d EXCEPT !.managed = TRUE] \in Deployment
        /\ d.pods \in {"none", "some", "all"}
        /\ \A p \in {"none", "some", "all"} :
              /\ [d EXCEPT !.pods = p] \in Deployment
              /\ \A c \in Copy :
                    [d EXCEPT !.template = BuildDeployment(c).template, !.pods = p] \in Deployment
<1>1. [owner |-> 0, managed |-> FALSE, template |-> Own, pods |-> "none"] \in Deployment
  BY DEF Deployment, Templates
<1>2. ASSUME NEW c \in Copy
      PROVE  BuildDeployment(c) \in Deployment /\ BuildDeployment(c).template \in Templates
  <2>1. c.uid \in Nat /\ c.spec.workload \in Templates
    BY SpecFields DEF Copy
  <2> QED BY <2>1 DEF BuildDeployment, Deployment
<1>3. ASSUME NEW d \in Deployment
      PROVE  [d EXCEPT !.managed = TRUE] \in Deployment /\ d.pods \in {"none", "some", "all"}
  BY DEF Deployment
<1>4. ASSUME NEW d \in Deployment, NEW p \in {"none", "some", "all"}
      PROVE  [d EXCEPT !.pods = p] \in Deployment
  BY DEF Deployment
<1>5. ASSUME NEW d \in Deployment, NEW p \in {"none", "some", "all"}, NEW t \in Templates
      PROVE  [d EXCEPT !.template = t, !.pods = p] \in Deployment
  BY DEF Deployment
<1> QED BY <1>1, <1>2, <1>3, <1>4, <1>5

(* ConfigMaps. *)
LEMMA ConfigMapFields ==
  ASSUME NEW c \in Copy, c.spec.kind = "declarative"
  PROVE  /\ BuildConfigMap(c) \in ConfigMap
         /\ \A m \in ConfigMap : [m EXCEPT !.config = BuildConfigMap(c).config] \in ConfigMap
<1>1. c.uid \in Nat /\ c.spec.config \in Configs
  BY SpecFields DEF Copy
<1>2. BuildConfigMap(c) \in ConfigMap /\ BuildConfigMap(c).config \in Configs
  BY <1>1 DEF BuildConfigMap, RenderAgentConfig, ConfigMap
<1> QED BY <1>2 DEF ConfigMap

(* Stages of AgentReconciler. *)
LEMMA Stages ==
  /\ IdleAgent \in CtlType /\ IdleAgent.pc = "idle" /\ IdleAgent.todo = {}
  /\ \A p \in AgentPCs :
        [IdleAgent EXCEPT !.pc = p] \in CtlType /\ [IdleAgent EXCEPT !.pc = p].pc = p
  /\ \A t \in SUBSET Sessions :
        LET c == [IdleAgent EXCEPT !.pc = "clean", !.todo = t]
        IN c \in CtlType /\ c.pc = "clean" /\ c.todo = t
  /\ \A c \in CtlType :
        /\ \A p \in AgentPCs :
              LET d == [c EXCEPT !.pc = p]
              IN d \in CtlType /\ d.pc = p /\ d.copy = c.copy
        /\ \A s \in Sessions :
              LET d == [c EXCEPT !.todo = @ \ {s}]
              IN d \in CtlType /\ d.pc = c.pc /\ d.copy = c.copy /\ d.todo = c.todo \ {s}
<1>1. IdleAgent \in CtlType /\ IdleAgent.pc = "idle" /\ IdleAgent.todo = {}
  BY DEF IdleAgent, CtlType, AgentPCs
<1>2. ASSUME NEW p \in AgentPCs
      PROVE  [IdleAgent EXCEPT !.pc = p] \in CtlType /\ [IdleAgent EXCEPT !.pc = p].pc = p
  BY DEF IdleAgent, CtlType
<1>3. ASSUME NEW t \in SUBSET Sessions
      PROVE  LET c == [IdleAgent EXCEPT !.pc = "clean", !.todo = t]
             IN c \in CtlType /\ c.pc = "clean" /\ c.todo = t
  BY DEF IdleAgent, CtlType, AgentPCs
<1>4. ASSUME NEW c \in CtlType, NEW p \in AgentPCs
      PROVE  LET d == [c EXCEPT !.pc = p]
             IN d \in CtlType /\ d.pc = p /\ d.copy = c.copy
  BY DEF CtlType
<1>5. ASSUME NEW c \in CtlType, NEW s \in Sessions
      PROVE  LET d == [c EXCEPT !.todo = @ \ {s}]
             IN d \in CtlType /\ d.pc = c.pc /\ d.copy = c.copy /\ d.todo = c.todo \ {s}
  BY DEF CtlType
<1> QED BY <1>1, <1>2, <1>3, <1>4, <1>5

(* Stages that a reconciliation starts at or goes on to. *)
LEMMA StageNames ==
  {"finalizer", "deployment", "service", "status"} \subseteq AgentPCs
BY DEF AgentPCs

(* Starting at one of them, *)
LEMMA StartOf ==
  ASSUME NEW d, NEW p \in AgentPCs, d = [IdleAgent EXCEPT !.pc = p]
  PROVE  d \in CtlType /\ d.pc = p
BY Stages, Zenon

(* going on to one, *)
LEMMA StageOf ==
  ASSUME NEW c \in CtlType, NEW d, NEW p \in AgentPCs, d = [c EXCEPT !.pc = p]
  PROVE  d \in CtlType /\ d.pc = p /\ d.copy = c.copy
BY Stages, Zenon

(* and going on with the list of sessions. *)
LEMMA ListWithout ==
  ASSUME NEW c \in CtlType, NEW d, NEW s \in Sessions, d = [c EXCEPT !.todo = @ \ {s}]
  PROVE  /\ d \in CtlType /\ d.pc = c.pc /\ d.copy = c.copy
         /\ d.todo = c.todo \ {s}
BY Stages, Zenon

(* What an Agent is built by. *)
LEMMA BuildingType ==
  ASSUME NEW a \in Agent
  PROVE  /\ Building(a) \in CtlType
         /\ Building(a).pc \in {"refuse", "configmap", "deployment"}
         /\ Building(a).pc \in {"configmap", "deployment"} => Building(a).copy \in Copy
         /\ Building(a).pc = "configmap" => Building(a).copy.spec.kind = "declarative"
<1>0. a.uid \in Nat /\ a.spec \in AgentSpec
  BY DEF Agent
<1>1. PICK c \in Copy : c = [uid |-> a.uid, spec |-> a.spec] /\ c.spec = a.spec
  <2>1. [uid |-> a.uid, spec |-> a.spec] \in Copy
    BY <1>0 DEF Copy
  <2> QED BY <2>1
<1>2. ASSUME NEW p \in {"configmap", "deployment"}, NEW d \in Copy
      PROVE  LET b == [IdleAgent EXCEPT !.pc = p, !.copy = d]
             IN b \in CtlType /\ b.pc = p /\ b.copy = d
  BY DEF IdleAgent, CtlType, AgentPCs
<1>3. CASE ~IsRegistered(a.spec.runtime)
  <2>1. Building(a) = [IdleAgent EXCEPT !.pc = "refuse"]
    BY <1>3 DEF Building
  <2>2. [IdleAgent EXCEPT !.pc = "refuse"] \in CtlType
        /\ [IdleAgent EXCEPT !.pc = "refuse"].pc = "refuse"
    BY Stages DEF AgentPCs
  <2> QED BY <2>1, <2>2, Zenon
<1>4. CASE IsRegistered(a.spec.runtime) /\ a.spec.kind = "declarative"
  <2>1. Building(a) = [IdleAgent EXCEPT !.pc = "configmap", !.copy = c]
    BY <1>1, <1>4 DEF Building
  <2>2. PICK b \in CtlType : b = Building(a) /\ b.pc = "configmap" /\ b.copy = c
    BY <1>2, <2>1, Zenon
  <2> QED BY <1>1, <1>4, <2>2
<1>5. CASE IsRegistered(a.spec.runtime) /\ a.spec.kind # "declarative"
  <2>1. Building(a) = [IdleAgent EXCEPT !.pc = "deployment", !.copy = c]
    BY <1>1, <1>5 DEF Building
  <2>2. PICK b \in CtlType : b = Building(a) /\ b.pc = "deployment" /\ b.copy = c
    BY <1>2, <2>1, Zenon
  <2> QED BY <1>1, <1>5, <2>2
<1> QED BY <1>3, <1>4, <1>5

(* None is no object. *)
LEMMA NoneIsNothing ==
  ASSUME WorkloadAssumption
  PROVE  None \notin Agent /\ None \notin Deployment /\ None \notin ConfigMap /\ None \notin Copy
BY DEF WorkloadAssumption

(* Events are for controllers. *)
LEMMA EventTypes ==
  /\ \A a : agentWorkloadRefPredicate(a) \subseteq Controllers
  /\ \A d : DeploymentEvent(d) \subseteq Controllers
  /\ Wakes \subseteq Controllers
BY DEF agentWorkloadRefPredicate, DeploymentEvent, Wakes, Controllers

-----------------------------------------------------------------------------
(* What is left to show of a step once the Agent is settled.               *)

OtherTypes ==
    /\ dep \in Deployment \cup {None} /\ cm \in ConfigMap \cup {None}
    /\ sessions \subseteq Sessions /\ seen \subseteq Sessions /\ queue \subseteq Controllers
    /\ disc \in [pc : {"idle", "check", "create", "status"}, ok : BOOLEAN]
    /\ byo \in [pc : {"idle", "write"}, ok : BOOLEAN, again : BOOLEAN]
    /\ uids \in Nat /\ ops \in Nat /\ faults \in Nat

(* The types are those of the Agent, of the copies and of the rest. *)
LEMMA Types ==
  TypeOK  => /\ agent \in Agent \cup {None} /\ fresh \subseteq {"agent", "byo"}
             /\ ctl \in CtlType /\ doomed \subseteq Sessions /\ OtherTypes
BY DEF TypeOK, OtherTypes, CtlType

(* ... and the other way round, *)
LEMMA TypesBack ==
  ASSUME agent \in Agent \cup {None}, fresh \subseteq {"agent", "byo"},
         ctl \in CtlType, doomed \subseteq Sessions, OtherTypes
  PROVE  TypeOK
BY DEF TypeOK, OtherTypes, CtlType

(* after a step, too. *)
LEMMA TypesNext ==
  ASSUME agent' \in Agent \cup {None}, fresh' \subseteq {"agent", "byo"},
         ctl' \in CtlType, doomed' \subseteq Sessions, OtherTypes'
  PROVE  TypeOK'
<1>1. /\ agent' \in Agent \cup {None} /\ fresh' \subseteq {"agent", "byo"}
      /\ ctl' \in [pc : AgentPCs, copy : Copy \cup {None}, todo : SUBSET Sessions, ok : BOOLEAN]
      /\ doomed' \subseteq Sessions
  BY DEF CtlType
<1>2. /\ dep' \in Deployment \cup {None} /\ cm' \in ConfigMap \cup {None}
      /\ sessions' \subseteq Sessions /\ seen' \subseteq Sessions /\ queue' \subseteq Controllers
      /\ uids' \in Nat /\ ops' \in Nat /\ faults' \in Nat
  BY DEF OtherTypes
<1>3. /\ disc' \in [pc : {"idle", "check", "create", "status"}, ok : BOOLEAN]
      /\ byo' \in [pc : {"idle", "write"}, ok : BOOLEAN, again : BOOLEAN]
  BY DEF OtherTypes
<1> QED BY <1>1, <1>2, <1>3, Zenon DEF TypeOK

(* A step that stores an Agent: every copy is old now. *)
LEMMA StoredKeeps ==
  ASSUME AgentInv, WorkloadAssumption, NEW a \in Agent, Stored(a), a.deleting => a.fin,
         doomed' \subseteq sessions' \cap seen', doomed' # {} => a.deleting,
         OtherTypes', ctl' \in CtlType, CopyIsBuildable'
  PROVE  AgentInv'
<1>1. agent' = a /\ agent' # None /\ fresh' = {}
  BY NoneIsNothing DEF Stored
<1>2. TypeOK'
  <2>1. sessions' \subseteq Sessions
    BY DEF OtherTypes
  <2> QED BY <1>1, <2>1, TypesNext
<1>3. DeletingIsHeld' /\ DoomedIsHeld' /\ FreshIsThere'
  BY <1>1 DEF DeletingIsHeld, DoomedIsHeld, FreshIsThere
<1> QED BY <1>2, <1>3 DEF AgentInv

(* A step that leaves the Agent alone. *)
LEMMA AgentStays ==
  ASSUME AgentInv, agent' = agent, doomed' \subseteq doomed, doomed' \subseteq sessions' \cap seen',
         OtherTypes', ctl' \in CtlType, fresh' \subseteq {"agent", "byo"},
         FreshIsThere', CopyIsBuildable'
  PROVE  AgentInv'
<1>1. TypeOK'
  <2>1. agent \in Agent \cup {None} /\ doomed \subseteq Sessions
    BY Types DEF AgentInv
  <2> QED BY <2>1, TypesNext
<1>2. DeletingIsHeld' /\ DoomedIsHeld'
  BY DEF AgentInv, DeletingIsHeld, DoomedIsHeld
<1> QED BY <1>1, <1>2 DEF AgentInv

(* A step of somebody who neither writes the Agent nor holds a copy of it. *)
LEMMA BystanderKeeps ==
  ASSUME AgentInv, UNCHANGED <<agent, fresh, ctl, doomed, seen>>, sessions \subseteq sessions',
         OtherTypes'
  PROVE  AgentInv'
<1>1. /\ fresh' \subseteq {"agent", "byo"} /\ ctl' \in CtlType /\ FreshIsThere'
      /\ CopyIsBuildable' /\ doomed' \subseteq sessions' \cap seen'
  BY Types DEF AgentInv, FreshIsThere, CopyIsBuildable, DoomedIsHeld
<1> QED BY <1>1, AgentStays

(* The Agent goes: nothing waits for it any more, and no copy is kept.     *)
LEMMA RemovedKeeps ==
  ASSUME AgentInv, Removed, doomed = {}, doomed' = {},
         OtherTypes', ctl' \in CtlType, CopyIsBuildable'
  PROVE  AgentInv'
<1>1. agent' = None /\ fresh' = {}
  BY DEF Removed
<1>2. TypeOK'
  BY <1>1, TypesNext
<1>3. DeletingIsHeld' /\ DoomedIsHeld' /\ FreshIsThere'
  BY <1>1 DEF DeletingIsHeld, DoomedIsHeld, FreshIsThere
<1> QED BY <1>2, <1>3 DEF AgentInv

(* Ready is written on the Agent that is there. *)
LEMMA ReadyKeeps ==
  ASSUME AgentInv, WorkloadAssumption, agent # None, NEW w, NEW ok \in BOOLEAN, NEW again,
         WriteReady(w, ok, again), UNCHANGED <<doomed, sessions, seen>>, OtherTypes',
         ctl' \in CtlType, ctl'.pc \notin {"clean", "finalizer"} \/ ctl' = ctl, CopyIsBuildable'
  PROVE  AgentInv'
<1>1. agent \in Agent /\ doomed \subseteq sessions \cap seen
  BY Types DEF AgentInv, DoomedIsHeld
<1>2. CASE UNCHANGED agent /\ fresh' = fresh \ {w}
  <2>1. FreshIsThere' /\ fresh' \subseteq {"agent", "byo"}
    BY <1>2, Types DEF AgentInv, FreshIsThere
  <2> QED BY <1>1, <1>2, <2>1, AgentStays
<1>3. CASE Stored([agent EXCEPT !.ready = ok])
  <2>1. PICK a \in Agent : /\ a = [agent EXCEPT !.ready = ok]
                           /\ a.deleting = agent.deleting /\ a.fin = agent.fin
    BY <1>1, ReadyFields
  <2>2. Stored(a)
    BY <1>3, <2>1
  <2>3. (a.deleting => a.fin) /\ (doomed' # {} => a.deleting) /\ doomed' \subseteq sessions' \cap seen'
    BY <1>1, <2>1 DEF AgentInv, DeletingIsHeld, DoomedIsHeld
  <2> QED BY <2>2, <2>3, StoredKeeps
<1> QED BY <1>2, <1>3 DEF WriteReady

(* ... by a writer who queues the keys of again. *)
LEMMA ReadyQueue ==
  ASSUME NEW w, NEW ok, NEW again \in SUBSET Controllers, WriteReady(w, ok, again),
         queue \subseteq Controllers
  PROVE  queue' \subseteq Controllers
BY EventTypes DEF WriteReady

(* AgentReconciler ends what it was doing. *)
LEMMA IdleKeeps ==
  ASSUME AgentInv, ctl' = IdleAgent, fresh' \subseteq fresh, queue' \subseteq queue \cup {"agent"},
         faults' \in {faults, faults + 1},
         UNCHANGED <<agent, dep, cm, sessions, seen, uids, doomed, disc, byo, ops>>
  PROVE  AgentInv'
<1>1. OtherTypes /\ fresh \subseteq {"agent", "byo"} /\ FreshIsThere /\ doomed \subseteq sessions \cap seen
  BY Types DEF AgentInv, DoomedIsHeld
<1>2. OtherTypes'
  BY <1>1 DEF OtherTypes, Controllers
<1>3. FreshIsThere' /\ CopyIsBuildable' /\ ctl' \in CtlType
  BY <1>1, Stages DEF FreshIsThere, CopyIsBuildable
<1> QED BY <1>1, <1>2, <1>3, AgentStays

(* A step that changes nothing. *)
LEMMA UnchangedKeeps ==
  ASSUME AgentInv, UNCHANGED vars
  PROVE  AgentInv'
<1>1. OtherTypes
  BY Types DEF AgentInv
<1>2. OtherTypes' /\ UNCHANGED <<agent, fresh, ctl, doomed, sessions, seen>>
  BY <1>1, Zenon DEF vars, OtherTypes
<1> QED BY <1>2, BystanderKeeps

-----------------------------------------------------------------------------
(* Every action keeps the invariant.                                       *)

LEMMA AgentInit ==
  ASSUME Init, WorkloadAssumption
  PROVE  AgentInv
<1>1. OtherTypes
  BY DEF Init, OtherTypes, IdleDisc, IdleByo
<1>2. TypeOK
  BY <1>1, TypesBack, Stages DEF Init
<1>3. DeletingIsHeld /\ DoomedIsHeld /\ FreshIsThere /\ CopyIsBuildable
  BY Stages DEF Init, DeletingIsHeld, DoomedIsHeld, FreshIsThere, CopyIsBuildable
<1> QED BY <1>2, <1>3 DEF AgentInv

(* Users. *)
LEMMA UsersKeep ==
  ASSUME AgentInv, WorkloadAssumption, Users
  PROVE  AgentInv'
<1>0. /\ agent \in Agent \cup {None} /\ OtherTypes /\ uids \in Nat /\ CopyIsBuildable
      /\ ctl \in CtlType /\ doomed \subseteq sessions \cap seen
  BY Types DEF AgentInv, OtherTypes, DoomedIsHeld
<1>1. ASSUME NEW r \in Requests, pushAgent(r) PROVE AgentInv'
  <2>1. PICK s \in AgentSpec : s = buildAgentFromPush(r)
    BY SpecTypes
  <2>2. PICK a \in Agent :
           /\ a = IF agent = None THEN New(s) ELSE [agent EXCEPT !.spec = s]
           /\ a.deleting => a.fin
           /\ doomed # {} => a.deleting
    <3>1. CASE agent = None
      <4>1. doomed = {}
        BY <3>1 DEF AgentInv, DoomedIsHeld
      <4> QED BY <1>0, <3>1, <4>1, AgentFields
    <3>2. CASE agent # None
      <4>1. agent \in Agent /\ (agent.deleting => agent.fin) /\ (doomed # {} => agent.deleting)
        BY <1>0, <3>2 DEF AgentInv, DeletingIsHeld, DoomedIsHeld
      <4>2. PICK c \in Agent : c = agent
        BY <4>1
      <4>3. PICK b \in Agent : /\ b = [c EXCEPT !.spec = s]
                               /\ b.deleting = c.deleting /\ b.fin = c.fin
        BY AgentFields
      <4> QED BY <3>2, <4>1, <4>2, <4>3
    <3> QED BY <3>1, <3>2
  <2>3. /\ Stored(a) /\ queue' = queue \cup agentWorkloadRefPredicate(a)
        /\ UNCHANGED <<dep, cm, sessions, seen, ctl, disc, byo, faults, doomed>>
        /\ ops' = ops + 1 /\ uids' \in {uids, uids + 1}
    BY <1>1, <2>1, <2>2 DEF pushAgent, Op
  <2>4. OtherTypes'
    BY <1>0, <2>3, EventTypes DEF OtherTypes
  <2>5. CopyIsBuildable'
    BY <1>0, <2>3 DEF CopyIsBuildable
  <2> QED BY <1>0, <2>2, <2>3, <2>4, <2>5, StoredKeeps
<1>2. ASSUME NEW rt \in Runtimes, applyRef(rt) PROVE AgentInv'
  <2>1. PICK s \in AgentSpec :
           s = [kind |-> "ref", runtime |-> rt, workload |-> Default, config |-> None]
    BY SpecTypes
  <2>2. PICK a \in Agent : a = New(s) /\ a.deleting = FALSE
    BY <1>0, AgentFields
  <2>3. /\ agent = None /\ Stored(a) /\ queue' = queue \cup agentWorkloadRefPredicate(a)
        /\ UNCHANGED <<dep, cm, sessions, seen, ctl, disc, byo, faults, doomed>>
        /\ ops' = ops + 1 /\ uids' = uids + 1
    BY <1>2, <2>1, <2>2 DEF applyRef, Op
  <2>4. OtherTypes'
    BY <1>0, <2>3, EventTypes DEF OtherTypes
  <2>5. CopyIsBuildable' /\ doomed' = {}
    BY <1>0, <2>3 DEF CopyIsBuildable, AgentInv, DoomedIsHeld
  <2> QED BY <1>0, <2>2, <2>3, <2>4, <2>5, StoredKeeps
<1>3. CASE deleteAgent
  <2>1. /\ agent # None /\ ~agent.deleting /\ queue' = queue \cup agentWorkloadRefPredicate(agent)
        /\ UNCHANGED <<dep, cm, sessions, seen, ctl, disc, byo, uids, faults>> /\ ops' = ops + 1
    BY <1>3 DEF deleteAgent, Op
  <2>2. doomed = {} /\ agent \in Agent
    BY <1>0, <2>1 DEF AgentInv, DoomedIsHeld
  <2>3. OtherTypes' /\ CopyIsBuildable'
    BY <1>0, <2>1, EventTypes DEF OtherTypes, CopyIsBuildable
  <2>4. CASE agent.fin
    <3>1. PICK a \in Agent : /\ a = [agent EXCEPT !.deleting = TRUE]
                             /\ a.deleting = TRUE /\ a.fin = agent.fin
      BY <2>2, AgentFields
    <3>2. Stored(a) /\ doomed' = seen \cap sessions
      BY <1>3, <2>4, <3>1 DEF deleteAgent
    <3> QED BY <1>0, <2>1, <2>3, <2>4, <3>1, <3>2, StoredKeeps
  <2>5. CASE ~agent.fin
    <3>1. Removed /\ doomed' = {}
      BY <1>3, <2>2, <2>5 DEF deleteAgent
    <3> QED BY <1>0, <2>1, <2>2, <2>3, <3>1, RemovedKeeps
  <2> QED BY <2>4, <2>5
<1>4. CASE createDeployment
  <2>1. dep' \in Deployment
    BY <1>4, DeploymentFields, Zenon DEF createDeployment
  <2>2. /\ UNCHANGED <<agent, cm, sessions, seen, queue, fresh, ctl, disc, byo, uids, faults, doomed>>
        /\ ops' = ops + 1
    BY <1>4 DEF createDeployment, Op
  <2>3. OtherTypes'
    BY <1>0, <2>1, <2>2 DEF OtherTypes
  <2> QED BY <2>2, <2>3, BystanderKeeps
<1>5. CASE adoptAgent
  <2>1. dep \in Deployment /\ dep' = [dep EXCEPT !.managed = TRUE]
    BY <1>0, <1>5 DEF adoptAgent, OtherTypes
  <2>2. dep' \in Deployment
    BY <2>1, DeploymentFields
  <2>3. OtherTypes' /\ UNCHANGED <<agent, fresh, ctl, doomed, sessions, seen>>
    BY <1>0, <1>5, <2>2, EventTypes DEF adoptAgent, Op, OtherTypes
  <2> QED BY <2>3, BystanderKeeps
<1>6. CASE deleteDeployment
  <2>1. OtherTypes' /\ UNCHANGED <<agent, fresh, ctl, doomed, sessions, seen>>
    BY <1>0, <1>6, EventTypes DEF deleteDeployment, DeploymentGone, Op, OtherTypes
  <2> QED BY <2>1, BystanderKeeps
<1>7. ASSUME NEW s \in Sessions, SessionStarts(s) PROVE AgentInv'
  <2>1. OtherTypes' /\ UNCHANGED <<agent, fresh, ctl, doomed, seen>> /\ sessions \subseteq sessions'
    BY <1>0, <1>7 DEF SessionStarts, Op, OtherTypes
  <2> QED BY <2>1, BystanderKeeps
<1> QED BY <1>1, <1>2, <1>3, <1>4, <1>5, <1>6, <1>7 DEF Users

(* Pods and the garbage collector. *)
LEMMA KubernetesKeeps ==
  ASSUME AgentInv, WorkloadAssumption,
         PodsReady \/ PodsFail \/ Collector \/ \E s \in Sessions : SessionSeen(s)
  PROVE  AgentInv'
<1>0. OtherTypes
  BY Types DEF AgentInv
<1>1. CASE PodsReady
  <2>1. /\ dep \in Deployment /\ \E p \in {"none", "some", "all"} : dep' = [dep EXCEPT !.pods = p]
        /\ UNCHANGED <<agent, cm, sessions, seen, fresh, ctl, disc, byo, uids, ops, faults, doomed>>
        /\ queue' = queue \cup DeploymentEvent(dep)
    BY <1>0, <1>1 DEF PodsReady, OtherTypes
  <2>2. dep' \in Deployment
    BY <2>1, DeploymentFields
  <2>3. OtherTypes'
    BY <1>0, <2>1, <2>2, EventTypes DEF OtherTypes
  <2> QED BY <2>1, <2>3, BystanderKeeps
<1>2. CASE PodsFail
  <2>1. /\ dep \in Deployment /\ dep' = [dep EXCEPT !.pods = "none"] /\ faults' = faults + 1
        /\ UNCHANGED <<agent, cm, sessions, seen, fresh, ctl, disc, byo, uids, ops, doomed>>
        /\ queue' = queue \cup DeploymentEvent(dep)
    BY <1>0, <1>2 DEF PodsFail, Fault, OtherTypes
  <2>2. dep' \in Deployment
    BY <2>1, DeploymentFields
  <2>3. OtherTypes'
    BY <1>0, <2>1, <2>2, EventTypes DEF OtherTypes
  <2> QED BY <2>1, <2>3, BystanderKeeps
<1>3. CASE CollectDeployment
  <2>1. OtherTypes' /\ UNCHANGED <<agent, fresh, ctl, doomed, sessions, seen>>
    BY <1>0, <1>3, EventTypes DEF CollectDeployment, DeploymentGone, OtherTypes
  <2> QED BY <2>1, BystanderKeeps
<1>4. CASE CollectConfigMap
  <2>1. OtherTypes' /\ UNCHANGED <<agent, fresh, ctl, doomed, sessions, seen>>
    BY <1>0, <1>4 DEF CollectConfigMap, OtherTypes, Controllers
  <2> QED BY <2>1, BystanderKeeps
<1>5. ASSUME NEW s \in Sessions, SessionSeen(s) PROVE AgentInv'
  <2>0. /\ doomed \subseteq sessions \cap seen /\ FreshIsThere /\ CopyIsBuildable /\ ctl \in CtlType
        /\ fresh \subseteq {"agent", "byo"}
    BY Types DEF AgentInv, DoomedIsHeld
  <2>1. /\ UNCHANGED <<agent, dep, cm, sessions, queue, fresh, ctl, disc, byo, uids, ops, faults,
                       doomed>>
        /\ seen' \subseteq Sessions /\ doomed \subseteq seen'
    BY <1>0, <1>5, <2>0 DEF SessionSeen, OtherTypes
  <2>2. OtherTypes'
    BY <1>0, <2>1, Zenon DEF OtherTypes
  <2>3. FreshIsThere' /\ CopyIsBuildable'
    BY <2>0, <2>1 DEF FreshIsThere, CopyIsBuildable
  <2> QED BY <2>0, <2>1, <2>2, <2>3, AgentStays
<1> QED BY <1>1, <1>2, <1>3, <1>4, <1>5 DEF Collector

(* AgentReconciler. *)
LEMMA AgentReconcilerKeeps ==
  ASSUME AgentInv, WorkloadAssumption, AgentReconciler
  PROVE  AgentInv'
<1>0. /\ agent \in Agent \cup {None} /\ OtherTypes /\ CopyIsBuildable /\ FreshIsThere
      /\ ctl \in CtlType /\ doomed \subseteq sessions \cap seen
      /\ sessions \subseteq Sessions /\ seen \subseteq Sessions
      /\ fresh \subseteq {"agent", "byo"}
  BY Types DEF AgentInv, OtherTypes, DoomedIsHeld
<1>1. CASE Reconcile
  <2>1. /\ UNCHANGED <<agent, dep, cm, sessions, seen, uids, doomed, disc, byo, ops, faults>>
        /\ queue' = queue \ {"agent"}
        /\ fresh' = IF ctl'.pc \in {"clean", "finalizer"} THEN fresh \cup {"agent"} ELSE fresh
    BY <1>1 DEF Reconcile, objects
  <2>2. /\ ctl' \in CtlType /\ CopyIsBuildable'
        /\ ctl'.pc \in {"clean", "finalizer"} => agent # None
        /\ ctl'.pc = "clean" => ctl'.todo = seen
    <3>1. CASE agent = None
      <4>1. ctl' = IdleAgent
        BY <1>1, <3>1, Zenon DEF Reconcile
      <4> QED BY <4>1, Stages DEF CopyIsBuildable
    <3>2. CASE agent # None /\ agent.deleting
      <4>1. ctl' = [IdleAgent EXCEPT !.pc = "clean", !.todo = seen]
        BY <1>1, <3>2, Zenon DEF Reconcile
      <4>2. PICK c \in CtlType : c = ctl' /\ c.pc = "clean" /\ c.todo = seen
        BY <1>0, <4>1, Stages, Zenon
      <4> QED BY <3>2, <4>2 DEF CopyIsBuildable
    <3>3. CASE agent # None /\ ~agent.deleting /\ ~agent.fin
      <4>1. ctl' = [IdleAgent EXCEPT !.pc = "finalizer"]
        BY <1>1, <3>3, Zenon DEF Reconcile
      <4>2. PICK c \in CtlType : c = ctl' /\ c.pc = "finalizer"
        BY <4>1, StartOf, StageNames, Zenon
      <4> QED BY <3>3, <4>2 DEF CopyIsBuildable
    <3>4. CASE agent # None /\ ~agent.deleting /\ agent.fin
      <4>1. ctl' = Building(agent) /\ agent \in Agent
        BY <1>0, <1>1, <3>4, Zenon DEF Reconcile
      <4> QED BY <4>1, BuildingType DEF CopyIsBuildable
    <3> QED BY <3>1, <3>2, <3>3, <3>4
  <2>3. OtherTypes'
    BY <1>0, <2>1 DEF OtherTypes
  <2>4. fresh' \subseteq {"agent", "byo"} /\ FreshIsThere'
    BY <1>0, <2>1, <2>2 DEF FreshIsThere
  <2> QED BY <1>0, <2>1, <2>2, <2>3, <2>4, AgentStays
<1>2. ASSUME NEW s \in Sessions, cleanupOwnedSessions(s) PROVE AgentInv'
  <2>1. /\ UNCHANGED <<agent, dep, cm, seen, queue, fresh, disc, byo, uids, ops, faults>>
        /\ sessions' = sessions \ {s} /\ doomed' = doomed \ {s}
        /\ ctl.pc = "clean" /\ ctl' = [ctl EXCEPT !.todo = @ \ {s}]
    BY <1>2 DEF cleanupOwnedSessions
  <2>2. PICK c \in CtlType : /\ c = ctl' /\ c.pc = ctl.pc /\ c.copy = ctl.copy
                             /\ c.todo = ctl.todo \ {s}
    BY <1>0, <2>1, ListWithout, Zenon
  <2>3. OtherTypes'
    BY <1>0, <2>1 DEF OtherTypes
  <2>4. FreshIsThere' /\ CopyIsBuildable'
    BY <1>0, <2>1, <2>2 DEF FreshIsThere, CopyIsBuildable
  <2> QED BY <1>0, <2>1, <2>2, <2>3, <2>4, AgentStays
<1>3. CASE RemoveFinalizer
  <2>1. /\ UNCHANGED <<dep, cm, sessions, seen, disc, byo, uids, ops, faults, doomed>>
        /\ Removed /\ ctl' = IdleAgent /\ queue' = queue \cup agentWorkloadRefPredicate(agent)
        /\ ctl.pc = "clean" /\ ctl.todo = {} /\ "agent" \in fresh
    BY <1>3 DEF RemoveFinalizer, Cleaned
  <2>2. doomed = {}
    BY <1>0, <2>1 DEF FreshIsThere
  <2>3. OtherTypes' /\ ctl' \in CtlType /\ CopyIsBuildable'
    BY <1>0, <2>1, EventTypes, Stages DEF OtherTypes, CopyIsBuildable
  <2> QED BY <2>1, <2>2, <2>3, RemovedKeeps
<1>4. CASE AddFinalizer
  <2>1. /\ UNCHANGED <<dep, cm, sessions, seen, disc, byo, uids, ops, faults, doomed>>
        /\ ctl' = Building(agent) /\ queue' = queue \cup agentWorkloadRefPredicate(agent)
        /\ ctl.pc = "finalizer" /\ "agent" \in fresh
    BY <1>4 DEF AddFinalizer
  <2>2. PICK c \in Agent : c = agent /\ (doomed # {} => c.deleting)
    BY <1>0, <2>1 DEF FreshIsThere, AgentInv, DoomedIsHeld
  <2>3. PICK a \in Agent : /\ a = [c EXCEPT !.fin = TRUE]
                           /\ a.deleting = c.deleting /\ a.fin = TRUE
    BY AgentFields
  <2>4. Stored(a)
    BY <1>4, <2>2, <2>3 DEF AddFinalizer
  <2>5. ctl' \in CtlType /\ CopyIsBuildable' /\ OtherTypes'
    BY <1>0, <2>1, <2>2, BuildingType, EventTypes DEF CopyIsBuildable, OtherTypes
  <2> QED BY <1>0, <2>1, <2>2, <2>3, <2>4, <2>5, StoredKeeps
<1>5. CASE setCondition
  <2>1. /\ UNCHANGED <<dep, cm, sessions, seen, disc, byo, uids, ops, faults, doomed>>
        /\ ctl' = IdleAgent
        /\ agent # None /\ WriteReady("agent", agent.ready, {})
    BY <1>5 DEF setCondition
  <2>2. agent.ready \in BOOLEAN
    BY <1>0, <2>1 DEF Agent
  <2>3. queue' \subseteq Controllers
    BY <1>0, <2>1, ReadyQueue DEF OtherTypes, Controllers
  <2>4. OtherTypes' /\ CopyIsBuildable' /\ ctl' \in CtlType /\ ctl'.pc = "idle"
    BY <1>0, <2>1, <2>3, Stages DEF OtherTypes, CopyIsBuildable
  <2> QED BY <2>1, <2>2, <2>4, ReadyKeeps
<1>6. CASE reconcileConfigMap
  <2>1. /\ UNCHANGED <<agent, dep, sessions, seen, fresh, disc, byo, uids, ops, faults, doomed>>
        /\ ctl.pc = "configmap" /\ ctl' = [ctl EXCEPT !.pc = "deployment"]
        /\ queue' \subseteq queue \cup {"agent"}
    BY <1>6 DEF reconcileConfigMap
  <2>2. PICK c \in CtlType : c = ctl' /\ c.pc = "deployment" /\ c.copy = ctl.copy
    BY <1>0, <2>1, StageOf, StageNames, Zenon
  <2>3. ctl.copy \in Copy /\ ctl.copy.spec.kind = "declarative"
    BY <1>0, <2>1 DEF CopyIsBuildable
  <2>4. cm' \in ConfigMap
    <3>1. CASE cm = None
      <4>1. cm' = BuildConfigMap(ctl.copy)
        BY <1>6, <3>1, Zenon DEF reconcileConfigMap
      <4> QED BY <2>3, <4>1, ConfigMapFields
    <3>2. CASE cm # None
      <4>1. cm \in ConfigMap
        BY <1>0, <3>2 DEF OtherTypes
      <4>2. cm' = [cm EXCEPT !.config = BuildConfigMap(ctl.copy).config]
        BY <1>6, <3>2, Zenon DEF reconcileConfigMap
      <4> QED BY <2>3, <4>1, <4>2, ConfigMapFields, Zenon
    <3> QED BY <3>1, <3>2
  <2>5. OtherTypes'
    BY <1>0, <2>1, <2>4 DEF OtherTypes, Controllers
  <2>6. FreshIsThere' /\ CopyIsBuildable'
    BY <1>0, <2>1, <2>2, <2>3 DEF FreshIsThere, CopyIsBuildable
  <2> QED BY <1>0, <2>1, <2>2, <2>5, <2>6, AgentStays
<1>7. CASE reconcileDeployment
  <2>1. /\ UNCHANGED <<agent, cm, sessions, seen, fresh, disc, byo, uids, ops, faults, doomed>>
        /\ ctl.pc = "deployment" /\ ctl' = [IdleAgent EXCEPT !.pc = "service"]
        /\ queue' = IF dep' = dep THEN queue ELSE queue \cup DeploymentEvent(dep')
    BY <1>7 DEF reconcileDeployment
  <2>2. PICK c \in CtlType : c = ctl' /\ c.pc = "service"
    BY <2>1, StartOf, StageNames, Zenon
  <2>3. PICK k \in Copy : k = ctl.copy
    BY <1>0, <2>1 DEF CopyIsBuildable
  <2>4. dep' \in Deployment
    <3>1. CASE dep = None
      <4>1. dep' = BuildDeployment(k)
        BY <1>7, <2>3, <3>1 DEF reconcileDeployment
      <4> QED BY <4>1, DeploymentFields
    <3>2. CASE dep # None
      <4>1. dep \in Deployment
        BY <1>0, <3>2 DEF OtherTypes
      <4>2. PICK p \in Rescaled(dep, BuildDeployment(k).template) :
               dep' = [dep EXCEPT !.template = BuildDeployment(k).template, !.pods = p]
        BY <1>7, <2>3, <3>2, Zenon DEF reconcileDeployment
      <4>3. p \in {"none", "some", "all"}
        BY <4>1, DeploymentFields DEF Rescaled
      <4> QED BY <4>1, <4>2, <4>3, DeploymentFields, Zenon
    <3> QED BY <3>1, <3>2
  <2>5. OtherTypes'
    BY <1>0, <2>1, <2>4, EventTypes DEF OtherTypes
  <2>6. FreshIsThere' /\ CopyIsBuildable'
    BY <1>0, <2>1, <2>2 DEF FreshIsThere, CopyIsBuildable
  <2> QED BY <1>0, <2>1, <2>2, <2>5, <2>6, AgentStays
<1>8. CASE reconcileService
  <2>1. /\ UNCHANGED <<agent, dep, cm, sessions, seen, uids, doomed, queue, fresh, disc, byo, ops,
                       faults>>
        /\ ctl' = [ctl EXCEPT !.pc = "status"]
    BY <1>8 DEF reconcileService, objects
  <2>2. PICK c \in CtlType : c = ctl' /\ c.pc = "status"
    BY <1>0, <2>1, StageOf, StageNames, Zenon
  <2>3. OtherTypes' /\ FreshIsThere' /\ CopyIsBuildable'
    BY <1>0, <2>1, <2>2 DEF OtherTypes, FreshIsThere, CopyIsBuildable
  <2> QED BY <1>0, <2>1, <2>2, <2>3, AgentStays
<1>9. CASE updateStatus
  <2>1. /\ UNCHANGED <<agent, dep, cm, sessions, seen, uids, doomed, fresh, disc, byo, ops, faults>>
        /\ queue' \subseteq queue \cup {"agent"}
    BY <1>9 DEF updateStatus, objects
  <2>2. PICK c \in CtlType : c = ctl' /\ c.pc \in {"idle", "write"}
    <3>1. CASE dep = None
      BY <1>9, <3>1, Stages, Zenon DEF updateStatus
    <3>2. CASE dep # None
      <4>1. ctl' = [ctl EXCEPT !.pc = "write", !.ok = (dep.pods = "all")]
        BY <1>9, <3>2, Zenon DEF updateStatus
      <4>2. \A ok \in BOOLEAN :
               LET d == [ctl EXCEPT !.pc = "write", !.ok = ok]
               IN d \in CtlType /\ d.pc = "write"
        BY <1>0 DEF CtlType, AgentPCs
      <4>3. (dep.pods = "all") \in BOOLEAN
        OBVIOUS
      <4> QED BY <4>1, <4>2, <4>3, Zenon
    <3> QED BY <3>1, <3>2
  <2>3. OtherTypes' /\ FreshIsThere' /\ CopyIsBuildable'
    BY <1>0, <2>1, <2>2 DEF OtherTypes, FreshIsThere, CopyIsBuildable, Controllers
  <2> QED BY <1>0, <2>1, <2>2, <2>3, AgentStays
<1>10. CASE WriteStatus
  <2>1. /\ UNCHANGED <<dep, cm, sessions, seen, disc, byo, uids, ops, faults, doomed>>
        /\ ctl' = IdleAgent
        /\ agent # None /\ WriteReady("agent", ctl.ok, {"agent"})
    BY <1>10 DEF WriteStatus
  <2>2. ctl.ok \in BOOLEAN
    BY <1>0 DEF CtlType
  <2>3. queue' \subseteq Controllers
    BY <1>0, <2>1, ReadyQueue DEF OtherTypes, Controllers
  <2>4. OtherTypes' /\ CopyIsBuildable' /\ ctl' \in CtlType /\ ctl'.pc = "idle"
    BY <1>0, <2>1, <2>3, Stages DEF OtherTypes, CopyIsBuildable
  <2> QED BY <2>1, <2>2, <2>4, ReadyKeeps
<1>11. CASE AgentFails
  <2>1. /\ UNCHANGED <<agent, dep, cm, sessions, seen, uids, doomed, disc, byo, ops>>
        /\ ctl' = IdleAgent /\ queue' = queue \cup {"agent"} /\ fresh' = fresh \ {"agent"}
        /\ faults' \in {faults, faults + 1}
    BY <1>11 DEF AgentFails, AgentError, Fault, objects
  <2> QED BY <1>0, <2>1, IdleKeeps
<1> QED BY <1>1, <1>2, <1>3, <1>4, <1>5, <1>6, <1>7, <1>8, <1>9, <1>10, <1>11
        DEF AgentReconciler

(* DiscoveryReconciler. *)
LEMMA DiscoveryKeeps ==
  ASSUME AgentInv, WorkloadAssumption, DiscoveryReconciler
  PROVE  AgentInv'
<1>0. /\ agent \in Agent \cup {None} /\ OtherTypes /\ CopyIsBuildable
      /\ ctl \in CtlType /\ doomed \subseteq sessions \cap seen
  BY Types DEF AgentInv, OtherTypes, DoomedIsHeld
<1>1. disc.ok \in BOOLEAN /\ IdleDisc \in [pc : {"idle", "check", "create", "status"}, ok : BOOLEAN]
  BY <1>0 DEF OtherTypes, IdleDisc
<1>2. CASE Discover
  <2>1. /\ UNCHANGED <<agent, dep, cm, sessions, seen, uids, doomed, fresh, ctl, byo, ops, faults>>
        /\ queue' = queue \ {"disc"}
    BY <1>2 DEF Discover, objects
  <2>2. disc' \in [pc : {"idle", "check", "create", "status"}, ok : BOOLEAN]
    BY <1>1, <1>2 DEF Discover
  <2>3. OtherTypes'
    BY <1>0, <2>1, <2>2, Zenon DEF OtherTypes
  <2> QED BY <2>1, <2>3, BystanderKeeps
<1>3. CASE reconcileExistingAgent
  <2>1. /\ UNCHANGED <<dep, cm, sessions, seen, ctl, byo, uids, ops, faults, doomed>>
        /\ agent # None /\ WriteReady("disc", disc.ok, {"disc"}) /\ disc' = IdleDisc
    BY <1>3 DEF reconcileExistingAgent
  <2>2. queue' \subseteq Controllers
    BY <1>0, <2>1, ReadyQueue DEF OtherTypes, Controllers
  <2>3. OtherTypes' /\ CopyIsBuildable'
    BY <1>0, <1>1, <2>1, <2>2 DEF OtherTypes, CopyIsBuildable
  <2> QED BY <1>0, <1>1, <2>1, <2>3, ReadyKeeps
<1>4. CASE NoAgent
  <2>1. /\ UNCHANGED <<agent, dep, cm, sessions, seen, uids, doomed, fresh, ctl, byo, ops, faults>>
        /\ queue' \subseteq queue \cup {"disc"}
    BY <1>4 DEF NoAgent, objects
  <2>2. disc' \in [pc : {"idle", "check", "create", "status"}, ok : BOOLEAN]
    <3>1. CASE disc.ok
      <4>1. disc' = [pc |-> "create", ok |-> FALSE]
        BY <1>4, <3>1, Zenon DEF NoAgent
      <4> QED BY <4>1
    <3>2. CASE ~disc.ok
      <4>1. disc' = IdleDisc
        BY <1>4, <3>2, Zenon DEF NoAgent
      <4> QED BY <1>1, <4>1, Zenon
    <3> QED BY <3>1, <3>2
  <2>3. OtherTypes'
    BY <1>0, <2>1, <2>2 DEF OtherTypes, Controllers
  <2> QED BY <2>1, <2>3, BystanderKeeps
<1>5. ASSUME NEW rt \in Runtimes, createBYOAgent(rt) PROVE AgentInv'
  <2>1. PICK s \in AgentSpec :
           s = [kind |-> "ref", runtime |-> rt, workload |-> Default, config |-> None]
    BY SpecTypes
  <2>2. PICK a \in Agent : a = New(s) /\ a.deleting = FALSE
    BY <1>0, AgentFields DEF OtherTypes
  <2>3. /\ agent = None /\ Stored(a) /\ queue' = queue \cup agentWorkloadRefPredicate(a)
        /\ UNCHANGED <<dep, cm, sessions, seen, ctl, byo, ops, faults, doomed>>
        /\ disc' = [disc EXCEPT !.pc = "status"] /\ uids' = uids + 1
    BY <1>5, <2>1, <2>2 DEF createBYOAgent
  <2>4. disc' \in [pc : {"idle", "check", "create", "status"}, ok : BOOLEAN]
    BY <1>0, <2>3 DEF OtherTypes
  <2>5. OtherTypes'
    BY <1>0, <2>3, <2>4, EventTypes DEF OtherTypes
  <2>6. CopyIsBuildable' /\ doomed' = {}
    BY <1>0, <2>3 DEF CopyIsBuildable, AgentInv, DoomedIsHeld
  <2> QED BY <1>0, <2>2, <2>3, <2>5, <2>6, StoredKeeps
<1>6. CASE WorkloadDiscovered
  <2>1. /\ UNCHANGED <<dep, cm, sessions, seen, ctl, byo, uids, ops, faults, doomed>>
        /\ agent # None /\ WriteReady("disc", TRUE, {}) /\ disc' = IdleDisc
    BY <1>6 DEF WorkloadDiscovered
  <2>2. queue' \subseteq Controllers
    BY <1>0, <2>1, ReadyQueue DEF OtherTypes, Controllers
  <2>3. OtherTypes' /\ CopyIsBuildable'
    BY <1>0, <1>1, <2>1, <2>2 DEF OtherTypes, CopyIsBuildable
  <2> QED BY <1>0, <2>1, <2>3, ReadyKeeps
<1>7. CASE DiscoveryFails
  <2>1. /\ UNCHANGED <<agent, dep, cm, sessions, seen, uids, doomed, fresh, ctl, byo, ops>>
        /\ queue' = queue \cup {"disc"} /\ disc' = IdleDisc /\ faults' \in {faults, faults + 1}
    BY <1>7 DEF DiscoveryFails, Fault, objects
  <2>2. OtherTypes'
    BY <1>0, <1>1, <2>1 DEF OtherTypes, Controllers
  <2> QED BY <2>1, <2>2, BystanderKeeps
<1> QED BY <1>2, <1>3, <1>4, <1>5, <1>6, <1>7 DEF DiscoveryReconciler

(* BYOWorkloadReconciler. *)
LEMMA BYOKeeps ==
  ASSUME AgentInv, WorkloadAssumption, BYOWorkloadReconciler
  PROVE  AgentInv'
<1> DEFINE ByoType == [pc : {"idle", "write"}, ok : BOOLEAN, again : BOOLEAN]
<1>0. /\ agent \in Agent \cup {None} /\ OtherTypes /\ CopyIsBuildable /\ FreshIsThere
      /\ ctl \in CtlType /\ doomed \subseteq sessions \cap seen
      /\ fresh \subseteq {"agent", "byo"}
  BY Types DEF AgentInv, OtherTypes, DoomedIsHeld
<1>1. byo \in ByoType /\ IdleByo \in ByoType /\ byo.ok \in BOOLEAN
  BY <1>0 DEF OtherTypes, IdleByo
<1>2. CASE ReconcileBYO
  <2>1. /\ UNCHANGED <<agent, dep, cm, sessions, seen, uids, doomed, ctl, disc, ops>>
        /\ agent # None /\ queue' = queue \ {"byo"} /\ fresh' = fresh \cup {"byo"}
    BY <1>2 DEF ReconcileBYO, objects
  <2>2. byo' \in ByoType
    BY <1>2 DEF ReconcileBYO
  <2>3. faults' \in {faults, faults + 1}
    BY <1>2 DEF ReconcileBYO, probeAndUpdateStatus, Fault
  <2>4. OtherTypes'
    BY <1>0, <2>1, <2>2, <2>3 DEF OtherTypes
  <2>5. FreshIsThere' /\ CopyIsBuildable' /\ fresh' \subseteq {"agent", "byo"}
    BY <1>0, <2>1 DEF FreshIsThere, CopyIsBuildable
  <2> QED BY <1>0, <2>1, <2>4, <2>5, AgentStays
<1>3. CASE ReconcileGone
  <2>1. /\ UNCHANGED <<agent, dep, cm, sessions, seen, uids, doomed, fresh, ctl, disc, byo, ops, faults>>
        /\ queue' = queue \ {"byo"}
    BY <1>3 DEF ReconcileGone, objects
  <2>2. OtherTypes'
    BY <1>0, <2>1 DEF OtherTypes
  <2> QED BY <2>1, <2>2, BystanderKeeps
<1>4. CASE ReconcilePanics
  BY <1>4, UnchangedKeeps DEF ReconcilePanics
<1>5. CASE WriteBYO
  <2> DEFINE again == IF byo.again THEN {"byo"} ELSE {}
  <2>1. /\ UNCHANGED <<dep, cm, sessions, seen, ctl, disc, uids, ops, faults, doomed>>
        /\ "byo" \in fresh /\ byo' = IdleByo /\ WriteReady("byo", byo.ok, again)
    BY <1>5 DEF WriteBYO
  <2>2. agent # None
    BY <1>0, <2>1 DEF FreshIsThere
  <2>3. again \in SUBSET Controllers
    BY DEF Controllers
  <2> HIDE DEF again
  <2>4. queue' \subseteq Controllers
    BY <1>0, <2>1, <2>3, ReadyQueue DEF OtherTypes
  <2>5. OtherTypes' /\ CopyIsBuildable'
    BY <1>0, <1>1, <2>1, <2>4 DEF OtherTypes, CopyIsBuildable
  <2> QED BY <1>0, <1>1, <2>1, <2>2, <2>5, ReadyKeeps
<1>6. CASE BYOFails
  <2>1. /\ UNCHANGED <<agent, dep, cm, sessions, seen, uids, doomed, ctl, disc, ops>>
        /\ queue' = queue \cup {"byo"} /\ byo' = IdleByo /\ fresh' = fresh \ {"byo"}
        /\ faults' \in {faults, faults + 1}
    BY <1>6 DEF BYOFails, Fault, objects
  <2>2. OtherTypes'
    BY <1>0, <1>1, <2>1 DEF OtherTypes, Controllers
  <2>3. FreshIsThere' /\ CopyIsBuildable' /\ fresh' \subseteq {"agent", "byo"}
    BY <1>0, <2>1 DEF FreshIsThere, CopyIsBuildable
  <2> QED BY <1>0, <2>1, <2>2, <2>3, AgentStays
<1> QED BY <1>2, <1>3, <1>4, <1>5, <1>6 DEF BYOWorkloadReconciler

(* A restart. *)
LEMMA RestartKeeps ==
  ASSUME AgentInv, Restart
  PROVE  AgentInv'
<1>0. OtherTypes /\ doomed \subseteq sessions \cap seen
  BY Types DEF AgentInv, DoomedIsHeld
<1>1. /\ UNCHANGED <<agent, dep, cm, sessions, uids, doomed, ops>> /\ faults' = faults + 1
      /\ seen' = sessions
      /\ ctl' = IdleAgent /\ disc' = IdleDisc /\ byo' = IdleByo /\ fresh' = {}
  BY DEF Restart, Fault, objects
<1>2. queue' \subseteq Controllers
  BY EventTypes DEF Restart, Controllers
<1>3. /\ IdleDisc \in [pc : {"idle", "check", "create", "status"}, ok : BOOLEAN]
      /\ IdleByo \in [pc : {"idle", "write"}, ok : BOOLEAN, again : BOOLEAN]
  BY DEF IdleDisc, IdleByo
<1>4. OtherTypes'
  BY <1>0, <1>1, <1>2, <1>3 DEF OtherTypes
<1>5. FreshIsThere' /\ CopyIsBuildable' /\ ctl' \in CtlType /\ fresh' \subseteq {"agent", "byo"}
  BY <1>1, Stages DEF FreshIsThere, CopyIsBuildable
<1> QED BY <1>0, <1>1, <1>4, <1>5, AgentStays

-----------------------------------------------------------------------------
(* The inductive step and the theorems.                                    *)

LEMMA NextKeeps ==
  ASSUME AgentInv, WorkloadAssumption, [Next]_vars
  PROVE  AgentInv'
<1>1. CASE Next
  BY <1>1, UsersKeep, KubernetesKeeps, AgentReconcilerKeeps, DiscoveryKeeps, BYOKeeps,
     RestartKeeps DEF Next
<1>2. CASE UNCHANGED vars
  BY <1>2, UnchangedKeeps
<1> QED BY <1>1, <1>2

LEMMA Invariance == Spec => []AgentInv
<1>1. Init => AgentInv
  BY AgentInit, WorkloadAssumption
<1>2. AgentInv /\ [Next]_vars => AgentInv'
  BY NextKeeps, WorkloadAssumption
<1> QED BY <1>1, <1>2, PTL DEF Spec

(* Whatever is pushed, adopted, deleted and restarted: the objects of an   *)
(* agent are what a Deployment, a ConfigMap and an Agent may be, and the   *)
(* controllers build from copies of Agents there have been.                *)
THEOREM WorkloadTypeCorrect == Spec => []TypeOK
<1>1. AgentInv => TypeOK
  BY DEF AgentInv
<1> QED BY <1>1, Invariance, PTL

(* cleanupOwnedSessions (agent_controller.go:59-73, 127-141): an agent     *)
(* with a finalizer goes only when every session is deleted that the cache *)
(* showed at its deletion, however far the cache lags behind.              *)
THEOREM SessionsGoBeforeAgent == Spec => []SessionsGoFirst
<1>1. AgentInv => SessionsGoFirst
  BY DEF AgentInv, DoomedIsHeld, SessionsGoFirst
<1> QED BY <1>1, Invariance, PTL

-----------------------------------------------------------------------------
(* No event is missed.                                                     *)

(* An agent that the control plane builds, and one that it refuses to.     *)
Runs(a) == a.fin /\ ~a.deleting /\ IsRegistered(a.spec.runtime)
Refused(a) == a.fin /\ ~a.deleting /\ ~IsRegistered(a.spec.runtime)

(* What AgentReconciler has in hand is what is stored: its next write is   *)
(* not going to be refused, its copy is the Agent, and what it has built   *)
(* is of the spec that the Agent has.  (A Deployment that no Agent owns is *)
(* not watched.)                                                           *)
InHand ==
    /\ ctl.pc \in {"idle", "refuse"} => Refused(agent)
    /\ ctl.pc = "clean" => agent.deleting /\ "agent" \in fresh
    /\ ctl.pc = "finalizer" => ~agent.deleting /\ "agent" \in fresh
    /\ ctl.pc \notin {"idle", "refuse", "clean", "finalizer"} => Runs(agent)
    /\ ctl.pc \in {"configmap", "deployment"} =>
          ctl.copy.uid = agent.uid /\ ctl.copy.spec = agent.spec
    /\ ctl.pc \in {"deployment", "service", "status", "write"} =>
          (agent.spec.kind = "declarative" => cm # None /\ cm.config = agent.spec.config)
    /\ ctl.pc \in {"service", "status", "write"} =>
          (dep # None /\ dep.owner # 0 => dep.template = agent.spec.workload)

(* Nothing that happens to an agent the control plane runs is missed: its  *)
(* key is queued, or what AgentReconciler has in hand is what is stored.   *)
(* It rests only once it has refused the agent                             *)
(* (agent_controller.go:48-122, 167-219, 303-312).                         *)
AgentIsSeen ==
    agent # None /\ agent.spec.kind # "ref" /\ "agent" \notin queue => InHand

(* Nor is anything that happens to one that references a workload, which   *)
(* is not said to be ready when nobody is going to look at it again        *)
(* (byo_workload_controller.go:37-107).                                    *)
RefIsSeen ==
    agent # None /\ agent.spec.kind = "ref" /\ "byo" \notin queue =>
        IF byo.pc = "idle" THEN agent.ready = FALSE ELSE "byo" \in fresh

(* Only a workload that is gone is not looked at again.                    *)
GoneIsNotReady == byo.pc = "write" /\ ~byo.again => ~byo.ok

SeenInv == AgentIsSeen /\ RefIsSeen /\ GoneIsNotReady

(* A step that queues the key of the Agent that is there then. *)
LEMMA Woken ==
  ASSUME agent' = None \/ agentWorkloadRefPredicate(agent') \subseteq queue'
  PROVE  AgentIsSeen' /\ RefIsSeen'
BY DEF AgentIsSeen, RefIsSeen, agentWorkloadRefPredicate

(* A step that AgentReconciler has no part in, and that it need not know   *)
(* of.                                                                     *)
SameTemplate(d, e) ==
    \/ e = None
    \/ e.owner = 0
    \/ d # None /\ e.owner = d.owner /\ e.template = d.template

LEMMA AgentSeenStays ==
  ASSUME AgentIsSeen, agent' = agent, ctl' = ctl, SameTemplate(dep, dep'),
         "agent" \in queue => "agent" \in queue',
         "agent" \in fresh => "agent" \in fresh',
         cm' = cm \/ "agent" \in queue'
  PROVE  AgentIsSeen'
BY DEF AgentIsSeen, InHand, SameTemplate, Runs, Refused

(* One that BYOWorkloadReconciler has no part in. *)
LEMMA RefSeenStays ==
  ASSUME RefIsSeen, agent' = agent, byo' = byo,
         "byo" \in queue => "byo" \in queue',
         "byo" \in fresh => "byo" \in fresh'
  PROVE  RefIsSeen'
BY DEF RefIsSeen

(* Ready is written on the Agent that is there, and the one that is to     *)
(* know of it is woken, unless nothing has changed.                        *)
LEMMA ReadyWakes ==
  ASSUME TypeOK, agent # None, NEW w, NEW ok \in BOOLEAN, NEW again, WriteReady(w, ok, again)
  PROVE  /\ queue \cup again \subseteq queue'
         /\ \/ agent.ready = ok /\ UNCHANGED agent /\ fresh' = fresh \ {w}
            \/ AgentIsSeen' /\ RefIsSeen'
<1>1. agent \in Agent
  BY DEF TypeOK
<1>2. queue \cup again \subseteq queue'
  BY DEF WriteReady
<1>3. CASE Stored([agent EXCEPT !.ready = ok]) /\ Wakes \subseteq queue'
  <2>1. agent' = [agent EXCEPT !.ready = ok]
    BY <1>3 DEF Stored
  <2>2. agent'.spec = agent.spec
    BY <1>1, <2>1 DEF Agent
  <2>3. agentWorkloadRefPredicate(agent') \subseteq queue'
    BY <1>3, <2>2 DEF Wakes, agentWorkloadRefPredicate
  <2> QED BY <1>2, <2>3, Woken
<1> QED BY <1>2, <1>3 DEF WriteReady

(* What users do is queued or of no matter. *)
LEMMA UsersAreSeen ==
  ASSUME TypeOK, SeenInv, WorkloadAssumption, Users
  PROVE  SeenInv'
<1>0. agent # None => agent \in Agent
  BY DEF TypeOK
<1>1. UNCHANGED <<ctl, byo>>
  BY DEF Users, pushAgent, applyRef, deleteAgent, createDeployment, adoptAgent,
     deleteDeployment, DeploymentGone, SessionStarts
<1>2. GoneIsNotReady'
  BY <1>1 DEF SeenInv, GoneIsNotReady
<1>3. ASSUME NEW r \in Requests, pushAgent(r) PROVE AgentIsSeen' /\ RefIsSeen'
  <2>1. queue' = queue \cup agentWorkloadRefPredicate(agent')
    BY <1>3, Zenon DEF pushAgent, Stored
  <2> QED BY <2>1, Woken
<1>4. ASSUME NEW r \in Runtimes, applyRef(r) PROVE AgentIsSeen' /\ RefIsSeen'
  <2>1. queue' = queue \cup agentWorkloadRefPredicate(agent')
    BY <1>4, Zenon DEF applyRef, Stored
  <2> QED BY <2>1, Woken
<1>5. CASE deleteAgent
  <2>1. agent # None /\ queue' = queue \cup agentWorkloadRefPredicate(agent)
    BY <1>5 DEF deleteAgent
  <2>2. agent' = None \/ agent' = [agent EXCEPT !.deleting = TRUE]
    BY <1>5, Zenon DEF deleteAgent, Stored, Removed
  <2>3. agent' = None \/ agent'.spec = agent.spec
    BY <1>0, <2>1, <2>2 DEF Agent
  <2>4. agent' = None \/ agentWorkloadRefPredicate(agent') \subseteq queue'
    BY <2>1, <2>3 DEF agentWorkloadRefPredicate
  <2> QED BY <1>2, <2>4, Woken DEF SeenInv
<1>6. ASSUME SameTemplate(dep, dep'), UNCHANGED <<agent, fresh, cm>>, queue \subseteq queue'
      PROVE  AgentIsSeen' /\ RefIsSeen'
  <2>1. AgentIsSeen'
    BY <1>1, <1>6, AgentSeenStays DEF SeenInv
  <2>2. RefIsSeen'
    BY <1>1, <1>6, RefSeenStays DEF SeenInv
  <2> QED BY <2>1, <2>2
<1>7. CASE createDeployment
  <2>1. UNCHANGED <<agent, fresh, cm, queue>> /\ dep'.owner = 0
    BY <1>7 DEF createDeployment
  <2> QED BY <1>2, <1>6, <2>1 DEF SameTemplate, SeenInv
<1>8. CASE adoptAgent
  <2>1. /\ UNCHANGED <<agent, fresh, cm>> /\ queue \subseteq queue'
        /\ dep # None /\ dep' = [dep EXCEPT !.managed = TRUE]
    BY <1>8 DEF adoptAgent
  <2>2. dep \in Deployment
    BY <2>1 DEF TypeOK
  <2>3. dep'.owner = dep.owner /\ dep'.template = dep.template
    BY <2>1, <2>2 DEF Deployment
  <2> QED BY <1>2, <1>6, <2>1, <2>3 DEF SameTemplate, SeenInv
<1>9. CASE deleteDeployment
  <2>1. UNCHANGED <<agent, fresh, cm>> /\ queue \subseteq queue' /\ dep' = None
    BY <1>9 DEF deleteDeployment, DeploymentGone
  <2> QED BY <1>2, <1>6, <2>1 DEF SameTemplate, SeenInv
<1>10. ASSUME NEW s \in Sessions, SessionStarts(s) PROVE AgentIsSeen' /\ RefIsSeen'
  <2>1. UNCHANGED <<agent, fresh, cm, queue, dep>>
    BY <1>10 DEF SessionStarts
  <2> QED BY <1>2, <1>6, <2>1 DEF SameTemplate, SeenInv
<1> QED
  BY <1>2, <1>3, <1>4, <1>5, <1>7, <1>8, <1>9, <1>10 DEF Users, SeenInv

(* So is what Kubernetes does. *)
LEMMA KubernetesIsSeen ==
  ASSUME TypeOK, SeenInv,
         PodsReady \/ PodsFail \/ Collector \/ \E s \in Sessions : SessionSeen(s)
  PROVE  SeenInv'
<1>1. ASSUME SameTemplate(dep, dep'), UNCHANGED <<agent, fresh, ctl, byo>>,
             queue \subseteq queue', cm' = cm \/ "agent" \in queue'
      PROVE  SeenInv'
  <2>1. AgentIsSeen'
    BY <1>1, AgentSeenStays DEF SeenInv
  <2>2. RefIsSeen'
    BY <1>1, RefSeenStays DEF SeenInv
  <2> QED BY <1>1, <2>1, <2>2 DEF SeenInv, GoneIsNotReady
<1>2. ASSUME dep # None, NEW p \in {"none", "some", "all"}, dep' = [dep EXCEPT !.pods = p]
      PROVE  SameTemplate(dep, dep')
  <2>1. dep \in Deployment
    BY <1>2 DEF TypeOK
  <2>2. dep'.owner = dep.owner /\ dep'.template = dep.template
    BY <1>2, <2>1 DEF Deployment
  <2> QED BY <1>2, <2>2 DEF SameTemplate
<1>3. CASE PodsReady
  <2>1. /\ dep # None /\ UNCHANGED <<agent, fresh, ctl, byo, cm>> /\ queue \subseteq queue'
        /\ \E p \in {"none", "some", "all"} : dep' = [dep EXCEPT !.pods = p]
    BY <1>3 DEF PodsReady
  <2> QED BY <1>1, <1>2, <2>1
<1>4. CASE PodsFail
  <2>1. /\ dep # None /\ UNCHANGED <<agent, fresh, ctl, byo, cm>> /\ queue \subseteq queue'
        /\ \E p \in {"none", "some", "all"} : dep' = [dep EXCEPT !.pods = p]
    BY <1>4 DEF PodsFail
  <2> QED BY <1>1, <1>2, <2>1
<1>5. CASE Collector
  <2>1. \/ dep' = None /\ UNCHANGED cm
        \/ UNCHANGED dep /\ "agent" \in queue'
    BY <1>5 DEF Collector, CollectDeployment, CollectConfigMap, DeploymentGone
  <2>2. UNCHANGED <<agent, fresh, ctl, byo>> /\ queue \subseteq queue'
    BY <1>5 DEF Collector, CollectDeployment, CollectConfigMap, DeploymentGone
  <2> QED BY <1>1, <2>1, <2>2 DEF SameTemplate
<1>6. CASE \E s \in Sessions : SessionSeen(s)
  <2>1. UNCHANGED <<agent, dep, cm, fresh, ctl, byo, queue>>
    BY <1>6 DEF SessionSeen
  <2> QED BY <1>1, <2>1 DEF SameTemplate
<1> QED BY <1>3, <1>4, <1>5, <1>6

(* What AgentReconciler is to build is the Agent it has read. *)
LEMMA BuildingFits ==
  ASSUME NEW a
  PROVE  /\ ~IsRegistered(a.spec.runtime) => Building(a).pc = "refuse"
         /\ IsRegistered(a.spec.runtime) =>
              /\ Building(a).pc \in {"configmap", "deployment"}
              /\ Building(a).pc = "deployment" => a.spec.kind # "declarative"
              /\ Building(a).copy.uid = a.uid /\ Building(a).copy.spec = a.spec
<1>1. CASE ~IsRegistered(a.spec.runtime)
  <2>1. Building(a) = [IdleAgent EXCEPT !.pc = "refuse"]
    BY <1>1 DEF Building
  <2> QED BY <1>1, <2>1 DEF IdleAgent
<1>2. CASE IsRegistered(a.spec.runtime)
  <2> DEFINE c == [uid |-> a.uid, spec |-> a.spec]
  <2>1. c.uid = a.uid /\ c.spec = a.spec
    OBVIOUS
  <2>2. \E p \in {"configmap", "deployment"} :
          /\ Building(a) = [IdleAgent EXCEPT !.pc = p, !.copy = c]
          /\ p = "deployment" => a.spec.kind # "declarative"
    BY <1>2 DEF Building
  <2> HIDE DEF c
  <2>3. PICK p \in {"configmap", "deployment"} :
          /\ Building(a) = [IdleAgent EXCEPT !.pc = p, !.copy = c]
          /\ p = "deployment" => a.spec.kind # "declarative"
    BY <2>2
  <2>4. Building(a).pc = p /\ Building(a).copy = c
    BY <2>3 DEF IdleAgent
  <2> QED BY <1>2, <2>1, <2>3, <2>4
<1> QED BY <1>1, <1>2

(* Either kind of Agent after a step of AgentReconciler that leaves the    *)
(* Agent alone.                                                            *)
LEMMA HandSuffices ==
  ASSUME SeenInv, UNCHANGED <<agent, byo>>, queue \ {"agent"} \subseteq queue',
         fresh \ {"agent"} \subseteq fresh',
         agent # None /\ agent.spec.kind # "ref" /\ "agent" \notin queue' => InHand'
  PROVE  SeenInv'
<1>1. AgentIsSeen'
  BY DEF AgentIsSeen
<1>2. RefIsSeen'
  BY RefSeenStays DEF SeenInv
<1> QED BY <1>1, <1>2 DEF SeenInv, GoneIsNotReady

(* AgentReconciler takes in hand what is stored, *)
LEMMA ReconcileIsSeen ==
  ASSUME TypeOK, SeenInv, Reconcile
  PROVE  SeenInv'
<1>1. UNCHANGED <<agent, byo, cm, dep>> /\ queue \ {"agent"} \subseteq queue'
      /\ fresh \subseteq fresh'
  BY DEF Reconcile, objects
<1>2. SUFFICES ASSUME agent # None, agent.spec.kind # "ref" PROVE InHand'
  BY <1>1, HandSuffices
<1>3. agent \in Agent /\ agent.fin \in BOOLEAN /\ agent.deleting \in BOOLEAN
  BY <1>2 DEF TypeOK, Agent
<1>4. CASE agent.deleting
  <2>1. ctl' = [IdleAgent EXCEPT !.pc = "clean", !.todo = seen]
    BY <1>2, <1>4 DEF Reconcile
  <2>2. ctl'.pc = "clean"
    BY <2>1 DEF IdleAgent
  <2>3. "agent" \in fresh'
    BY <2>2 DEF Reconcile
  <2> QED BY <1>1, <1>4, <2>2, <2>3 DEF InHand
<1>5. CASE ~agent.deleting /\ ~agent.fin
  <2>1. ctl' = [IdleAgent EXCEPT !.pc = "finalizer"]
    BY <1>2, <1>5 DEF Reconcile
  <2>2. ctl'.pc = "finalizer"
    BY <2>1 DEF IdleAgent
  <2>3. "agent" \in fresh'
    BY <2>2 DEF Reconcile
  <2> QED BY <1>1, <1>5, <2>2, <2>3 DEF InHand
<1>6. CASE ~agent.deleting /\ agent.fin
  <2>1. ctl' = Building(agent)
    BY <1>2, <1>6 DEF Reconcile
  <2>2. CASE ~IsRegistered(agent.spec.runtime)
    <3>1. ctl'.pc = "refuse"
      BY <2>1, <2>2, BuildingFits
    <3> QED BY <1>1, <1>6, <2>2, <3>1 DEF InHand, Refused
  <2>3. CASE IsRegistered(agent.spec.runtime)
    <3>1. /\ ctl'.pc \in {"configmap", "deployment"}
          /\ ctl'.pc = "deployment" => agent.spec.kind # "declarative"
          /\ ctl'.copy.uid = agent.uid /\ ctl'.copy.spec = agent.spec
      BY <2>1, <2>3, BuildingFits
    <3> QED BY <1>1, <1>6, <2>3, <3>1 DEF InHand, Runs
  <2> QED BY <2>2, <2>3
<1> QED BY <1>3, <1>4, <1>5, <1>6

(* A step of AgentReconciler or DiscoveryReconciler that writes Ready. *)
LEMMA ReadySeen ==
  ASSUME TypeOK, SeenInv, agent # None, NEW w \in {"agent", "disc"}, NEW ok \in BOOLEAN, NEW again,
         WriteReady(w, ok, again), UNCHANGED <<dep, cm, byo>>,
         (ctl' = ctl /\ w = "disc") \/ "agent" \in queue'
  PROVE  SeenInv'
<1>1. GoneIsNotReady'
  BY DEF SeenInv, GoneIsNotReady
<1>2. queue \subseteq queue'
  BY ReadyWakes
<1>3. CASE UNCHANGED agent /\ fresh' = fresh \ {w}
  <2>1. RefIsSeen'
    BY <1>2, <1>3, RefSeenStays DEF SeenInv
  <2>2. CASE "agent" \in queue'
    BY <1>1, <2>1, <2>2 DEF SeenInv, AgentIsSeen
  <2>3. CASE ctl' = ctl /\ w = "disc"
    <3>1. SameTemplate(dep, dep')
      BY DEF SameTemplate
    <3>2. AgentIsSeen'
      BY <1>2, <1>3, <2>3, <3>1, AgentSeenStays DEF SeenInv
    <3> QED BY <1>1, <2>1, <3>2 DEF SeenInv
  <2> QED BY <2>2, <2>3
<1> QED BY <1>1, <1>3, ReadyWakes DEF SeenInv

(* and builds of it what is queued again if it has changed. *)
LEMMA AgentReconcilerSees ==
  ASSUME AgentInv, SeenInv, WorkloadAssumption, AgentReconciler
  PROVE  SeenInv'
<1>0. /\ TypeOK /\ ctl \in CtlType /\ CopyIsBuildable
      /\ AgentIsSeen /\ GoneIsNotReady /\ FreshIsThere
      /\ agent # None => agent \in Agent
  BY Types DEF AgentInv, SeenInv
<1>1. ASSUME NEW s \in Sessions, cleanupOwnedSessions(s) PROVE SeenInv'
  <2>1. /\ UNCHANGED <<agent, byo, queue, fresh>>
        /\ ctl.pc = "clean" /\ ctl' = [ctl EXCEPT !.todo = @ \ {s}]
    BY <1>1 DEF cleanupOwnedSessions
  <2>2. ctl'.pc = "clean"
    BY <1>0, <2>1, ListWithout
  <2>3. agent # None /\ agent.spec.kind # "ref" /\ "agent" \notin queue' => InHand'
    BY <1>0, <2>1, <2>2 DEF AgentIsSeen, InHand
  <2> QED BY <2>1, <2>3, HandSuffices
<1>2. CASE RemoveFinalizer
  <2>1. agent' = None /\ UNCHANGED byo
    BY <1>2 DEF RemoveFinalizer, Removed
  <2> QED BY <1>0, <2>1, Woken DEF SeenInv, GoneIsNotReady
<1>3. CASE AddFinalizer
  <2>1. /\ agent' = [agent EXCEPT !.fin = TRUE] /\ UNCHANGED byo
        /\ queue' = queue \cup agentWorkloadRefPredicate(agent)
        /\ "agent" \in fresh /\ ctl.pc = "finalizer"
    BY <1>3, Zenon DEF AddFinalizer, Stored
  <2>2. agent \in Agent
    <3>1. agent # None
      BY <1>0, <2>1 DEF FreshIsThere
    <3> QED BY <1>0, <3>1
  <2>3. agent'.spec = agent.spec
    BY <2>1, <2>2 DEF Agent
  <2>4. agentWorkloadRefPredicate(agent') \subseteq queue'
    BY <2>1, <2>3 DEF agentWorkloadRefPredicate
  <2> QED BY <1>0, <2>1, <2>4, Woken DEF SeenInv, GoneIsNotReady
<1>4. CASE setCondition
  <2>1. /\ agent # None /\ WriteReady("agent", agent.ready, {}) /\ UNCHANGED byo
        /\ ctl.pc = "refuse" /\ ctl' = IdleAgent
    BY <1>4 DEF setCondition
  <2>2. agent.ready \in BOOLEAN
    BY <1>0, <2>1 DEF Agent
  <2>3. \/ UNCHANGED agent /\ fresh' = fresh \ {"agent"} /\ queue \subseteq queue'
        \/ AgentIsSeen' /\ RefIsSeen'
    BY <1>0, <2>1, <2>2, ReadyWakes
  <2>4. CASE UNCHANGED agent /\ fresh' = fresh \ {"agent"} /\ queue \subseteq queue'
    <3>1. ctl'.pc = "idle"
      BY <2>1, Stages, Zenon
    <3>2. agent # None /\ agent.spec.kind # "ref" /\ "agent" \notin queue' => InHand'
      BY <1>0, <2>1, <2>4, <3>1 DEF AgentIsSeen, InHand, Refused
    <3> QED BY <2>1, <2>4, <3>2, HandSuffices
  <2>5. CASE AgentIsSeen' /\ RefIsSeen'
    BY <1>0, <2>1, <2>5 DEF SeenInv, GoneIsNotReady
  <2> QED BY <2>3, <2>4, <2>5
<1>5. CASE reconcileConfigMap
  <2>1. /\ UNCHANGED <<agent, byo, fresh>> /\ queue \subseteq queue'
        /\ ctl.pc = "configmap" /\ ctl' = [ctl EXCEPT !.pc = "deployment"]
        /\ cm' = IF cm = None THEN BuildConfigMap(ctl.copy)
                 ELSE [cm EXCEPT !.config = BuildConfigMap(ctl.copy).config]
    BY <1>5, Zenon DEF reconcileConfigMap
  <2>2. ctl'.pc = "deployment" /\ ctl'.copy = ctl.copy
    BY <1>0, <2>1, StageNames, StageOf
  <2>3. BuildConfigMap(ctl.copy).config = ctl.copy.spec.config
    BY DEF BuildConfigMap, RenderAgentConfig
  <2>4. cm' # None /\ cm'.config = ctl.copy.spec.config
    <3>1. ctl.copy \in Copy /\ ctl.copy.spec.kind = "declarative"
      BY <1>0, <2>1 DEF CopyIsBuildable
    <3>2. cm' \in ConfigMap
      BY <1>0, <2>1, <3>1, ConfigMapFields DEF TypeOK
    <3>3. cm # None => [cm EXCEPT !.config = BuildConfigMap(ctl.copy).config].config
                          = BuildConfigMap(ctl.copy).config
      BY <1>0 DEF TypeOK, ConfigMap
    <3>4. cm'.config = BuildConfigMap(ctl.copy).config
      BY <2>1, <3>3, Zenon
    <3> QED BY <2>3, <3>2, <3>4, NoneIsNothing
  <2>5. agent # None /\ agent.spec.kind # "ref" /\ "agent" \notin queue' => InHand'
    BY <1>0, <2>1, <2>2, <2>4 DEF AgentIsSeen, InHand, Runs
  <2> QED BY <2>1, <2>5, HandSuffices
<1>6. CASE reconcileDeployment
  <2>0. ctl' = [IdleAgent EXCEPT !.pc = "service"]
    BY <1>6, Zenon DEF reconcileDeployment
  <2>1. /\ UNCHANGED <<agent, byo, fresh, cm>> /\ queue \subseteq queue'
        /\ ctl.pc = "deployment"
    <3>1. queue' = IF dep' = dep THEN queue ELSE queue \cup DeploymentEvent(dep')
      BY <1>6, Zenon DEF reconcileDeployment
    <3>2. UNCHANGED <<agent, byo, fresh, cm>> /\ ctl.pc = "deployment"
      BY <1>6, Zenon DEF reconcileDeployment
    <3> QED BY <3>1, <3>2
  <2>2. ctl'.pc = "service"
    BY <2>0, StageNames, StartOf
  <2>3. BuildDeployment(ctl.copy).template = ctl.copy.spec.workload
    BY DEF BuildDeployment
  <2>4. dep'.template = ctl.copy.spec.workload
    <3>1. CASE dep = None
      <4>1. dep' = BuildDeployment(ctl.copy)
        BY <1>6, <3>1, Zenon DEF reconcileDeployment
      <4> QED BY <2>3, <4>1
    <3>2. CASE dep # None
      <4>1. dep \in Deployment
        BY <1>0, <3>2 DEF TypeOK
      <4>2. PICK p : dep' = [dep EXCEPT !.template = BuildDeployment(ctl.copy).template, !.pods = p]
        BY <1>6, <3>2, Zenon DEF reconcileDeployment
      <4>3. dep'.template = BuildDeployment(ctl.copy).template
        BY <4>1, <4>2 DEF Deployment
      <4> QED BY <2>3, <4>3
    <3> QED BY <3>1, <3>2
  <2>5. agent # None /\ agent.spec.kind # "ref" /\ "agent" \notin queue' => InHand'
    BY <1>0, <2>1, <2>2, <2>4 DEF AgentIsSeen, InHand, Runs
  <2> QED BY <2>1, <2>5, HandSuffices
<1>7. CASE reconcileService
  <2>1. /\ UNCHANGED <<agent, byo, queue, fresh, cm, dep>>
        /\ ctl.pc = "service" /\ ctl' = [ctl EXCEPT !.pc = "status"]
    BY <1>7 DEF reconcileService, objects
  <2>2. ctl'.pc = "status"
    BY <1>0, <2>1, StageNames, StageOf
  <2>3. agent # None /\ agent.spec.kind # "ref" /\ "agent" \notin queue' => InHand'
    BY <1>0, <2>1, <2>2 DEF AgentIsSeen, InHand, Runs
  <2> QED BY <2>1, <2>3, HandSuffices
<1>8. CASE updateStatus
  <2>1. /\ UNCHANGED <<agent, byo, fresh, cm, dep>> /\ queue \subseteq queue'
        /\ ctl.pc = "status"
        /\ \/ "agent" \in queue'
           \/ ctl' = [ctl EXCEPT !.pc = "write", !.ok = (dep.pods = "all")]
    BY <1>8 DEF updateStatus, objects
  <2>2. "agent" \in queue' \/ ctl'.pc = "write"
    BY <1>0, <2>1 DEF CtlType
  <2>3. agent # None /\ agent.spec.kind # "ref" /\ "agent" \notin queue' => InHand'
    BY <1>0, <2>1, <2>2 DEF AgentIsSeen, InHand, Runs
  <2> QED BY <2>1, <2>3, HandSuffices
<1>9. CASE WriteStatus
  <2>1. /\ agent # None /\ WriteReady("agent", ctl.ok, {"agent"}) /\ UNCHANGED <<dep, cm, byo>>
    BY <1>9 DEF WriteStatus
  <2>2. ctl.ok \in BOOLEAN
    BY <1>0 DEF CtlType
  <2>3. "agent" \in queue'
    BY <1>0, <2>1, <2>2, ReadyWakes
  <2> QED BY <1>0, <2>1, <2>2, <2>3, ReadySeen
<1>10. CASE AgentFails
  <2>1. UNCHANGED <<agent, byo>> /\ queue' = queue \cup {"agent"} /\ fresh' = fresh \ {"agent"}
    BY <1>10 DEF AgentFails, AgentError, objects
  <2> QED BY <2>1, HandSuffices
<1>11. Reconcile => SeenInv'
  BY <1>0, ReconcileIsSeen
<1> QED
  BY <1>1, <1>2, <1>3, <1>4, <1>5, <1>6, <1>7, <1>8, <1>9, <1>10, <1>11 DEF AgentReconciler

(* A step of DiscoveryReconciler that writes nothing. *)
LEMMA Untouched ==
  ASSUME SeenInv, UNCHANGED <<agent, dep, cm, fresh, ctl, byo>>, queue \ {"disc"} \subseteq queue'
  PROVE  SeenInv'
<1>1. SameTemplate(dep, dep')
  BY DEF SameTemplate
<1>2. AgentIsSeen'
  BY <1>1, AgentSeenStays DEF SeenInv
<1>3. RefIsSeen'
  BY RefSeenStays DEF SeenInv
<1> QED BY <1>2, <1>3 DEF SeenInv, GoneIsNotReady

(* DiscoveryReconciler and *)
LEMMA DiscoverySees ==
  ASSUME AgentInv, SeenInv, WorkloadAssumption, DiscoveryReconciler
  PROVE  SeenInv'
<1>0. TypeOK /\ GoneIsNotReady
  BY DEF AgentInv, SeenInv
<1>1. CASE Discover
  <2>1. UNCHANGED <<agent, dep, cm, fresh, ctl, byo>> /\ queue \ {"disc"} \subseteq queue'
    BY <1>1 DEF Discover, objects
  <2> QED BY <2>1, Untouched
<1>2. CASE reconcileExistingAgent
  <2>1. /\ agent # None /\ WriteReady("disc", disc.ok, {"disc"})
        /\ UNCHANGED <<dep, cm, byo, ctl>>
    BY <1>2 DEF reconcileExistingAgent
  <2>2. disc.ok \in BOOLEAN
    BY <1>0 DEF TypeOK
  <2> QED BY <1>0, <2>1, <2>2, ReadySeen
<1>3. CASE NoAgent
  <2>1. UNCHANGED <<agent, dep, cm, fresh, ctl, byo>> /\ queue \ {"disc"} \subseteq queue'
    BY <1>3 DEF NoAgent, objects
  <2> QED BY <2>1, Untouched
<1>4. ASSUME NEW r \in Runtimes, createBYOAgent(r) PROVE SeenInv'
  <2>1. queue' = queue \cup agentWorkloadRefPredicate(agent') /\ UNCHANGED byo
    BY <1>4, Zenon DEF createBYOAgent, Stored
  <2> QED BY <1>0, <2>1, Woken DEF SeenInv, GoneIsNotReady
<1>5. CASE WorkloadDiscovered
  <2>1. agent # None /\ WriteReady("disc", TRUE, {}) /\ UNCHANGED <<dep, cm, byo, ctl>>
    BY <1>5 DEF WorkloadDiscovered
  <2> QED BY <1>0, <2>1, ReadySeen
<1>6. CASE DiscoveryFails
  <2>1. UNCHANGED <<agent, dep, cm, fresh, ctl, byo>> /\ queue \ {"disc"} \subseteq queue'
    BY <1>6 DEF DiscoveryFails, objects
  <2> QED BY <2>1, Untouched
<1> QED BY <1>1, <1>2, <1>3, <1>4, <1>5, <1>6 DEF DiscoveryReconciler

(* BYOWorkloadReconciler wake it when they change Ready, *)
LEMMA BYOSees ==
  ASSUME AgentInv, SeenInv, WorkloadAssumption, BYOWorkloadReconciler
  PROVE  SeenInv'
<1>0. TypeOK /\ AgentIsSeen /\ RefIsSeen /\ GoneIsNotReady
  BY DEF AgentInv, SeenInv
<1>s. SameTemplate(dep, dep)
  BY DEF SameTemplate
<1>1. CASE ReconcileBYO
  <2>1. /\ UNCHANGED <<agent, dep, cm, ctl>> /\ queue' = queue \ {"byo"}
        /\ fresh' = fresh \cup {"byo"}
    BY <1>1 DEF ReconcileBYO, objects
  <2>2. PICK ok \in BOOLEAN : /\ dep = None => ~ok
                              /\ byo' = [pc |-> "write", ok |-> ok, again |-> dep # None]
    BY <1>1, Zenon DEF ReconcileBYO
  <2> DEFINE there == dep # None
  <2>3. there \in BOOLEAN /\ (~there => ~ok) /\ byo' = [pc |-> "write", ok |-> ok, again |-> there]
    BY <2>2
  <2> HIDE DEF there
  <2>4. byo'.pc = "write" /\ byo'.ok = ok /\ byo'.again = there
    BY <2>3
  <2>5. AgentIsSeen'
    BY <1>0, <1>s, <2>1, AgentSeenStays
  <2>6. RefIsSeen'
    BY <2>1, <2>4 DEF RefIsSeen
  <2>7. GoneIsNotReady'
    BY <2>3, <2>4 DEF GoneIsNotReady
  <2> QED BY <2>5, <2>6, <2>7 DEF SeenInv
<1>2. CASE ReconcileGone
  <2>1. agent' = None /\ UNCHANGED byo
    BY <1>2 DEF ReconcileGone, objects
  <2> QED BY <1>0, <2>1, Woken DEF SeenInv, GoneIsNotReady
<1>3. CASE ReconcilePanics
  <2>1. UNCHANGED <<agent, dep, cm, fresh, ctl, byo, queue>>
    BY <1>3 DEF ReconcilePanics, vars
  <2> QED BY <2>1, Untouched
<1>4. CASE WriteBYO
  <2> DEFINE again == IF byo.again THEN {"byo"} ELSE {}
  <2>0. /\ UNCHANGED <<dep, cm, ctl>> /\ byo' = IdleByo /\ byo.pc = "write" /\ "byo" \in fresh
        /\ WriteReady("byo", byo.ok, again)
    BY <1>4 DEF WriteBYO
  <2>1. GoneIsNotReady' /\ byo'.pc = "idle"
    BY <2>0 DEF GoneIsNotReady, IdleByo
  <2>2. byo.ok \in BOOLEAN /\ byo.again \in BOOLEAN /\ (byo.again => "byo" \in again)
    BY <1>0 DEF TypeOK
  <2>3. agent # None
    BY <2>0 DEF AgentInv, FreshIsThere
  <2> HIDE DEF again
  <2>4. /\ queue \cup again \subseteq queue'
        /\ \/ agent.ready = byo.ok /\ UNCHANGED agent /\ fresh' = fresh \ {"byo"}
           \/ AgentIsSeen' /\ RefIsSeen'
    BY <1>0, <2>0, <2>2, <2>3, ReadyWakes
  <2>5. CASE agent.ready = byo.ok /\ UNCHANGED agent /\ fresh' = fresh \ {"byo"}
    <3>1. AgentIsSeen'
      BY <1>0, <1>s, <2>0, <2>4, <2>5, AgentSeenStays
    <3>2. "byo" \in queue' \/ agent'.ready = FALSE
      BY <1>0, <2>0, <2>2, <2>4, <2>5 DEF GoneIsNotReady
    <3>3. RefIsSeen'
      BY <2>1, <3>2 DEF RefIsSeen
    <3> QED BY <2>1, <3>1, <3>3 DEF SeenInv
  <2>6. CASE AgentIsSeen' /\ RefIsSeen'
    BY <2>1, <2>6 DEF SeenInv
  <2> QED BY <2>4, <2>5, <2>6
<1>5. CASE BYOFails
  <2>1. /\ UNCHANGED <<agent, dep, cm, ctl>> /\ byo' = IdleByo /\ queue' = queue \cup {"byo"}
        /\ fresh' = fresh \ {"byo"}
    BY <1>5 DEF BYOFails, objects
  <2>2. AgentIsSeen'
    BY <1>0, <1>s, <2>1, AgentSeenStays
  <2>3. RefIsSeen' /\ GoneIsNotReady'
    BY <2>1 DEF RefIsSeen, GoneIsNotReady, IdleByo
  <2> QED BY <2>2, <2>3 DEF SeenInv
<1> QED BY <1>1, <1>2, <1>3, <1>4, <1>5 DEF BYOWorkloadReconciler

(* and a restart wakes all. *)
LEMMA RestartSees ==
  ASSUME Restart
  PROVE  SeenInv'
<1>1. /\ agent' = None \/ agentWorkloadRefPredicate(agent') \subseteq queue'
      /\ byo' = IdleByo
  BY DEF Restart, objects
<1> QED BY <1>1, Woken DEF SeenInv, GoneIsNotReady, IdleByo

(* No step leaves anybody unseen, *)
LEMMA NextSees ==
  ASSUME AgentInv, SeenInv, WorkloadAssumption, [Next]_vars
  PROVE  SeenInv'
<1>0. TypeOK
  BY DEF AgentInv
<1>1. CASE UNCHANGED vars
  <2>1. UNCHANGED <<agent, dep, cm, fresh, ctl, byo, queue>>
    BY <1>1 DEF vars
  <2> QED BY <2>1, Untouched
<1>2. CASE Next
  BY <1>0, <1>2, UsersAreSeen, KubernetesIsSeen, AgentReconcilerSees, DiscoverySees, BYOSees,
     RestartSees DEF Next
<1> QED BY <1>1, <1>2

(* and nobody ever is. *)
LEMMA SeenInvariant == Spec => []SeenInv
<1>1. Init => SeenInv
  BY DEF Init, SeenInv, AgentIsSeen, RefIsSeen, GoneIsNotReady, IdleByo
<1>2. AgentInv /\ SeenInv /\ [Next]_vars => SeenInv'
  BY NextSees, WorkloadAssumption
<1> QED BY <1>1, <1>2, Invariance, PTL DEF Spec

(* Nothing that happens to an agent that the control plane runs is missed, *)
(* whoever races with AgentReconciler: its key is queued, or what is in    *)
(* hand is what is stored (agent_controller.go:48-122, 303-312).           *)
THEOREM AgentsAreSeen == Spec => []AgentIsSeen
<1>1. SeenInv => AgentIsSeen
  BY DEF SeenInv
<1> QED BY <1>1, SeenInvariant, PTL

(* Nor is anything missed that happens to an agent with a workloadRef, and *)
(* one whose workload is gone is left alone only when its status says so   *)
(* (byo_workload_controller.go:37-107).                                    *)
THEOREM RefsAreSeen == Spec => []RefIsSeen
<1>1. SeenInv => RefIsSeen
  BY DEF SeenInv
<1> QED BY <1>1, SeenInvariant, PTL

(* Whatever raced with the reconciliation, updateStatus reports on objects *)
(* that are built of the spec that is stored: see ReportsOnSpec.           *)
THEOREM ReportsAreOnSpec == Spec => []ReportsOnSpec
<1>1. SeenInv => ReportsOnSpec
  BY DEF SeenInv, AgentIsSeen, InHand, ReportsOnSpec
<1> QED BY <1>1, SeenInvariant, PTL
=============================================================================
