------------------------ MODULE TeamLifecycleProofs ------------------------
(***************************************************************************)
(* Proofs about a team, for any members, tasks, requests and sinks and any *)
(* limits: types and the limit on restarts, the limit on members, that no  *)
(* member is lost once the team has started, that an end is final, and     *)
(* that nobody records a session of somebody else.                         *)
(***************************************************************************)
EXTENDS TeamLifecycle, TLAPS, FiniteSetTheorems, WellFoundedInduction

CtlType == [pc : {"idle", "start", "timeout", "complete", "completed", "health", "spawn",
                  "write", "final", "finalWrite", "cleanup", "unfinalize"},
            fresh : BOOLEAN, members : Seq(MemberStatus), idx : Nat]
ReqType == [op : {"idle", "add", "remove", "delete"}, name : Members \cup {None}]
SessionType == [role : Members \cup {None}, is : {"live", "told", "dead"}]

(* Nobody of ms is missing from ns, and no restart is. *)
Kept(ms, ns) ==
    /\ Len(ns) >= Len(ms)
    /\ \A i \in DOMAIN ms : ns[i].name = ms[i].name /\ ns[i].restarts >= ms[i].restarts

Bounded(ms) == Len(ms) <= Len(Static) \/ Len(Static) + Len(ms) <= MaxTotal

Repairing == {"health", "spawn", "write"}

(* Where the controller is in its loops: a start has recorded the members  *)
(* before the current one, a repair is at a member, and it spawns for one  *)
(* that may be restarted.                                                  *)
CtlShape(c) ==
    /\ c.pc = "start" => /\ c.idx <= Len(Static) + 1
                         /\ Len(c.members) = IF c.idx = 0 THEN 0 ELSE c.idx - 1
    /\ c.pc \in Repairing => c.idx >= 1
    /\ c.pc \in {"spawn", "write"} => c.idx <= Len(c.members)
    /\ c.pc = "spawn" => c.members[First(c.members, c.members[c.idx].name)].restarts < MaxRestarts

(* What a copy that is still current says of the team tm: a team that is   *)
(* being started is pending, and one that is repaired has the members of   *)
(* the copy.                                                               *)
CtlCurrent(c, tm) ==
    c.fresh =>
        /\ c.pc = "start" => tm.phase = "Pending"
        /\ c.pc \in Repairing => Kept(tm.members, c.members) /\ Len(c.members) = Len(tm.members)

(* A request whose write would still be accepted has room for its member. *)
ReqCurrent(r, tm) ==
    /\ r.op \in {"add", "remove"} => r.name \in Members
    /\ r.op = "add" => Len(Static) + Len(tm.members) < MaxTotal

TeamGood(tm) == tm \in AgentTeam /\ Bounded(tm.members)
CtlGood(c, tm) == c \in CtlType /\ CtlShape(c) /\ CtlCurrent(c, tm)
ReqGood(rq, tm) == rq \in [Handlers -> ReqType] /\ \A h \in Handlers : ReqCurrent(rq[h], tm)
SessionsGood(ss) == ss \in Seq(SessionType) /\ Len(ss) <= MaxSessions

FlagsGood ==
    /\ sum \in [Sinks -> Summary \cup {None}]
    /\ late \in BOOLEAN /\ decided \in BOOLEAN
    /\ writes \in 0..MaxWrites

(* The inductive invariant. *)
TeamInv ==
    TeamGood(team) /\ SessionsGood(sessions) /\ CtlGood(ctl, team) /\ ReqGood(req, team) /\ FlagsGood

(* What a step may do to a team that has started or has ended. *)
TeamStep(tm, un) ==
    /\ tm.at \in {"there", "deleting"} /\ tm.phase \in Terminal => un.phase \in Terminal
    /\ tm.at \in {"there", "deleting"} /\ tm.phase # "Pending" => Kept(tm.members, un.members)

GoodStep == TeamInv' /\ TeamStep(team, team')

-----------------------------------------------------------------------------
(* Members.                                                                *)

LEMMA Restarts ==
  ASSUME NEW m \in MemberStatus
  PROVE  m.restarts \in Nat /\ m.restarts <= MaxRestarts
<1>1. m.restarts \in 0..MaxRestarts
  BY Zenon DEF MemberStatus
<1> QED BY <1>1, TeamAssumption

LEMMA RestartsOfAll ==
  ASSUME NEW ms \in Seq(MemberStatus)
  PROVE  \A i \in DOMAIN ms : ms[i] \in MemberStatus /\ ms[i].restarts \in Nat
<1>1. \A i \in DOMAIN ms : ms[i] \in MemberStatus
  OBVIOUS
<1> QED BY <1>1, Restarts

(* Every set of numbers that is not empty has a least one. *)
LEMMA Least ==
  ASSUME NEW S, S \subseteq Nat, S # {}
  PROVE  \E x \in S : \A y \in S : x <= y
<1> DEFINE R == OpToRel(<, Nat)
<1>1. PICK x \in S : \A y \in S : ~ (<<y, x>> \in R)
  <2>1. IsWellFoundedOn(R, Nat)
    BY NatLessThanWellFounded
  <2> HIDE DEF R
  <2> QED BY <2>1, WFMin
<1>2. ASSUME NEW y \in S PROVE x <= y
  <2>1. ~ (<<y, x>> \in R)
    BY <1>1
  <2>2. y \in Nat /\ x \in Nat
    OBVIOUS
  <2>3. ~(y < x)
    BY <2>1, <2>2 DEF OpToRel
  <2> QED BY <2>2, <2>3
<1> QED BY <1>2

(* The first member of a name that a member has is one of them. *)
LEMMA FirstIsThere ==
  ASSUME NEW ms \in Seq(MemberStatus), NEW k \in DOMAIN ms
  PROVE  /\ First(ms, ms[k].name) \in DOMAIN ms
         /\ ms[First(ms, ms[k].name)].name = ms[k].name
<1> DEFINE n == ms[k].name
           S == Named(ms, n)
<1>1. S \subseteq DOMAIN ms /\ k \in S
  BY DEF Named
<1>2. DOMAIN ms \subseteq Nat
  OBVIOUS
<1>3. \E x \in S : \A y \in S : x <= y
  BY <1>1, <1>2, Least
<1>4. First(ms, n) \in S
  <2> HIDE DEF S
  <2>1. First(ms, n) = CHOOSE i \in S : \A j \in S : i <= j
    BY DEF First, S
  <2> QED BY <1>3, <2>1
<1> QED BY <1>1, <1>4 DEF Named

(* Which is the first depends on the names only. *)
LEMMA FirstByNames ==
  ASSUME NEW ms \in Seq(MemberStatus), NEW ns \in Seq(MemberStatus), NEW n,
         Len(ns) = Len(ms), \A j \in DOMAIN ms : ns[j].name = ms[j].name
  PROVE  First(ns, n) = First(ms, n)
<1>1. DOMAIN ms = DOMAIN ns
  OBVIOUS
<1>2. Named(ns, n) = Named(ms, n)
  BY <1>1 DEF Named
<1> QED BY <1>2, Zenon DEF First

LEMMA KeptReflexive ==
  ASSUME NEW ms \in Seq(MemberStatus)
  PROVE  Kept(ms, ms)
<1>1. \A i \in DOMAIN ms : ms[i].restarts \in Nat
  BY RestartsOfAll
<1>2. Len(ms) \in Nat
  OBVIOUS
<1> QED BY <1>1, <1>2 DEF Kept

LEMMA KeptTransitive ==
  ASSUME NEW ms \in Seq(MemberStatus), NEW ns \in Seq(MemberStatus), NEW os \in Seq(MemberStatus),
         Kept(ms, ns), Kept(ns, os)
  PROVE  Kept(ms, os)
<1>1. Len(os) >= Len(ms)
  BY DEF Kept
<1>2. ASSUME NEW i \in DOMAIN ms
      PROVE  os[i].name = ms[i].name /\ os[i].restarts >= ms[i].restarts
  <2>1. i \in DOMAIN ns /\ i \in DOMAIN os
    BY <1>1 DEF Kept
  <2>2. ms[i] \in MemberStatus /\ ns[i] \in MemberStatus /\ os[i] \in MemberStatus
    BY <2>1
  <2>3. ms[i].restarts \in Int /\ ns[i].restarts \in Int /\ os[i].restarts \in Int
    BY <2>2, Restarts
  <2>4. /\ ns[i].name = ms[i].name /\ ns[i].restarts >= ms[i].restarts
        /\ os[i].name = ns[i].name /\ os[i].restarts >= ns[i].restarts
    BY <2>1 DEF Kept
  <2> QED BY <2>3, <2>4
<1> QED BY <1>1, <1>2 DEF Kept

(* A member is replaced by one of its name that was not restarted less     *)
(* often.                                                                  *)
LEMMA Replaced ==
  ASSUME NEW ms \in Seq(MemberStatus), NEW k \in DOMAIN ms, NEW m \in MemberStatus,
         m.name = ms[k].name, m.restarts >= ms[k].restarts
  PROVE  LET ns == [ms EXCEPT ![k] = m]
         IN /\ ns \in Seq(MemberStatus)
            /\ Len(ns) = Len(ms)
            /\ ns[k] = m
            /\ \A j \in DOMAIN ms : ns[j].name = ms[j].name
            /\ Kept(ms, ns)
<1> DEFINE ns == [ms EXCEPT ![k] = m]
<1>1. ns \in Seq(MemberStatus) /\ Len(ns) = Len(ms)
  OBVIOUS
<1>2. \A j \in DOMAIN ms : ns[j] = IF j = k THEN m ELSE ms[j]
  OBVIOUS
<1>3. \A j \in DOMAIN ms : ms[j].restarts \in Int
  BY RestartsOfAll
<1> HIDE DEF ns
<1>4. \A j \in DOMAIN ms : ns[j].name = ms[j].name /\ ns[j].restarts >= ms[j].restarts
  BY <1>2, <1>3
<1> QED BY <1>1, <1>2, <1>4 DEF Kept, ns

(* A member that is given a phase. *)
LEMMA PhaseFields ==
  ASSUME NEW m \in MemberStatus, NEW p \in MemberPhases
  PROVE  LET e == [m EXCEPT !.phase = p]
         IN e \in MemberStatus /\ e.name = m.name /\ e.restarts = m.restarts /\ e.session = m.session
BY DEF MemberStatus

LEMMA PhasedMembers ==
  ASSUME NEW ms \in Seq(MemberStatus), NEW n, NEW p \in MemberPhases
  PROVE  /\ WithPhase(ms, n, p) \in Seq(MemberStatus)
         /\ Len(WithPhase(ms, n, p)) = Len(ms)
         /\ Kept(ms, WithPhase(ms, n, p))
<1>1. CASE Named(ms, n) = {}
  BY <1>1, KeptReflexive DEF WithPhase
<1>2. CASE Named(ms, n) # {}
  <2>1. PICK k \in DOMAIN ms : ms[k].name = n
    BY <1>2 DEF Named
  <2>2. PICK f \in DOMAIN ms : f = First(ms, n)
    BY <2>1, FirstIsThere
  <2>3. ms[f] \in MemberStatus
    OBVIOUS
  <2>4. PICK m \in MemberStatus : /\ m = [ms[f] EXCEPT !.phase = p]
                                  /\ m.name = ms[f].name /\ m.restarts = ms[f].restarts
    BY <2>3, PhaseFields, Zenon
  <2>5. m.restarts >= ms[f].restarts
    <3>1. m.restarts = ms[f].restarts
      BY <2>4, Zenon
    <3> QED BY <2>3, <3>1, Restarts
  <2>6. WithPhase(ms, n, p) = [ms EXCEPT ![f] = m]
    <3>1. WithPhase(ms, n, p) = [ms EXCEPT ![First(ms, n)].phase = p]
      BY <1>2, Zenon DEF WithPhase
    <3>2. WithPhase(ms, n, p) = [ms EXCEPT ![f] = [ms[f] EXCEPT !.phase = p]]
      BY <2>2, <3>1, Zenon
    <3>3. [ms[f] EXCEPT !.phase = p] = m
      BY <2>4, Zenon
    <3> QED BY <3>2, <3>3, Zenon
  <2>7. m.name = ms[f].name
    BY <2>4, Zenon
  <2>8. LET ns == [ms EXCEPT ![f] = m]
        IN ns \in Seq(MemberStatus) /\ Len(ns) = Len(ms) /\ Kept(ms, ns)
    BY <2>5, <2>7, Replaced
  <2> QED BY <2>6, <2>8, Zenon
<1> QED BY <1>1, <1>2

(* One member more. *)
LEMMA JoinedMembers ==
  ASSUME NEW ms \in Seq(MemberStatus), NEW m \in MemberStatus
  PROVE  /\ Append(ms, m) \in Seq(MemberStatus)
         /\ Len(Append(ms, m)) = Len(ms) + 1
         /\ Kept(ms, Append(ms, m))
<1>1. Append(ms, m) \in Seq(MemberStatus) /\ Len(Append(ms, m)) = Len(ms) + 1
  OBVIOUS
<1>2. \A i \in DOMAIN ms : Append(ms, m)[i] = ms[i]
  OBVIOUS
<1>3. \A i \in DOMAIN ms : ms[i].restarts \in Int
  BY RestartsOfAll
<1>4. Len(ms) \in Nat
  OBVIOUS
<1> QED BY <1>1, <1>2, <1>3, <1>4 DEF Kept

LEMMA NewMember ==
  ASSUME NEW n \in Members, NEW s \in 0..MaxSessions, NEW p \in MemberPhases
  PROVE  Member(n, s, p) \in MemberStatus
BY TeamAssumption DEF Member, MemberStatus

-----------------------------------------------------------------------------
(* The object, its readers and the sessions.                               *)

LEMMA TeamFields ==
  ASSUME NEW tm \in AgentTeam
  PROVE  /\ tm.at \in {"absent", "there", "deleting", "gone"}
         /\ tm.phase \in TeamPhases
         /\ tm.members \in Seq(MemberStatus)
BY DEF AgentTeam

(* The writes of the object. *)
LEMMA MembersWritten ==
  ASSUME NEW tm \in AgentTeam, NEW ms \in Seq(MemberStatus)
  PROVE  LET un == [tm EXCEPT !.members = ms]
         IN un \in AgentTeam /\ un.members = ms /\ un.phase = tm.phase
BY Zenon DEF AgentTeam

LEMMA PhaseWritten ==
  ASSUME NEW tm \in AgentTeam, NEW p \in TeamPhases
  PROVE  LET un == [tm EXCEPT !.phase = p]
         IN un \in AgentTeam /\ un.members = tm.members /\ un.phase = p
BY Zenon DEF AgentTeam

LEMMA TasksWritten ==
  ASSUME NEW tm \in AgentTeam, NEW s \in Summary
  PROVE  LET un == [tm EXCEPT !.tasks = s]
         IN un \in AgentTeam /\ un.members = tm.members /\ un.phase = tm.phase
BY Zenon DEF AgentTeam

LEMMA MetaWritten ==
  ASSUME NEW tm \in AgentTeam, NEW a \in {"absent", "there", "deleting", "gone"}, NEW f \in BOOLEAN
  PROVE  LET un == [tm EXCEPT !.at = a, !.fin = f]
         IN un \in AgentTeam /\ un.members = tm.members /\ un.phase = tm.phase
BY Zenon DEF AgentTeam

LEMMA AtWritten ==
  ASSUME NEW tm \in AgentTeam, NEW a \in {"absent", "there", "deleting", "gone"}
  PROVE  LET un == [tm EXCEPT !.at = a]
         IN un \in AgentTeam /\ un.members = tm.members /\ un.phase = tm.phase
BY Zenon DEF AgentTeam

LEMMA FinWritten ==
  ASSUME NEW tm \in AgentTeam, NEW f \in BOOLEAN
  PROVE  LET un == [tm EXCEPT !.fin = f]
         IN un \in AgentTeam /\ un.members = tm.members /\ un.phase = tm.phase
BY Zenon DEF AgentTeam

(* An object whose members and phase stay: whoever has read it has read    *)
(* what matters.                                                           *)
LEMMA SameMembers ==
  ASSUME NEW tm, NEW un \in AgentTeam, TeamGood(tm), un.members = tm.members, un.phase = tm.phase
  PROVE  /\ TeamGood(un)
         /\ TeamStep(tm, un)
         /\ \A c : CtlGood(c, tm) => CtlGood(c, un)
         /\ \A rq : ReqGood(rq, tm) => ReqGood(rq, un)
<1>1. tm.members \in Seq(MemberStatus)
  BY TeamFields DEF TeamGood
<1>2. TeamGood(un) /\ TeamStep(tm, un)
  BY <1>1, KeptReflexive DEF TeamGood, TeamStep
<1>3. ASSUME NEW c, CtlGood(c, tm) PROVE CtlGood(c, un)
  BY <1>3, Zenon DEF CtlGood, CtlCurrent
<1>4. ASSUME NEW rq, ReqGood(rq, tm) PROVE ReqGood(rq, un)
  BY <1>4, Zenon DEF ReqGood, ReqCurrent
<1> QED BY <1>2, <1>3, <1>4

(* Nothing is asked of a copy that is not current. *)
LEMMA OldCtl ==
  ASSUME NEW tm, NEW un, CtlGood(ctl, tm), OutdateController
  PROVE  CtlGood(ctl', un)
<1>1. PICK c \in CtlType : c = ctl
  BY DEF CtlGood
<1>2. PICK d \in CtlType : /\ d = [c EXCEPT !.fresh = FALSE]
                           /\ d.fresh = FALSE /\ d.pc = c.pc /\ d.members = c.members /\ d.idx = c.idx
  <2>1. LET d == [c EXCEPT !.fresh = FALSE]
        IN d \in CtlType /\ d.fresh = FALSE /\ d.pc = c.pc /\ d.members = c.members /\ d.idx = c.idx
    BY Zenon DEF CtlType
  <2> QED BY <2>1, Zenon
<1>3. CtlShape(c)
  BY <1>1, Zenon DEF CtlGood
<1>4. d.fresh = FALSE /\ d.pc = c.pc /\ d.members = c.members /\ d.idx = c.idx
  BY <1>2, Zenon
<1>5. CtlShape(d)
  BY <1>3, <1>4, Zenon DEF CtlShape
<1>6. CtlCurrent(d, un)
  BY <1>4, Zenon DEF CtlCurrent
<1>7. ctl' = d
  BY <1>1, <1>2, Zenon DEF OutdateController
<1> QED BY <1>5, <1>6, <1>7, Zenon DEF CtlGood

LEMMA IdleCtlGood ==
  ASSUME NEW tm
  PROVE  CtlGood(IdleCtl, tm)
<1>1. IdleCtl \in CtlType /\ IdleCtl.pc = "idle" /\ IdleCtl.fresh = FALSE
  BY DEF IdleCtl, CtlType
<1> QED BY <1>1 DEF CtlGood, CtlShape, CtlCurrent, Repairing

LEMMA IdleReqGood ==
  ASSUME NEW tm
  PROVE  IdleReq \in ReqType /\ ReqCurrent(IdleReq, tm)
BY DEF IdleReq, ReqType, ReqCurrent

(* A request of which the API server will refuse a write is over; of any   *)
(* other nothing is asked.                                                 *)
LEMMA OldReq ==
  ASSUME NEW r \in ReqType, NEW tm, ReqCurrent(r, tm), NEW un
  PROVE  Outdated(r) \in ReqType /\ ReqCurrent(Outdated(r), un)
<1>1. CASE r.op \in {"add", "remove"}
  BY <1>1, IdleReqGood, Zenon DEF Outdated
<1>2. CASE r.op \notin {"add", "remove"}
  BY <1>2 DEF Outdated, ReqCurrent
<1> QED BY <1>1, <1>2

LEMMA OldReqs ==
  ASSUME NEW tm, NEW un, ReqGood(req, tm), OutdateRequests
  PROVE  ReqGood(req', un)
<1>1. \A h \in Handlers : req[h] \in ReqType /\ ReqCurrent(req[h], tm)
  BY DEF ReqGood
<1>2. \A h \in Handlers : Outdated(req[h]) \in ReqType /\ ReqCurrent(Outdated(req[h]), un)
  BY <1>1, OldReq, Zenon
<1>3. req' = [h \in Handlers |-> Outdated(req[h])]
  BY DEF OutdateRequests
<1> QED BY <1>2, <1>3, Zenon DEF ReqGood

(* The same when one of the requests has ended. *)
LEMMA OldReqsButOne ==
  ASSUME NEW tm, NEW un, ReqGood(req, tm), NEW h \in Handlers,
         req' = [g \in Handlers |-> IF g = h THEN IdleReq ELSE Outdated(req[g])]
  PROVE  ReqGood(req', un)
<1>1. \A g \in Handlers : req[g] \in ReqType /\ ReqCurrent(req[g], tm)
  BY DEF ReqGood
<1>2. \A g \in Handlers : Outdated(req[g]) \in ReqType /\ ReqCurrent(Outdated(req[g]), un)
  BY <1>1, OldReq, Zenon
<1>3. IdleReq \in ReqType /\ ReqCurrent(IdleReq, un)
  BY IdleReqGood
<1>4. \A g \in Handlers : req'[g] \in ReqType /\ ReqCurrent(req'[g], un)
  BY <1>2, <1>3, Zenon
<1>5. req' \in [Handlers -> ReqType]
  BY <1>2, <1>3, Zenon
<1> QED BY <1>4, <1>5, Zenon DEF ReqGood

(* One request changes. *)
LEMMA ReqSet ==
  ASSUME NEW tm, ReqGood(req, tm), NEW h \in Handlers, NEW r \in ReqType, ReqCurrent(r, tm),
         req' = [req EXCEPT ![h] = r]
  PROVE  ReqGood(req', tm)
<1>1. req \in [Handlers -> ReqType] /\ \A g \in Handlers : ReqCurrent(req[g], tm)
  BY DEF ReqGood
<1>2. req' \in [Handlers -> ReqType]
  BY <1>1, Zenon
<1>3. \A g \in Handlers : ReqCurrent(req'[g], tm)
  BY <1>1, Zenon
<1> QED BY <1>2, <1>3 DEF ReqGood

(* Whoever else writes the team outdates the controller's copy. *)
LEMMA OtherWriteGood ==
  ASSUME TeamInv, NEW t \in AgentTeam, Bounded(t.members), OtherWrite(t)
  PROVE  /\ TeamGood(team') /\ CtlGood(ctl', team')
         /\ Exists /\ team' = t
         /\ writes' \in 0..MaxWrites
<1>1. CtlGood(ctl', team')
  BY OldCtl DEF TeamInv, OtherWrite
<1>2. writes' \in 0..MaxWrites
  BY TeamAssumption DEF TeamInv, FlagsGood, OtherWrite, OtherWrites
<1> QED BY <1>1, <1>2, Zenon DEF OtherWrite, TeamGood

LEMMA SessionCreated ==
  ASSUME SessionsGood(sessions), NEW r \in Members \cup {None}, createSession(r)
  PROVE  SessionsGood(sessions') /\ Len(sessions) + 1 \in 1..MaxSessions
<1>1. [role |-> r, is |-> "live"] \in SessionType
  BY DEF SessionType
<1>2. sessions \in Seq(SessionType) /\ Len(sessions) < MaxSessions
  BY DEF SessionsGood, createSession
<1>3. sessions' = Append(sessions, [role |-> r, is |-> "live"])
  BY Zenon DEF createSession
<1>4. \A x \in SessionType : /\ Append(sessions, x) \in Seq(SessionType)
                            /\ Len(Append(sessions, x)) = Len(sessions) + 1
  BY <1>2
<1>5. sessions' \in Seq(SessionType) /\ Len(sessions') = Len(sessions) + 1
  BY <1>1, <1>3, <1>4, Zenon
<1> QED BY <1>2, <1>5, TeamAssumption DEF SessionsGood

-----------------------------------------------------------------------------
(* The steps of requests, sinks and the world.                             *)

(* The team stays as it is. *)
LEMMA SameTeam ==
  ASSUME TeamInv, team' = team
  PROVE  /\ TeamGood(team') /\ TeamStep(team, team')
         /\ CtlGood(ctl, team') /\ ReqGood(req, team')
<1>1. team \in AgentTeam /\ TeamGood(team) /\ CtlGood(ctl, team) /\ ReqGood(req, team)
  BY DEF TeamInv, TeamGood
<1> QED BY <1>1, SameMembers, Zenon

(* The team is written, but not its members or its phase. *)
LEMMA SameMembersOfTeam ==
  ASSUME TeamInv, NEW un \in AgentTeam, team' = un,
         un.members = team.members, un.phase = team.phase
  PROVE  /\ TeamGood(team') /\ TeamStep(team, team')
         /\ CtlGood(ctl, team') /\ ReqGood(req, team')
<1>1. TeamGood(team) /\ CtlGood(ctl, team) /\ ReqGood(req, team)
  BY DEF TeamInv
<1> QED BY <1>1, SameMembers, Zenon

LEMMA SummaryType ==
  GetSummary \in Summary
<1>1. \A S \in SUBSET Tasks : Cardinality(S) \in Nat
  BY TeamAssumption, FS_Subset, FS_CardinalityType
<1>2. /\ {t \in Tasks : state[t] \in Present} \in SUBSET Tasks
      /\ {t \in {u \in Tasks : state[u] \in Present} : state[t] = "completed"} \in SUBSET Tasks
  OBVIOUS
<1> QED BY <1>1, <1>2 DEF GetSummary, Summary

LEMMA StepTasks ==
  ASSUME TeamInv, UNCHANGED teamVars
  PROVE  GoodStep
<1>1. team' = team /\ sessions' = sessions /\ ctl' = ctl /\ req' = req
      /\ sum' = sum /\ late' = late /\ writes' = writes /\ decided' = decided
  BY DEF teamVars
<1>2. FlagsGood'
  BY <1>1, Zenon DEF TeamInv, FlagsGood
<1> QED BY <1>1, <1>2, SameTeam, Zenon DEF GoodStep, TeamInv

(* Somebody else takes one of the bounded steps. *)
LEMMA OtherWritesType ==
  ASSUME TeamInv, OtherWrites
  PROVE  writes' \in 0..MaxWrites
BY TeamAssumption DEF TeamInv, FlagsGood, OtherWrites

LEMMA StepCreateTask ==
  ASSUME TeamInv, NEW t \in Tasks, createTeamTask(t)
  PROVE  GoodStep
<1>1. team' = team /\ sessions' = sessions /\ ctl' = ctl /\ req' = req
      /\ sum' = sum /\ late' = late /\ decided' = decided
  BY Zenon DEF createTeamTask
<1>2. writes' \in 0..MaxWrites
  <2>1. CASE OtherWrites
    BY <2>1, OtherWritesType
  <2>2. CASE UNCHANGED writes
    BY <2>2, Zenon DEF TeamInv, FlagsGood
  <2> QED BY <2>1, <2>2, Zenon DEF createTeamTask
<1>3. FlagsGood'
  BY <1>1, <1>2, Zenon DEF TeamInv, FlagsGood
<1> QED BY <1>1, <1>3, SameTeam, Zenon DEF GoodStep, TeamInv

LEMMA StepCreateTeam ==
  ASSUME TeamInv, createTeam
  PROVE  GoodStep
<1>1. PICK un \in AgentTeam : team' = un /\ un.members = team.members /\ un.phase = team.phase
  BY AtWritten, Zenon DEF createTeam, TeamInv, TeamGood
<1>2. TeamGood(team') /\ TeamStep(team, team') /\ CtlGood(ctl, team') /\ ReqGood(req, team')
  BY <1>1, SameMembersOfTeam
<1>3. FlagsGood'
  BY Zenon DEF createTeam, TeamInv, FlagsGood
<1> QED BY <1>2, <1>3, Zenon DEF createTeam, GoodStep, TeamInv

LEMMA StepAsk ==
  ASSUME TeamInv, NEW h \in Handlers, NEW op \in {"add", "remove"}, NEW n \in Members,
         op = "add" => HasRoom, Ask(h, op, n)
  PROVE  GoodStep
<1> DEFINE r == [op |-> op, name |-> n]
<1>1. r \in ReqType /\ ReqCurrent(r, team)
  BY DEF ReqType, ReqCurrent, HasRoom
<1>2. ReqGood(req', team)
  BY <1>1, ReqSet, Zenon DEF Ask, TeamInv
<1>3. FlagsGood'
  BY Zenon DEF Ask, TeamInv, FlagsGood
<1> QED BY <1>2, <1>3, SameTeam, Zenon DEF Ask, GoodStep, TeamInv

(* The request that is written is still current, and there is room.        *)
LEMMA StepMemberWrite ==
  ASSUME TeamInv, NEW h \in Handlers, MemberWrite(h)
  PROVE  GoodStep
<1>1. /\ team \in AgentTeam /\ team.members \in Seq(MemberStatus) /\ Bounded(team.members)
      /\ req[h].op \in {"add", "remove"} /\ ReqCurrent(req[h], team)
  BY TeamFields DEF MemberWrite, TeamInv, TeamGood, ReqGood
<1>2. /\ MembersAfter(req[h]) \in Seq(MemberStatus)
      /\ Kept(team.members, MembersAfter(req[h]))
      /\ Bounded(MembersAfter(req[h]))
  <2>1. CASE req[h].op = "add"
    <3>1. Member(req[h].name, 0, "Joining") \in MemberStatus
      BY <1>1, <2>1, NewMember, TeamAssumption DEF ReqCurrent, MemberPhases
    <3>2. Len(Static) + Len(team.members) < MaxTotal
      BY <1>1, <2>1 DEF ReqCurrent
    <3>3. Len(Static) \in Nat /\ Len(team.members) \in Nat /\ MaxTotal \in Nat
      BY <1>1, TeamAssumption
    <3>4. MembersAfter(req[h]) = Append(team.members, Member(req[h].name, 0, "Joining"))
      BY <2>1 DEF MembersAfter
    <3>5. Len(MembersAfter(req[h])) = Len(team.members) + 1
      BY <1>1, <3>1, <3>4, JoinedMembers
    <3>6. Bounded(MembersAfter(req[h]))
      BY <3>2, <3>3, <3>5 DEF Bounded
    <3> QED BY <1>1, <3>1, <3>4, <3>6, JoinedMembers
  <2>2. CASE req[h].op = "remove"
    <3>1. MembersAfter(req[h]) = WithPhase(team.members, req[h].name, "Shutdown")
      BY <2>2 DEF MembersAfter
    <3>2. "Shutdown" \in MemberPhases
      BY DEF MemberPhases
    <3>3. /\ MembersAfter(req[h]) \in Seq(MemberStatus)
          /\ Len(MembersAfter(req[h])) = Len(team.members)
          /\ Kept(team.members, MembersAfter(req[h]))
      BY <1>1, <3>1, <3>2, PhasedMembers
    <3> QED BY <1>1, <3>3 DEF Bounded
  <2> QED BY <1>1, <2>1, <2>2
<1>3. PICK un \in AgentTeam : /\ un = [team EXCEPT !.members = MembersAfter(req[h])]
                              /\ un.members = MembersAfter(req[h]) /\ un.phase = team.phase
  BY <1>1, <1>2, MembersWritten, Zenon
<1>4. OtherWrite(un)
  BY <1>3, Zenon DEF MemberWrite
<1>5. un.members = MembersAfter(req[h]) /\ un.phase = team.phase
  BY <1>3, Zenon
<1>6. /\ TeamGood(team') /\ CtlGood(ctl', team') /\ team' = un /\ writes' \in 0..MaxWrites
  BY <1>2, <1>4, <1>5, OtherWriteGood
<1>7. TeamStep(team, team')
  BY <1>2, <1>5, <1>6, Zenon DEF TeamStep
<1>8. ReqGood(req', team')
  BY OldReqsButOne, Zenon DEF MemberWrite, TeamInv
<1>9. FlagsGood' /\ sessions' = sessions
  BY <1>6, Zenon DEF MemberWrite, TeamInv, FlagsGood
<1> QED BY <1>6, <1>7, <1>8, <1>9, Zenon DEF GoodStep, TeamInv

LEMMA StepDeleteTeam ==
  ASSUME TeamInv, NEW h \in Handlers, deleteTeam(h)
  PROVE  GoodStep
<1> DEFINE r == [op |-> "delete", name |-> None]
<1>1. r \in ReqType /\ ReqCurrent(r, team)
  BY DEF ReqType, ReqCurrent
<1>2. ReqGood(req', team)
  BY <1>1, ReqSet, Zenon DEF deleteTeam, TeamInv
<1>3. writes' \in 0..MaxWrites
  BY TeamAssumption DEF deleteTeam, OtherWrites, TeamInv, FlagsGood
<1>4. FlagsGood'
  BY <1>3, Zenon DEF deleteTeam, TeamInv, FlagsGood
<1> QED BY <1>2, <1>4, SameTeam, Zenon DEF deleteTeam, GoodStep, TeamInv

(* A delete request does not write members or the phase. *)
LEMMA DeletedFields ==
  ASSUME NEW tm \in AgentTeam
  PROVE  /\ Deleted(tm) \in AgentTeam
         /\ Deleted(tm).members = tm.members /\ Deleted(tm).phase = tm.phase
<1>1. PICK a \in {"absent", "there", "deleting", "gone"} : a = IF tm.fin THEN "deleting" ELSE "gone"
  OBVIOUS
<1>2. Deleted(tm) = [tm EXCEPT !.at = a]
  BY <1>1, Zenon DEF Deleted
<1> QED BY <1>2, AtWritten, Zenon

LEMMA StepDeleteWrite ==
  ASSUME TeamInv, NEW h \in Handlers, DeleteWrite(h)
  PROVE  GoodStep
<1>1. PICK un \in AgentTeam : team' = un /\ un.members = team.members /\ un.phase = team.phase
  BY DeletedFields, Zenon DEF DeleteWrite, TeamInv, TeamGood
<1>2. TeamGood(team') /\ TeamStep(team, team')
  BY <1>1, SameMembersOfTeam
<1>3. CtlGood(ctl', team')
  BY OldCtl, Zenon DEF DeleteWrite, TeamInv
<1>4. ReqGood(req', team')
  BY OldReqsButOne, Zenon DEF DeleteWrite, TeamInv
<1>5. FlagsGood'
  BY Zenon DEF DeleteWrite, TeamInv, FlagsGood
<1> QED BY <1>2, <1>3, <1>4, <1>5, Zenon DEF DeleteWrite, GoodStep, TeamInv

LEMMA StepRequestFails ==
  ASSUME TeamInv, NEW h \in Handlers, RequestFails(h)
  PROVE  GoodStep
<1>1. ReqGood(req', team)
  BY IdleReqGood, ReqSet, Zenon DEF RequestFails, TeamInv
<1>2. FlagsGood'
  BY Zenon DEF RequestFails, TeamInv, FlagsGood
<1> QED BY <1>1, <1>2, SameTeam, Zenon DEF RequestFails, GoodStep, TeamInv

LEMMA StepMemberPhase ==
  ASSUME TeamInv, NEW n \in Members, NEW p \in {"Working", "Idle", "Lost"}, updateMemberPhase(n, p)
  PROVE  GoodStep
<1>1. team \in AgentTeam /\ team.members \in Seq(MemberStatus) /\ Bounded(team.members)
  BY TeamFields DEF TeamInv, TeamGood
<1>2. PICK ms \in Seq(MemberStatus) : /\ ms = WithPhase(team.members, n, p)
                                      /\ Len(ms) = Len(team.members) /\ Kept(team.members, ms)
  BY <1>1, PhasedMembers DEF MemberPhases
<1>3. PICK un \in AgentTeam : /\ un = [team EXCEPT !.members = ms]
                              /\ un.members = ms /\ un.phase = team.phase
  BY <1>1, MembersWritten, Zenon
<1>4. OtherWrite(un)
  BY <1>2, <1>3, Zenon DEF updateMemberPhase
<1>5. un.members = ms /\ un.phase = team.phase
  BY <1>3, Zenon
<1>6. Bounded(ms)
  BY <1>1, <1>2 DEF Bounded
<1>7. TeamGood(team') /\ CtlGood(ctl', team') /\ team' = un /\ writes' \in 0..MaxWrites
  BY <1>4, <1>5, <1>6, OtherWriteGood
<1>8. TeamStep(team, team')
  BY <1>2, <1>5, <1>7, Zenon DEF TeamStep
<1>9. ReqGood(req', team')
  BY OldReqs, Zenon DEF updateMemberPhase, TeamInv
<1>10. FlagsGood' /\ sessions' = sessions
  BY <1>7, Zenon DEF updateMemberPhase, TeamInv, FlagsGood
<1> QED BY <1>7, <1>8, <1>9, <1>10, Zenon DEF GoodStep, TeamInv

LEMMA StepTaskSummary ==
  ASSUME TeamInv, NEW k \in Sinks, updateTaskSummary(k)
  PROVE  GoodStep
<1>1. sum' \in [Sinks -> Summary \cup {None}]
  <2>1. PICK s \in Summary : s = GetSummary
    BY SummaryType
  <2>2. sum' = [sum EXCEPT ![k] = s] /\ sum \in [Sinks -> Summary \cup {None}]
    BY <2>1, Zenon DEF updateTaskSummary, TeamInv, FlagsGood
  <2> QED BY <2>2
<1>2. writes' \in 0..MaxWrites
  BY OtherWritesType, Zenon DEF updateTaskSummary
<1>3. FlagsGood'
  BY <1>1, <1>2, Zenon DEF updateTaskSummary, TeamInv, FlagsGood
<1> QED BY <1>3, SameTeam, Zenon DEF updateTaskSummary, GoodStep, TeamInv

LEMMA StepSummaryWrite ==
  ASSUME TeamInv, NEW k \in Sinks, SummaryWrite(k)
  PROVE  GoodStep
<1>1. team \in AgentTeam /\ sum[k] \in Summary /\ Bounded(team.members)
  BY DEF SummaryWrite, TeamInv, TeamGood, FlagsGood
<1>2. PICK un \in AgentTeam : /\ un = [team EXCEPT !.tasks = sum[k]]
                              /\ un.members = team.members /\ un.phase = team.phase
  BY <1>1, TasksWritten, Zenon
<1>3. team' = un
  BY <1>2, Zenon DEF SummaryWrite
<1>4. un.members = team.members /\ un.phase = team.phase
  BY <1>2, Zenon
<1>5. CtlGood(ctl', team')
  BY OldCtl DEF SummaryWrite, TeamInv
<1>6. TeamGood(team') /\ TeamStep(team, team')
  BY <1>3, <1>4, SameMembersOfTeam
<1>7. ReqGood(req', team')
  BY OldReqs, Zenon DEF SummaryWrite, TeamInv
<1>8. sum' \in [Sinks -> Summary \cup {None}]
  <2>1. sum' = [sum EXCEPT ![k] = None] /\ sum \in [Sinks -> Summary \cup {None}]
    BY Zenon DEF SummaryWrite, TeamInv, FlagsGood
  <2> QED BY <2>1
<1>9. FlagsGood' /\ sessions' = sessions
  BY <1>8, Zenon DEF SummaryWrite, TeamInv, FlagsGood
<1> QED BY <1>5, <1>6, <1>7, <1>9, Zenon DEF GoodStep, TeamInv

LEMMA StepLeadDecides ==
  ASSUME TeamInv, handleCompleteTeam
  PROVE  GoodStep
<1>1. team \in AgentTeam /\ team.members \in Seq(MemberStatus) /\ Bounded(team.members)
  BY TeamFields DEF TeamInv, TeamGood
<1>2. PICK un \in AgentTeam : /\ un = [team EXCEPT !.phase = "Completed"]
                              /\ un.members = team.members /\ un.phase = "Completed"
  BY <1>1, PhaseWritten, Zenon DEF TeamPhases
<1>3. OtherWrite(un)
  BY <1>2, Zenon DEF handleCompleteTeam
<1>4. un.members = team.members /\ un.phase = "Completed"
  BY <1>2, Zenon
<1>5. TeamGood(team') /\ CtlGood(ctl', team') /\ team' = un /\ writes' \in 0..MaxWrites
  BY <1>1, <1>3, <1>4, OtherWriteGood
<1>6. TeamStep(team, team')
  BY <1>1, <1>4, <1>5, KeptReflexive DEF TeamStep, Terminal
<1>7. ReqGood(req', team')
  BY OldReqs, Zenon DEF handleCompleteTeam, TeamInv
<1>8. FlagsGood' /\ sessions' = sessions
  BY <1>5, Zenon DEF handleCompleteTeam, TeamInv, FlagsGood
<1> QED BY <1>5, <1>6, <1>7, <1>8, Zenon DEF GoodStep, TeamInv

LEMMA StepSessionEnds ==
  ASSUME TeamInv, NEW x \in 1..MaxSessions, SessionEnds(x)
  PROVE  GoodStep
<1>1. sessions \in Seq(SessionType) /\ Len(sessions) <= MaxSessions /\ x \in DOMAIN sessions
  BY DEF SessionEnds, TeamInv, SessionsGood
<1>2. sessions[x] \in SessionType
  BY <1>1
<1>3. PICK e \in SessionType : e = [sessions[x] EXCEPT !.is = "dead"]
  BY <1>2, Zenon DEF SessionType
<1>4. sessions' = [sessions EXCEPT ![x] = e]
  <2>1. sessions' = [sessions EXCEPT ![x] = [sessions[x] EXCEPT !.is = "dead"]]
    BY Zenon DEF SessionEnds
  <2> QED BY <1>3, <2>1, Zenon
<1>5. LET ss == [sessions EXCEPT ![x] = e]
      IN ss \in Seq(SessionType) /\ Len(ss) = Len(sessions)
  BY <1>1
<1>6. SessionsGood(sessions')
  BY <1>1, <1>4, <1>5, Zenon DEF SessionsGood
<1>7. FlagsGood'
  BY Zenon DEF SessionEnds, TeamInv, FlagsGood
<1> QED BY <1>6, <1>7, SameTeam, Zenon DEF SessionEnds, GoodStep, TeamInv

LEMMA StepTimePasses ==
  ASSUME TeamInv, TimePasses
  PROVE  GoodStep
<1>1. FlagsGood'
  BY DEF TimePasses, TeamInv, FlagsGood
<1> QED BY <1>1, SameTeam, Zenon DEF TimePasses, GoodStep, TeamInv

-----------------------------------------------------------------------------
(* The steps of the controller.                                            *)

(* The parts of the controller's copy. *)
LEMMA CtlFields ==
  ASSUME NEW c \in CtlType
  PROVE  c.members \in Seq(MemberStatus) /\ c.idx \in Nat /\ c.fresh \in BOOLEAN
BY DEF CtlType

LEMMA CtlAt ==
  ASSUME NEW c \in CtlType, NEW i \in Nat
  PROVE  LET d == [c EXCEPT !.idx = i]
         IN d \in CtlType /\ d.pc = c.pc /\ d.fresh = c.fresh /\ d.members = c.members /\ d.idx = i
BY Zenon DEF CtlType

LEMMA CtlGoes ==
  ASSUME NEW c \in CtlType,
         NEW p \in {"completed", "finalWrite", "cleanup", "unfinalize"}
  PROVE  LET d == [c EXCEPT !.pc = p]
         IN d \in CtlType /\ d.pc = p
<1>1. p \in {"idle", "start", "timeout", "complete", "completed", "health", "spawn",
             "write", "final", "finalWrite", "cleanup", "unfinalize"}
  OBVIOUS
<1> QED BY <1>1, Zenon DEF CtlType

LEMMA CtlNext ==
  ASSUME NEW c \in CtlType
  PROVE  LET d == [c EXCEPT !.pc = "health", !.idx = @ + 1]
         IN /\ d \in CtlType /\ d.pc = "health" /\ d.fresh = c.fresh
            /\ d.members = c.members /\ d.idx = c.idx + 1
<1>1. PICK i \in Nat : i = c.idx + 1
  BY CtlFields
<1>2. LET d == [c EXCEPT !.pc = "health", !.idx = i]
      IN /\ d \in CtlType /\ d.pc = "health" /\ d.fresh = c.fresh
         /\ d.members = c.members /\ d.idx = i
  BY Zenon DEF CtlType
<1> QED BY <1>1, <1>2, Zenon

(* Outside the loops there is nothing to say of the copy. *)
LEMMA CtlElsewhere ==
  ASSUME NEW c \in CtlType, c.pc \notin {"start"} \cup Repairing, NEW tm
  PROVE  CtlGood(c, tm)
BY DEF CtlGood, CtlShape, CtlCurrent, Repairing

LEMMA StepReconcile ==
  ASSUME TeamInv, Reconcile
  PROVE  GoodStep
<1>1. team \in AgentTeam /\ team.members \in Seq(MemberStatus)
  BY TeamFields DEF TeamInv, TeamGood
<1>2. CtlGood(ctl', team)
  <2>1. ASSUME NEW p \in {"final", "timeout", "complete"}, Turn(p, <<>>, 0) PROVE CtlGood(ctl', team)
    BY <2>1 DEF Turn, CtlGood, CtlShape, CtlCurrent, Repairing, CtlType
  <2>2. ASSUME handlePending PROVE CtlGood(ctl', team)
    BY <2>2, TeamAssumption DEF handlePending, Turn, CtlGood, CtlShape, CtlCurrent, Repairing, CtlType
  <2>3. ASSUME Turn("health", team.members, 1) PROVE CtlGood(ctl', team)
    <3> DEFINE c == [pc |-> "health", fresh |-> TRUE, members |-> team.members, idx |-> 1]
    <3>1. c \in CtlType
      BY <1>1 DEF CtlType
    <3>2. c.pc = "health" /\ c.members = team.members /\ c.idx = 1
      OBVIOUS
    <3> HIDE DEF c
    <3>3. CtlShape(c) /\ CtlCurrent(c, team)
      BY <1>1, <3>2, KeptReflexive DEF CtlShape, CtlCurrent, Repairing
    <3>4. ctl' = c
      BY <2>3, Zenon DEF Turn, c
    <3> QED BY <3>1, <3>3, <3>4, Zenon DEF CtlGood
  <2> QED BY <2>1, <2>2, <2>3, Zenon DEF Reconcile, handleRunning
<1>3. FlagsGood'
  BY Zenon DEF Reconcile, TeamInv, FlagsGood
<1> QED BY <1>2, <1>3, SameTeam, Zenon DEF Reconcile, GoodStep, TeamInv

LEMMA StepAddFinalizer ==
  ASSUME TeamInv, AddFinalizer
  PROVE  GoodStep
<1>1. PICK un \in AgentTeam : team' = un /\ un.members = team.members /\ un.phase = team.phase
  BY FinWritten, Zenon DEF AddFinalizer, TeamInv, TeamGood
<1>2. TeamGood(team') /\ TeamStep(team, team') /\ CtlGood(ctl, team')
  BY <1>1, SameMembersOfTeam
<1>3. ReqGood(req', team')
  BY OldReqs, Zenon DEF AddFinalizer, TeamInv
<1>4. FlagsGood'
  BY Zenon DEF AddFinalizer, TeamInv, FlagsGood
<1> QED BY <1>2, <1>3, <1>4, Zenon DEF AddFinalizer, GoodStep, TeamInv

LEMMA StepTerminal ==
  ASSUME TeamInv, handleTerminal
  PROVE  GoodStep
<1>1. PICK un \in AgentTeam : team' = un /\ un.members = team.members /\ un.phase = team.phase
  BY DeletedFields, Zenon DEF handleTerminal, TeamInv, TeamGood
<1>2. TeamGood(team') /\ TeamStep(team, team') /\ CtlGood(ctl, team')
  BY <1>1, SameMembersOfTeam
<1>3. ReqGood(req', team')
  BY OldReqs, Zenon DEF handleTerminal, TeamInv
<1>4. FlagsGood'
  BY Zenon DEF handleTerminal, TeamInv, FlagsGood
<1> QED BY <1>2, <1>3, <1>4, Zenon DEF handleTerminal, GoodStep, TeamInv

(* A member that is started, or was not, is recorded. *)
LEMMA StartRecorded ==
  ASSUME TeamInv, ctl.pc = "start", ctl.idx <= Len(Static),
         NEW s \in 0..MaxSessions, NEW p \in MemberPhases,
         ctl' = [ctl EXCEPT !.idx = ctl.idx + 1,
                    !.members = IF ctl.idx = 0 THEN @ ELSE Append(@, Member(Static[ctl.idx], s, p))]
  PROVE  CtlGood(ctl', team)
<1>1. PICK c \in CtlType : c = ctl
  BY DEF TeamInv, CtlGood
<1>2. /\ c.members \in Seq(MemberStatus) /\ c.idx \in Nat /\ c.idx <= Len(Static) /\ c.pc = "start"
      /\ Len(c.members) = IF c.idx = 0 THEN 0 ELSE c.idx - 1
      /\ c.fresh => team.phase = "Pending"
  BY <1>1, CtlFields DEF TeamInv, CtlGood, CtlShape, CtlCurrent
<1>3. PICK ms \in Seq(MemberStatus) :
         /\ ms = IF c.idx = 0 THEN c.members ELSE Append(c.members, Member(Static[c.idx], s, p))
         /\ Len(ms) = c.idx
  <2>1. CASE c.idx = 0
    BY <1>2, <2>1
  <2>2. CASE c.idx # 0
    <3>1. Static[c.idx] \in Members
      BY <1>2, <2>2, TeamAssumption
    <3>2. PICK m \in MemberStatus : m = Member(Static[c.idx], s, p)
      BY <3>1, NewMember
    <3>3. Append(c.members, m) \in Seq(MemberStatus) /\ Len(Append(c.members, m)) = c.idx
      BY <1>2, <2>2
    <3> QED BY <2>2, <3>2, <3>3, Zenon
  <2> QED BY <2>1, <2>2
<1>4. PICK i \in Nat : i = c.idx + 1
  BY <1>2
<1>5. PICK d \in CtlType : /\ d = [c EXCEPT !.idx = i, !.members = ms]
                           /\ d.pc = c.pc /\ d.fresh = c.fresh /\ d.members = ms /\ d.idx = i
  <2>1. LET d == [c EXCEPT !.idx = i, !.members = ms]
        IN d \in CtlType /\ d.pc = c.pc /\ d.fresh = c.fresh /\ d.members = ms /\ d.idx = i
    BY Zenon DEF CtlType
  <2> QED BY <2>1, Zenon
<1>6. d.pc = c.pc /\ d.fresh = c.fresh /\ d.members = ms /\ d.idx = i
  BY <1>5, Zenon
<1>7. CtlShape(d) /\ CtlCurrent(d, team)
  BY <1>2, <1>3, <1>4, <1>6 DEF CtlShape, CtlCurrent, Repairing
<1>8. ctl' = d
  BY <1>1, <1>3, <1>4, <1>5, Zenon
<1> QED BY <1>7, <1>8, Zenon DEF CtlGood

LEMMA StepStartSpawn ==
  ASSUME TeamInv, StartSpawn
  PROVE  GoodStep
<1> DEFINE i == ctl.idx
           n == IF i = 0 THEN None ELSE Static[i]
<1>1. i \in Nat /\ i <= Len(Static) /\ ctl.pc = "start"
  BY CtlFields DEF StartSpawn, TeamInv, CtlGood
<1>2. n \in Members \cup {None}
  BY <1>1, TeamAssumption
<1>3. SessionsGood(sessions') /\ CtlGood(ctl', team)
  <2>1. CASE /\ createSession(n)
             /\ ctl' = [ctl EXCEPT !.idx = i + 1,
                           !.members = IF i = 0 THEN @
                                       ELSE Append(@, Member(n, Len(sessions) + 1, "Working"))]
    <3>1. SessionsGood(sessions') /\ Len(sessions) + 1 \in 0..MaxSessions
      BY <1>2, <2>1, SessionCreated, TeamAssumption DEF TeamInv
    <3>2. ctl' = [ctl EXCEPT !.idx = i + 1,
                     !.members = IF i = 0 THEN @
                                 ELSE Append(@, Member(Static[i], Len(sessions) + 1, "Working"))]
      BY <2>1, Zenon
    <3>3. "Working" \in MemberPhases
      BY DEF MemberPhases
    <3> QED BY <1>1, <3>1, <3>2, <3>3, StartRecorded, Zenon
  <2>2. CASE i # 0 /\ UNCHANGED sessions
             /\ ctl' = [ctl EXCEPT !.idx = i + 1,
                           !.members = IF i = 0 THEN @ ELSE Append(@, Member(n, 0, "Failed"))]
    <3>1. ctl' = [ctl EXCEPT !.idx = i + 1,
                     !.members = IF i = 0 THEN @ ELSE Append(@, Member(Static[i], 0, "Failed"))]
      BY <2>2, Zenon
    <3>2. "Failed" \in MemberPhases /\ 0 \in 0..MaxSessions
      BY TeamAssumption DEF MemberPhases
    <3> QED BY <1>1, <2>2, <3>1, <3>2, StartRecorded, Zenon DEF TeamInv
  <2>3. CASE i = 0 /\ UNCHANGED sessions /\ Done
    BY <2>3, IdleCtlGood, Zenon DEF Done, TeamInv
  <2> QED BY <2>1, <2>2, <2>3, Zenon DEF StartSpawn
<1>4. FlagsGood'
  BY Zenon DEF StartSpawn, TeamInv, FlagsGood
<1>5. team' = team /\ req' = req
  BY Zenon DEF StartSpawn
<1> QED BY <1>3, <1>4, <1>5, SameTeam, Zenon DEF GoodStep, TeamInv

(* A write of the controller succeeds only while its copy is current.      *)
LEMMA StepStartWrite ==
  ASSUME TeamInv, StartWrite
  PROVE  GoodStep
<1>1. /\ team \in AgentTeam /\ ctl \in CtlType /\ ctl.members \in Seq(MemberStatus)
      /\ ctl.idx \in Nat /\ ctl.idx > Len(Static)
      /\ CtlShape(ctl) /\ CtlCurrent(ctl, team) /\ ctl.pc = "start"
  BY CtlFields DEF StartWrite, TeamInv, TeamGood, CtlGood
<1>2. TeamGood(team') /\ TeamStep(team, team') /\ ReqGood(req', team')
  <2>1. CASE ControllerWrite([team EXCEPT !.phase = "Running", !.members = ctl.members,
                                          !.tasks = ZeroSummary])
    <3>1. ZeroSummary \in Summary /\ "Running" \in TeamPhases
      BY DEF ZeroSummary, Summary, TeamPhases
    <3>2. PICK un \in AgentTeam : /\ un = [team EXCEPT !.phase = "Running", !.members = ctl.members,
                                                       !.tasks = ZeroSummary]
                                  /\ un.members = ctl.members
      <4>1. LET un == [team EXCEPT !.phase = "Running", !.members = ctl.members,
                                   !.tasks = ZeroSummary]
            IN un \in AgentTeam /\ un.members = ctl.members
        BY <1>1, <3>1, Zenon DEF AgentTeam
      <4> QED BY <4>1, Zenon
    <3>3. team' = un /\ un.members = ctl.members
      BY <2>1, <3>2, Zenon DEF ControllerWrite
    <3>4. Len(ctl.members) <= Len(Static)
      BY <1>1, TeamAssumption DEF CtlShape
    <3>5. TeamGood(team')
      BY <3>3, <3>4 DEF TeamGood, Bounded
    <3>6. team.phase = "Pending"
      BY <1>1, <2>1 DEF ControllerWrite, CtlCurrent
    <3>7. TeamStep(team, team')
      BY <3>6 DEF TeamStep, Terminal
    <3>8. ReqGood(req', team')
      BY <2>1, OldReqs, Zenon DEF ControllerWrite, TeamInv
    <3> QED BY <3>5, <3>7, <3>8
  <2>2. CASE UNCHANGED <<team, req>>
    BY <2>2, SameTeam
  <2> QED BY <2>1, <2>2, Zenon DEF StartWrite
<1>3. CtlGood(ctl', team')
  BY IdleCtlGood, Zenon DEF StartWrite, Done
<1>4. FlagsGood' /\ sessions' = sessions
  BY Zenon DEF StartWrite, TeamInv, FlagsGood
<1> QED BY <1>2, <1>3, <1>4, Zenon DEF GoodStep, TeamInv

(* The phase is written. *)
LEMMA PhaseStep ==
  ASSUME TeamInv, NEW p \in Terminal, team' = [team EXCEPT !.phase = p]
  PROVE  TeamGood(team') /\ TeamStep(team, team')
<1>1. team \in AgentTeam /\ team.members \in Seq(MemberStatus) /\ Bounded(team.members)
  BY TeamFields DEF TeamInv, TeamGood
<1>2. p \in TeamPhases
  BY DEF TeamPhases, Terminal
<1>3. LET un == [team EXCEPT !.phase = p]
      IN un \in AgentTeam /\ un.members = team.members /\ un.phase = p
  BY <1>1, <1>2, PhaseWritten
<1>4. team' \in AgentTeam /\ team'.members = team.members /\ team'.phase = p
  BY <1>3, Zenon
<1> QED BY <1>1, <1>4, KeptReflexive DEF TeamGood, TeamStep

LEMMA StepTimeout ==
  ASSUME TeamInv, Timeout
  PROVE  GoodStep
<1>1. TeamGood(team') /\ TeamStep(team, team')
  <2>1. CASE Exists
    <3>1. team' = [team EXCEPT !.phase = "Failed"] /\ "Failed" \in Terminal
      BY <2>1, Zenon DEF Timeout, Terminal
    <3> QED BY <3>1, PhaseStep
  <2>2. CASE ~Exists
    <3>1. team' = team
      BY <2>2, Zenon DEF Timeout
    <3> QED BY <3>1, SameTeam
  <2> QED BY <2>1, <2>2
<1>2. ReqGood(req', team')
  BY OldReqs, Zenon DEF Timeout, TeamInv
<1>3. CtlGood(ctl', team')
  BY IdleCtlGood, Zenon DEF Timeout, Done
<1>4. FlagsGood' /\ sessions' = sessions
  BY Zenon DEF Timeout, TeamInv, FlagsGood
<1> QED BY <1>1, <1>2, <1>3, <1>4, Zenon DEF GoodStep, TeamInv

(* The controller goes on, outside its loops. *)
LEMMA CtlGoesGood ==
  ASSUME TeamInv, NEW p \in {"completed", "finalWrite", "cleanup", "unfinalize"},
         ctl' = [ctl EXCEPT !.pc = p], NEW tm
  PROVE  CtlGood(ctl', tm)
<1>1. ctl \in CtlType
  BY DEF TeamInv, CtlGood
<1>2. LET d == [ctl EXCEPT !.pc = p] IN d \in CtlType /\ d.pc = p
  BY <1>1, CtlGoes
<1>3. ctl' \in CtlType /\ ctl'.pc = p
  BY <1>2, Zenon
<1>4. ctl'.pc \notin {"start"} \cup Repairing
  BY <1>3 DEF Repairing
<1> QED BY <1>3, <1>4, CtlElsewhere

LEMMA StepCompleteTerminate ==
  ASSUME TeamInv, CompleteTerminate
  PROVE  GoodStep
<1>1. SessionsGood(sessions')
  <2>1. sessions \in Seq(SessionType) /\ Len(sessions) <= MaxSessions
    BY DEF TeamInv, SessionsGood
  <2>2. PICK told : sessions' = [x \in DOMAIN sessions |->
                       IF x \in told THEN [sessions[x] EXCEPT !.is = "told"] ELSE sessions[x]]
    BY Zenon DEF CompleteTerminate, terminateAllSessions
  <2>3. \A e \in SessionType : [e EXCEPT !.is = "told"] \in SessionType
    BY DEF SessionType
  <2>4. \A x \in DOMAIN sessions : sessions[x] \in SessionType
    BY <2>1
  <2>5. sessions' \in [DOMAIN sessions -> SessionType]
    BY <2>2, <2>3, <2>4, Zenon
  <2>6. DOMAIN sessions = 1..Len(sessions) /\ Len(sessions) \in Nat
    BY <2>1
  <2>7. sessions' \in [1..Len(sessions) -> SessionType]
    BY <2>5, <2>6
  <2>8. sessions' \in Seq(SessionType) /\ Len(sessions') = Len(sessions)
    BY <2>6, <2>7
  <2> QED BY <2>1, <2>8 DEF SessionsGood
<1>2. CtlGood(ctl', team)
  <2>1. PICK p \in {"completed", "finalWrite"} : ctl' = [ctl EXCEPT !.pc = p]
    BY Zenon DEF CompleteTerminate
  <2> QED BY <2>1, CtlGoesGood
<1>3. FlagsGood'
  BY Zenon DEF CompleteTerminate, TeamInv, FlagsGood
<1> QED BY <1>1, <1>2, <1>3, SameTeam, Zenon DEF CompleteTerminate, GoodStep, TeamInv

LEMMA StepCompleteWrite ==
  ASSUME TeamInv, CompleteWrite
  PROVE  GoodStep
<1>1. TeamGood(team') /\ TeamStep(team, team') /\ ReqGood(req', team')
  <2>1. CASE ControllerWrite([team EXCEPT !.phase = "Completed"])
    <3>1. team' = [team EXCEPT !.phase = "Completed"] /\ "Completed" \in Terminal
      BY <2>1, Zenon DEF ControllerWrite, Terminal
    <3>2. ReqGood(req', team')
      BY <2>1, OldReqs, Zenon DEF ControllerWrite, TeamInv
    <3> QED BY <3>1, <3>2, PhaseStep
  <2>2. CASE UNCHANGED <<team, req>>
    BY <2>2, SameTeam
  <2> QED BY <2>1, <2>2, Zenon DEF CompleteWrite
<1>2. CtlGood(ctl', team')
  <2>1. CASE ctl' = [ctl EXCEPT !.pc = "cleanup"]
    BY <2>1, CtlGoesGood
  <2>2. CASE ctl' = IdleCtl
    BY <2>2, IdleCtlGood, Zenon
  <2> QED BY <2>1, <2>2, Zenon DEF CompleteWrite
<1>3. FlagsGood' /\ sessions' = sessions
  BY Zenon DEF CompleteWrite, TeamInv, FlagsGood
<1> QED BY <1>1, <1>2, <1>3, Zenon DEF GoodStep, TeamInv

LEMMA StepCleanup ==
  ASSUME TeamInv, CleanupTeamState
  PROVE  GoodStep
<1>1. ctl' = [ctl EXCEPT !.pc = "unfinalize"]
  BY Zenon DEF CleanupTeamState
<1>2. CtlGood(ctl', team)
  BY <1>1, CtlGoesGood
<1>3. FlagsGood'
  BY Zenon DEF CleanupTeamState, TeamInv, FlagsGood
<1> QED BY <1>2, <1>3, SameTeam, Zenon DEF CleanupTeamState, GoodStep, TeamInv

LEMMA StepRemoveFinalizer ==
  ASSUME TeamInv, RemoveFinalizer
  PROVE  GoodStep
<1>1. TeamGood(team') /\ TeamStep(team, team') /\ ReqGood(req', team')
  <2>1. CASE ControllerWrite([team EXCEPT !.at = "gone", !.fin = FALSE])
    <3>1. PICK un \in AgentTeam : team' = un /\ un.members = team.members /\ un.phase = team.phase
      <4>1. LET un == [team EXCEPT !.at = "gone", !.fin = FALSE]
            IN un \in AgentTeam /\ un.members = team.members /\ un.phase = team.phase
        BY MetaWritten, Zenon DEF TeamInv, TeamGood
      <4> QED BY <2>1, <4>1, Zenon DEF ControllerWrite
    <3>2. ReqGood(req', team')
      BY <2>1, OldReqs, Zenon DEF ControllerWrite, TeamInv
    <3> QED BY <3>1, <3>2, SameMembersOfTeam
  <2>2. CASE UNCHANGED <<team, req>>
    BY <2>2, SameTeam
  <2> QED BY <2>1, <2>2, Zenon DEF RemoveFinalizer
<1>2. CtlGood(ctl', team')
  BY IdleCtlGood, Zenon DEF RemoveFinalizer, Done
<1>3. FlagsGood' /\ sessions' = sessions
  BY Zenon DEF RemoveFinalizer, TeamInv, FlagsGood
<1> QED BY <1>1, <1>2, <1>3, Zenon DEF GoodStep, TeamInv

LEMMA StepCrash ==
  ASSUME TeamInv, Crash
  PROVE  GoodStep
<1>1. CtlGood(ctl', team)
  BY IdleCtlGood, Zenon DEF Crash, Done
<1>2. writes' \in 0..MaxWrites
  BY TeamAssumption DEF Crash, OtherWrites, TeamInv, FlagsGood
<1>3. FlagsGood'
  BY <1>2, Zenon DEF Crash, TeamInv, FlagsGood
<1> QED BY <1>1, <1>3, SameTeam, Zenon DEF Crash, GoodStep, TeamInv

(* The loop goes on to the next member, with the copy it has. *)
LEMMA CtlNextGood ==
  ASSUME TeamInv, ctl.pc \in Repairing, NEW d \in CtlType, d.pc = "health",
         d.fresh = ctl.fresh, d.members = ctl.members, d.idx = ctl.idx + 1
  PROVE  CtlGood(d, team)
<1>1. ctl \in CtlType /\ CtlShape(ctl) /\ CtlCurrent(ctl, team)
  BY DEF TeamInv, CtlGood
<1>2. ctl.idx \in Nat
  BY <1>1, CtlFields
<1> QED BY <1>1, <1>2 DEF CtlGood, CtlShape, CtlCurrent, Repairing

LEMMA StepHealthPasses ==
  ASSUME TeamInv, HealthPasses
  PROVE  GoodStep
<1>1. ctl \in CtlType /\ ctl.pc = "health" /\ ctl.pc \in Repairing
  BY DEF HealthPasses, TeamInv, CtlGood, Repairing
<1>2. CtlGood(ctl', team)
  <2>1. CASE Done
    BY <2>1, IdleCtlGood, Zenon DEF Done
  <2>2. CASE ctl' = [ctl EXCEPT !.idx = ctl.idx + 1]
    <3>1. PICK i \in Nat : i = ctl.idx + 1
      BY <1>1, CtlFields
    <3>2. LET d == [ctl EXCEPT !.idx = i]
          IN d \in CtlType /\ d.pc = ctl.pc /\ d.fresh = ctl.fresh /\ d.members = ctl.members
             /\ d.idx = i
      BY <1>1, CtlAt
    <3>3. ctl' \in CtlType /\ ctl'.pc = "health" /\ ctl'.fresh = ctl.fresh
          /\ ctl'.members = ctl.members /\ ctl'.idx = ctl.idx + 1
      BY <1>1, <2>2, <3>1, <3>2, Zenon
    <3> QED BY <1>1, <3>3, CtlNextGood
  <2> QED BY <2>1, <2>2, Zenon DEF HealthPasses
<1>3. FlagsGood'
  BY Zenon DEF HealthPasses, TeamInv, FlagsGood
<1> QED BY <1>2, <1>3, SameTeam, Zenon DEF HealthPasses, GoodStep, TeamInv

(* A member of the copy was replaced by one that was not restarted less    *)
(* often: the copy still has all members of the team.                      *)
LEMMA RepairedGood ==
  ASSUME TeamInv, ctl.pc \in {"health", "spawn"}, ctl.idx <= Len(ctl.members),
         NEW f \in DOMAIN ctl.members, f = First(ctl.members, ctl.members[ctl.idx].name),
         NEW m \in MemberStatus, m.name = ctl.members[f].name,
         m.restarts >= ctl.members[f].restarts,
         NEW d \in CtlType, d.pc \in {"spawn", "write"}, d.pc = "spawn" => m.restarts < MaxRestarts,
         d.fresh = ctl.fresh, d.idx = ctl.idx, d.members = [ctl.members EXCEPT ![f] = m]
  PROVE  CtlGood(d, team)
<1>1. /\ ctl \in CtlType /\ CtlShape(ctl) /\ CtlCurrent(ctl, team)
      /\ ctl.members \in Seq(MemberStatus) /\ ctl.idx \in Nat /\ ctl.idx >= 1
      /\ team.members \in Seq(MemberStatus)
  BY TeamFields, CtlFields DEF TeamInv, TeamGood, CtlGood, CtlShape, Repairing
<1>2. /\ d.members \in Seq(MemberStatus) /\ Len(d.members) = Len(ctl.members)
      /\ d.members[f] = m /\ Kept(ctl.members, d.members)
      /\ \A j \in DOMAIN ctl.members : d.members[j].name = ctl.members[j].name
  BY <1>1, Replaced
<1>3. ctl.idx \in DOMAIN ctl.members
  BY <1>1
<1>4. First(d.members, d.members[d.idx].name) = f
  <2>1. d.members[d.idx].name = ctl.members[ctl.idx].name
    BY <1>2, <1>3
  <2>2. First(d.members, ctl.members[ctl.idx].name) = First(ctl.members, ctl.members[ctl.idx].name)
    <3>1. PICK ms \in Seq(MemberStatus) : ms = ctl.members
      BY <1>1
    <3>2. PICK ns \in Seq(MemberStatus) : ns = d.members
      BY <1>2
    <3>3. Len(ns) = Len(ms) /\ \A j \in DOMAIN ms : ns[j].name = ms[j].name
      BY <1>2, <3>1, <3>2
    <3>4. \A n : First(ns, n) = First(ms, n)
      BY <3>3, FirstByNames
    <3> QED BY <3>1, <3>2, <3>4, Zenon
  <2> QED BY <2>1, <2>2
<1>5. CtlShape(d)
  BY <1>1, <1>2, <1>4 DEF CtlShape, Repairing
<1>6. CtlCurrent(d, team)
  BY <1>1, <1>2, KeptTransitive DEF CtlCurrent, Repairing
<1> QED BY <1>5, <1>6 DEF CtlGood

LEMMA StepMemberFailure ==
  ASSUME TeamInv, HandleMemberFailure
  PROVE  GoodStep
<1> DEFINE f    == First(ctl.members, ctl.members[ctl.idx].name)
           auto == team.recovery = "Auto" /\ Restartable(ctl.members[f])
           lost == IF team.recovery # "None" /\ ~Restartable(ctl.members[f]) THEN "Failed" ELSE "Lost"
           q    == IF auto THEN "spawn" ELSE "write"
<1>1. /\ ctl \in CtlType /\ ctl.pc = "health" /\ ctl.idx <= Len(ctl.members)
      /\ ctl.members \in Seq(MemberStatus) /\ ctl.idx \in Nat /\ ctl.idx >= 1
  BY CtlFields DEF HandleMemberFailure, TeamInv, CtlGood, CtlShape, Repairing
<1>2. f \in DOMAIN ctl.members
  BY <1>1, FirstIsThere
<1>3. ctl' = [ctl EXCEPT !.members[f].phase = lost, !.pc = q]
  BY Zenon DEF HandleMemberFailure
<1>4. lost \in MemberPhases /\ q \in {"spawn", "write"}
  BY DEF MemberPhases
<1>5. q = "spawn" => ctl.members[f].restarts < MaxRestarts
  BY DEF Restartable
<1>0. f = First(ctl.members, ctl.members[ctl.idx].name)
  OBVIOUS
<1> HIDE DEF f, lost, q
<1>6. PICK k \in MemberStatus : k = ctl.members[f]
  BY <1>1, <1>2
<1>7. PICK m \in MemberStatus : /\ m = [k EXCEPT !.phase = lost]
                                /\ m.name = k.name /\ m.restarts = k.restarts
  BY <1>4, PhaseFields, Zenon
<1>8. m.name = k.name /\ m.restarts = k.restarts /\ m.restarts \in Nat
  BY <1>7, Restarts, Zenon
<1> DEFINE ms == [ctl.members EXCEPT ![f] = m]
<1>9. ms \in Seq(MemberStatus) /\ ms = [ctl.members EXCEPT ![f] = m]
  BY <1>1, <1>2
<1> HIDE DEF ms
<1>10. PICK d \in CtlType : /\ d = [ctl EXCEPT !.members = ms, !.pc = q]
                            /\ d.pc = q /\ d.fresh = ctl.fresh /\ d.members = ms /\ d.idx = ctl.idx
  <2>1. q \in {"idle", "start", "timeout", "complete", "completed", "health", "spawn",
               "write", "final", "finalWrite", "cleanup", "unfinalize"}
    BY <1>4
  <2>2. LET d == [ctl EXCEPT !.members = ms, !.pc = q]
        IN d \in CtlType /\ d.pc = q /\ d.fresh = ctl.fresh /\ d.members = ms /\ d.idx = ctl.idx
    BY <1>1, <1>9, <2>1, Zenon DEF CtlType
  <2> QED BY <2>2, Zenon
<1>11. ctl' = d
  <2>1. ctl' = [ctl EXCEPT !.members = [ctl.members EXCEPT ![f] = [ctl.members[f] EXCEPT !.phase = lost]],
                           !.pc = q]
    BY <1>3, Zenon
  <2>2. ctl' = [ctl EXCEPT !.members = [ctl.members EXCEPT ![f] = m], !.pc = q]
    BY <1>6, <1>7, <2>1, Zenon
  <2> QED BY <1>9, <1>10, <2>2, Zenon
<1>12. d.pc = q /\ d.fresh = ctl.fresh /\ d.members = ms /\ d.idx = ctl.idx
  BY <1>10, Zenon
<1>13. CtlGood(d, team)
  <2> HIDE DEF auto
  <2>1. m.name = ctl.members[f].name /\ m.restarts >= ctl.members[f].restarts
    BY <1>6, <1>8
  <2>2. d.pc = "spawn" => m.restarts < MaxRestarts
    BY <1>5, <1>6, <1>8, <1>12
  <2>3. d.members = [ctl.members EXCEPT ![f] = m]
    BY <1>9, <1>12
  <2> QED BY <1>1, <1>2, <1>4, <1>12, <2>1, <2>2, <2>3, <1>0, RepairedGood
<1>14. /\ team' = team /\ sessions' = sessions /\ req' = req
       /\ sum' = sum /\ late' = late /\ writes' = writes /\ decided' = decided
  BY Zenon DEF HandleMemberFailure
<1>15. FlagsGood'
  BY <1>14, Zenon DEF TeamInv, FlagsGood
<1> QED BY <1>11, <1>13, <1>14, <1>15, SameTeam, Zenon DEF GoodStep, TeamInv

(* Only a member that may be restarted is, and once per spawn.             *)
LEMMA StepRecoverySpawn ==
  ASSUME TeamInv, RecoverySpawn
  PROVE  GoodStep
<1> DEFINE f == First(ctl.members, ctl.members[ctl.idx].name)
<1>1. /\ ctl \in CtlType /\ ctl.pc = "spawn" /\ ctl.pc \in Repairing /\ ctl.idx <= Len(ctl.members)
      /\ ctl.members \in Seq(MemberStatus) /\ ctl.idx \in Nat /\ ctl.idx >= 1
      /\ ctl.members[f].restarts < MaxRestarts
  BY CtlFields DEF RecoverySpawn, TeamInv, CtlGood, CtlShape, Repairing
<1>2. f \in DOMAIN ctl.members
  BY <1>1, FirstIsThere
<1>3. f = First(ctl.members, ctl.members[ctl.idx].name)
  OBVIOUS
<1>4. \/ /\ createSession(ctl.members[f].name)
         /\ ctl' = [ctl EXCEPT !.members[f] = [ctl.members[f] EXCEPT !.session = Len(sessions) + 1,
                                               !.phase = "Working", !.restarts = ctl.members[f].restarts + 1],
                               !.pc = "write"]
      \/ UNCHANGED sessions /\ ctl' = [ctl EXCEPT !.pc = "health", !.idx = @ + 1]
  BY Zenon DEF RecoverySpawn, Restarted
<1> HIDE DEF f
<1>5. CASE UNCHANGED sessions /\ ctl' = [ctl EXCEPT !.pc = "health", !.idx = @ + 1]
  <2>1. ctl' \in CtlType /\ ctl'.pc = "health" /\ ctl'.fresh = ctl.fresh
        /\ ctl'.members = ctl.members /\ ctl'.idx = ctl.idx + 1
    BY <1>1, <1>5, CtlNext, Zenon
  <2>2. CtlGood(ctl', team)
    BY <1>1, <2>1, CtlNextGood
  <2>3. FlagsGood' /\ team' = team /\ req' = req
    BY Zenon DEF RecoverySpawn, TeamInv, FlagsGood
  <2> QED BY <1>5, <2>2, <2>3, SameTeam, Zenon DEF GoodStep, TeamInv
<1>6. CASE /\ createSession(ctl.members[f].name)
           /\ ctl' = [ctl EXCEPT !.members[f] = [ctl.members[f] EXCEPT !.session = Len(sessions) + 1,
                                                 !.phase = "Working", !.restarts = ctl.members[f].restarts + 1],
                                 !.pc = "write"]
  <2>1. PICK k \in MemberStatus : k = ctl.members[f]
    BY <1>1, <1>2
  <2>2. SessionsGood(sessions') /\ Len(sessions) + 1 \in 0..MaxSessions
    <3>1. k.name \in Members \cup {None}
      BY DEF MemberStatus
    <3>2. createSession(k.name)
      BY <1>6, <2>1, Zenon
    <3> QED BY <3>1, <3>2, SessionCreated, TeamAssumption DEF TeamInv
  <2>3. k.restarts \in Nat /\ k.restarts < MaxRestarts /\ k.restarts + 1 \in 0..MaxRestarts
    BY <1>1, <2>1, Restarts, TeamAssumption
  <2>4. PICK x \in 0..MaxSessions, y \in 0..MaxRestarts : x = Len(sessions) + 1 /\ y = k.restarts + 1
    BY <2>2, <2>3
  <2>5. PICK m \in MemberStatus :
           /\ m = [k EXCEPT !.session = x, !.phase = "Working", !.restarts = y]
           /\ m.name = k.name /\ m.restarts = y
    <3>1. "Working" \in MemberPhases
      BY DEF MemberPhases
    <3>2. LET m == [k EXCEPT !.session = x, !.phase = "Working", !.restarts = y]
          IN m \in MemberStatus /\ m.name = k.name /\ m.restarts = y
      BY <3>1, Zenon DEF MemberStatus
    <3> QED BY <3>2, Zenon
  <2> DEFINE ms == [ctl.members EXCEPT ![f] = m]
  <2>6. ms \in Seq(MemberStatus) /\ ms = [ctl.members EXCEPT ![f] = m]
    BY <1>1, <1>2
  <2> HIDE DEF ms
  <2>7. PICK d \in CtlType : /\ d = [ctl EXCEPT !.members = ms, !.pc = "write"]
                             /\ d.pc = "write" /\ d.fresh = ctl.fresh
                             /\ d.members = ms /\ d.idx = ctl.idx
    <3>1. LET d == [ctl EXCEPT !.members = ms, !.pc = "write"]
          IN d \in CtlType /\ d.pc = "write" /\ d.fresh = ctl.fresh /\ d.members = ms /\ d.idx = ctl.idx
      BY <1>1, <2>6, Zenon DEF CtlType
    <3> QED BY <3>1, Zenon
  <2>8. ctl' = d
    <3>1. ctl' = [ctl EXCEPT !.members =
                    [ctl.members EXCEPT ![f] = [ctl.members[f] EXCEPT !.session = Len(sessions) + 1,
                                                  !.phase = "Working", !.restarts = ctl.members[f].restarts + 1]],
                             !.pc = "write"]
      BY <1>6, Zenon
    <3>2. [k EXCEPT !.session = x, !.phase = "Working", !.restarts = k.restarts + 1] = m
      BY <2>4, <2>5, Zenon
    <3>3. ctl' = [ctl EXCEPT !.members = [ctl.members EXCEPT ![f] = m], !.pc = "write"]
      BY <2>1, <2>4, <3>1, <3>2, Zenon
    <3> QED BY <2>6, <2>7, <3>3, Zenon
  <2>9. d.pc = "write" /\ d.fresh = ctl.fresh /\ d.members = ms /\ d.idx = ctl.idx
    BY <2>7, Zenon
  <2>10. m.name = ctl.members[f].name /\ m.restarts >= ctl.members[f].restarts
    <3>1. m.name = k.name /\ m.restarts = y
      BY <2>5, Zenon
    <3> QED BY <2>1, <2>3, <2>4, <3>1
  <2>11. CtlGood(d, team)
    <3>1. d.members = [ctl.members EXCEPT ![f] = m]
      BY <2>6, <2>9
    <3> QED BY <1>1, <1>2, <1>3, <2>9, <2>10, <3>1, RepairedGood
  <2>12. FlagsGood' /\ team' = team /\ req' = req
    BY Zenon DEF RecoverySpawn, TeamInv, FlagsGood
  <2> QED BY <2>2, <2>8, <2>11, <2>12, SameTeam, Zenon DEF GoodStep, TeamInv
<1> QED BY <1>4, <1>5, <1>6

(* The members of a copy that is current replace those of the team.        *)
LEMMA StepRecoveryWrite ==
  ASSUME TeamInv, RecoveryWrite
  PROVE  GoodStep
<1>1. /\ team \in AgentTeam /\ team.members \in Seq(MemberStatus) /\ Bounded(team.members)
      /\ ctl \in CtlType /\ ctl.pc = "write" /\ ctl.pc \in Repairing
      /\ ctl.members \in Seq(MemberStatus)
      /\ CtlShape(ctl) /\ CtlCurrent(ctl, team)
  BY TeamFields, CtlFields DEF RecoveryWrite, TeamInv, TeamGood, CtlGood, Repairing
<1>2. PICK d \in CtlType : /\ ctl' = d /\ d.pc = "health" /\ d.fresh = ctl.fresh
                           /\ d.members = ctl.members /\ d.idx = ctl.idx + 1
  <2>1. ctl' = [ctl EXCEPT !.pc = "health", !.idx = @ + 1]
    BY Zenon DEF RecoveryWrite
  <2>2. LET d == [ctl EXCEPT !.pc = "health", !.idx = @ + 1]
        IN /\ d \in CtlType /\ d.pc = "health" /\ d.fresh = ctl.fresh
           /\ d.members = ctl.members /\ d.idx = ctl.idx + 1
    BY <1>1, CtlNext
  <2> QED BY <2>1, <2>2, Zenon
<1>3. CtlGood(d, team)
  BY <1>1, <1>2, CtlNextGood
<1>4. TeamGood(team') /\ TeamStep(team, team') /\ CtlGood(d, team') /\ ReqGood(req', team')
  <2>1. CASE ControllerWrite([team EXCEPT !.members = ctl.members])
    <3>1. PICK un \in AgentTeam : team' = un /\ un.members = ctl.members /\ un.phase = team.phase
      <4>1. LET un == [team EXCEPT !.members = ctl.members]
            IN un \in AgentTeam /\ un.members = ctl.members /\ un.phase = team.phase
        BY <1>1, MembersWritten
      <4> QED BY <2>1, <4>1, Zenon DEF ControllerWrite
    <3>2. Kept(team.members, ctl.members) /\ Len(ctl.members) = Len(team.members)
      BY <1>1, <2>1 DEF ControllerWrite, CtlCurrent
    <3>3. TeamGood(team') /\ TeamStep(team, team')
      BY <1>1, <3>1, <3>2 DEF TeamGood, TeamStep, Bounded
    <3>4. CtlGood(d, team')
      BY <1>1, <1>2, <1>3, <3>1, KeptReflexive DEF CtlGood, CtlCurrent
    <3>5. ReqGood(req', team')
      BY <2>1, OldReqs, Zenon DEF ControllerWrite, TeamInv
    <3> QED BY <3>3, <3>4, <3>5
  <2>2. CASE UNCHANGED <<team, req>>
    BY <1>3, <2>2, SameTeam
  <2> QED BY <2>1, <2>2, Zenon DEF RecoveryWrite
<1>5. FlagsGood' /\ sessions' = sessions
  BY Zenon DEF RecoveryWrite, TeamInv, FlagsGood
<1> QED BY <1>2, <1>4, <1>5, Zenon DEF GoodStep, TeamInv

-----------------------------------------------------------------------------
(* The invariant.                                                          *)

LEMMA TeamInvInit ==
  ASSUME Init
  PROVE  TeamInv
<1>1. TeamGood(team)
  <2>1. ZeroSummary \in Summary /\ "Pending" \in TeamPhases /\ <<>> \in Seq(MemberStatus)
    BY DEF ZeroSummary, Summary, TeamPhases
  <2>2. team \in AgentTeam /\ team.members = <<>>
    BY <2>1, Zenon DEF Init, AgentTeam
  <2> QED BY <2>2, TeamAssumption DEF TeamGood, Bounded
<1>2. SessionsGood(sessions)
  BY TeamAssumption DEF Init, SessionsGood
<1>3. CtlGood(ctl, team)
  BY IdleCtlGood, Zenon DEF Init
<1>4. ReqGood(req, team)
  <2>1. req = [h \in Handlers |-> IdleReq] /\ IdleReq \in ReqType /\ ReqCurrent(IdleReq, team)
    BY IdleReqGood DEF Init
  <2>2. req \in [Handlers -> ReqType]
    BY <2>1, Zenon
  <2>3. \A h \in Handlers : ReqCurrent(req[h], team)
    BY <2>1, Zenon
  <2> QED BY <2>2, <2>3 DEF ReqGood
<1>5. FlagsGood
  <2>1. sum \in [Sinks -> Summary \cup {None}]
    BY Zenon DEF Init
  <2>2. late \in BOOLEAN /\ decided \in BOOLEAN
    BY Zenon DEF Init
  <2>3. writes \in 0..MaxWrites
    BY TeamAssumption DEF Init
  <2> QED BY <2>1, <2>2, <2>3, Zenon DEF FlagsGood
<1> QED BY <1>1, <1>2, <1>3, <1>4, <1>5 DEF TeamInv

LEMMA TeamInvNext ==
  ASSUME TeamInv, [Next]_vars
  PROVE  GoodStep
<1>1. ASSUME NEW h \in Handlers, NEW n \in Dynamic, addTeamMember(h, n) PROVE GoodStep
  <2>1. n \in Members /\ HasRoom /\ Ask(h, "add", n)
    BY <1>1, TeamAssumption DEF addTeamMember
  <2> QED BY <2>1, StepAsk
<1>2. ASSUME NEW h \in Handlers, NEW n \in Members, removeTeamMember(h, n) PROVE GoodStep
  <2>1. Ask(h, "remove", n)
    BY <1>2 DEF removeTeamMember
  <2> QED BY <2>1, StepAsk
<1>3. ASSUME NEW h \in Handlers,
             MemberWrite(h) \/ deleteTeam(h) \/ DeleteWrite(h) \/ RequestFails(h)
      PROVE  GoodStep
  BY <1>3, StepMemberWrite, StepDeleteTeam, StepDeleteWrite, StepRequestFails
<1>4. ASSUME NEW t \in Tasks, createTeamTask(t) \/ completeTeamTask(t) PROVE GoodStep
  BY <1>4, StepCreateTask, StepTasks, Zenon DEF completeTeamTask
<1>5. ASSUME NEW t \in Tasks, NEW m \in Members \cup {None}, claimTeamTask(t, m) PROVE GoodStep
  BY <1>5, StepTasks, Zenon DEF claimTeamTask
<1>6. ASSUME NEW n \in Members, NEW p \in {"Working", "Idle", "Lost"}, updateMemberPhase(n, p)
      PROVE  GoodStep
  BY <1>6, StepMemberPhase
<1>7. ASSUME NEW k \in Sinks, updateTaskSummary(k) \/ SummaryWrite(k) PROVE GoodStep
  BY <1>7, StepTaskSummary, StepSummaryWrite
<1>8. CASE createTeam \/ handleCompleteTeam \/ handleTerminal \/ Crash \/ TimePasses
  BY <1>8, StepCreateTeam, StepLeadDecides, StepTerminal, StepCrash, StepTimePasses
<1>9. CASE Controller
  BY <1>9, StepReconcile, StepAddFinalizer, StepStartSpawn, StepStartWrite, StepTimeout,
     StepCompleteTerminate, StepCompleteWrite, StepCleanup, StepRemoveFinalizer,
     StepHealthPasses, StepMemberFailure, StepRecoverySpawn, StepRecoveryWrite DEF Controller
<1>10. ASSUME NEW x \in 1..MaxSessions, SessionEnds(x) PROVE GoodStep
  BY <1>10, StepSessionEnds
<1>11. CASE UNCHANGED vars
  <2>1. UNCHANGED teamVars
    BY <1>11, Zenon DEF vars
  <2>2. /\ team' = team /\ sessions' = sessions /\ ctl' = ctl /\ req' = req
        /\ sum' = sum /\ late' = late /\ writes' = writes /\ decided' = decided
    BY <2>1 DEF teamVars
  <2>3. FlagsGood'
    BY <2>1, <2>2, Zenon DEF TeamInv, FlagsGood
  <2> QED BY <2>2, <2>3, SameTeam, Zenon DEF GoodStep, TeamInv
<1> QED BY <1>1, <1>2, <1>3, <1>4, <1>5, <1>6, <1>7, <1>8, <1>9, <1>10, <1>11, Zenon DEF Next

THEOREM TeamInvAlways == Spec => []TeamInv
<1>1. TeamInv /\ [Next]_vars => TeamInv'
  BY TeamInvNext DEF GoodStep
<1> QED BY <1>1, TeamInvInit, PTL DEF Spec

(* Every variable has its type, for any number of members, tasks and       *)
(* requests: checkMemberHealth and reschedMember never restart a member    *)
(* more often than maxRestarts, crash or conflict between the writes.      *)
THEOREM TeamTypeCorrect == Spec => []TypeOK
<1>1. TeamInv => TypeOK
  BY DEF TeamInv, TeamGood, SessionsGood, CtlGood, ReqGood, FlagsGood, TypeOK, SessionType, ReqType, CtlType
<1> QED BY <1>1, TeamInvAlways, PTL

(* addTeamMember asks for room before it writes, and concurrent requests   *)
(* cannot fill the same place twice, whatever the limit.                   *)
THEOREM MembersStayBounded == Spec => []MembersBounded
<1>1. TeamInv => MembersBounded
  BY DEF TeamInv, TeamGood, Bounded, MembersBounded
<1> QED BY <1>1, TeamInvAlways, PTL

(* No start, recovery, completion or event that was under way when a team  *)
(* ended brings it back.                                                   *)
THEOREM EndIsFinal == Spec => OverIsOver
<1>1. TeamInv /\ [Next]_vars =>
        [Exists /\ team.phase \in Terminal => team'.phase \in Terminal]_vars
  BY TeamInvNext, Zenon DEF GoodStep, TeamStep, Exists
<1> QED BY <1>1, TeamInvAlways, PTL DEF Spec, OverIsOver

(* A status that the controller, a request or an event writes has all the  *)
(* members and restarts that any other has written before.                 *)
THEOREM NobodyIsLost == Spec => MembersKept
<1> DEFINE K == Started =>
                  /\ Len(team'.members) >= Len(team.members)
                  /\ \A i \in DOMAIN team.members :
                        /\ team'.members[i].name = team.members[i].name
                        /\ team'.members[i].restarts >= team.members[i].restarts
<1>1. TeamInv /\ [Next]_vars => [K]_vars
  BY TeamInvNext, Zenon DEF GoodStep, TeamStep, Exists, Started, Kept
<1> QED BY <1>1, TeamInvAlways, PTL DEF Spec, MembersKept

-----------------------------------------------------------------------------
(* Whose sessions the members have.                                        *)

(* Every session that is recorded was spawned for the member that has it,  *)
(* and for nobody else.                                                    *)
Theirs(ms, ss) ==
    /\ \A i \in DOMAIN ms : ms[i].session # 0 =>
          ms[i].session \in DOMAIN ss /\ ss[ms[i].session].role = ms[i].name
    /\ \A i, j \in DOMAIN ms : ms[i].session = ms[j].session /\ ms[i].session # 0 => i = j

(* Sessions are spawned and end, and none is forgotten or reassigned. *)
Grown(ss, tt) ==
    \A x \in DOMAIN ss : x \in DOMAIN tt /\ tt[x].role = ss[x].role

(* So it is in the team's status and in the controller's copy of it, which *)
(* it may yet write.                                                       *)
TheirsInv == Theirs(team.members, sessions) /\ Theirs(ctl.members, sessions)

LEMMA TheirsGrown ==
  ASSUME NEW ms, NEW ss, NEW tt, Theirs(ms, ss), Grown(ss, tt)
  PROVE  Theirs(ms, tt)
BY Zenon DEF Theirs, Grown

LEMMA NobodysSessions ==
  ASSUME NEW ss
  PROVE  Theirs(<<>>, ss)
BY DEF Theirs

LEMMA GrownReflexive ==
  ASSUME NEW ss
  PROVE  Grown(ss, ss)
BY DEF Grown

(* Whoever's names and sessions stay. *)
LEMMA TheirsSame ==
  ASSUME NEW ms \in Seq(MemberStatus), NEW ns \in Seq(MemberStatus), NEW ss, Theirs(ms, ss),
         Len(ns) = Len(ms),
         \A i \in DOMAIN ms : ns[i].name = ms[i].name /\ ns[i].session = ms[i].session
  PROVE  Theirs(ns, ss)
<1>1. DOMAIN ns = DOMAIN ms
  OBVIOUS
<1> QED BY <1>1, Zenon DEF Theirs

(* A phase is set, a member is replaced with its session. *)
LEMMA TheirsReplaced ==
  ASSUME NEW ms \in Seq(MemberStatus), NEW k \in DOMAIN ms, NEW m \in MemberStatus, NEW ss,
         Theirs(ms, ss), m.name = ms[k].name, m.session = ms[k].session
  PROVE  Theirs([ms EXCEPT ![k] = m], ss)
<1> DEFINE ns == [ms EXCEPT ![k] = m]
<1>1. ns \in Seq(MemberStatus) /\ Len(ns) = Len(ms)
  OBVIOUS
<1>2. \A j \in DOMAIN ms : ns[j] = IF j = k THEN m ELSE ms[j]
  OBVIOUS
<1> HIDE DEF ns
<1>3. \A j \in DOMAIN ms : ns[j].name = ms[j].name /\ ns[j].session = ms[j].session
  BY <1>2, Zenon
<1>4. Theirs(ns, ss)
  BY <1>1, <1>3, TheirsSame
<1> QED BY <1>4 DEF ns

LEMMA TheirsPhased ==
  ASSUME NEW ms \in Seq(MemberStatus), NEW n, NEW p \in MemberPhases, NEW ss, Theirs(ms, ss)
  PROVE  Theirs(WithPhase(ms, n, p), ss)
<1>1. CASE Named(ms, n) = {}
  BY <1>1 DEF WithPhase
<1>2. CASE Named(ms, n) # {}
  <2>1. PICK k \in DOMAIN ms : ms[k].name = n
    BY <1>2 DEF Named
  <2>2. PICK f \in DOMAIN ms : f = First(ms, n)
    BY <2>1, FirstIsThere
  <2>3. ms[f] \in MemberStatus
    OBVIOUS
  <2>4. PICK m \in MemberStatus : /\ m = [ms[f] EXCEPT !.phase = p]
                                  /\ m.name = ms[f].name /\ m.session = ms[f].session
    BY <2>3, PhaseFields, Zenon
  <2>5. WithPhase(ms, n, p) = [ms EXCEPT ![f] = m]
    <3>1. WithPhase(ms, n, p) = [ms EXCEPT ![First(ms, n)].phase = p]
      BY <1>2, Zenon DEF WithPhase
    <3>2. WithPhase(ms, n, p) = [ms EXCEPT ![f] = [ms[f] EXCEPT !.phase = p]]
      BY <2>2, <3>1, Zenon
    <3>3. [ms[f] EXCEPT !.phase = p] = m
      BY <2>4, Zenon
    <3> QED BY <3>2, <3>3, Zenon
  <2>6. m.name = ms[f].name /\ m.session = ms[f].session
    BY <2>4, Zenon
  <2>7. Theirs([ms EXCEPT ![f] = m], ss)
    BY <2>6, TheirsReplaced
  <2> QED BY <2>5, <2>7, Zenon
<1> QED BY <1>1, <1>2

(* A member without a session joins. *)
LEMMA TheirsJoined ==
  ASSUME NEW ms \in Seq(MemberStatus), NEW m \in MemberStatus, NEW ss, Theirs(ms, ss), m.session = 0
  PROVE  Theirs(Append(ms, m), ss)
<1> DEFINE ns == Append(ms, m)
           k == Len(ms) + 1
<1>1. DOMAIN ns = DOMAIN ms \cup {k} /\ k \notin DOMAIN ms
  OBVIOUS
<1>2. ns[k] = m /\ \A j \in DOMAIN ms : ns[j] = ms[j]
  OBVIOUS
<1> HIDE DEF ns, k
<1>3. \A i \in DOMAIN ns : ns[i].session # 0 => i \in DOMAIN ms /\ ns[i] = ms[i]
  BY <1>1, <1>2, Zenon
<1>4. Theirs(ns, ss)
  BY <1>3, Zenon DEF Theirs
<1> QED BY <1>4 DEF ns

(* A session that was just spawned is nobody's before it is recorded. *)
LEMMA TheirsSpawned ==
  ASSUME NEW ms, NEW ns, NEW k, NEW ss \in Seq(SessionType), NEW tt \in Seq(SessionType),
         Theirs(ms, ss), Grown(ss, tt),
         Len(tt) = Len(ss) + 1, ns[k].session = Len(ss) + 1, tt[Len(ss) + 1].role = ns[k].name,
         DOMAIN ns \subseteq DOMAIN ms \cup {k},
         \A j \in DOMAIN ns : j # k => ns[j] = ms[j]
  PROVE  Theirs(ns, tt)
<1> DEFINE x == Len(ss) + 1
<1>1. x \in DOMAIN tt /\ x \notin DOMAIN ss
  OBVIOUS
<1>2. ns[k].session = x /\ tt[x].role = ns[k].name
  OBVIOUS
<1> HIDE DEF x
<1>3. \A j \in DOMAIN ns : j # k => j \in DOMAIN ms /\ ns[j] = ms[j]
  OBVIOUS
<1>4. \A j \in DOMAIN ms : ms[j].session # 0 => ms[j].session # x
  BY <1>1, Zenon DEF Theirs
<1>5. ASSUME NEW i \in DOMAIN ns, ns[i].session # 0
      PROVE  ns[i].session \in DOMAIN tt /\ tt[ns[i].session].role = ns[i].name
  <2>1. CASE i = k
    BY <1>1, <1>2, <2>1, Zenon
  <2>2. CASE i # k
    <3>1. i \in DOMAIN ms /\ ns[i] = ms[i]
      BY <1>3, <2>2
    <3>2. ms[i].session \in DOMAIN ss /\ ss[ms[i].session].role = ms[i].name
      BY <1>5, <3>1, Zenon DEF Theirs
    <3> QED BY <3>1, <3>2, Zenon DEF Grown
  <2> QED BY <2>1, <2>2
<1>6. ASSUME NEW i \in DOMAIN ns, NEW j \in DOMAIN ns, ns[i].session = ns[j].session, ns[i].session # 0
      PROVE  i = j
  <2>1. CASE i = k /\ j # k
    <3>1. j \in DOMAIN ms /\ ms[j].session = x /\ ms[j].session # 0
      BY <1>2, <1>3, <1>6, <2>1, Zenon
    <3> QED BY <1>4, <3>1, Zenon
  <2>2. CASE i # k /\ j = k
    <3>1. i \in DOMAIN ms /\ ms[i].session = x /\ ms[i].session # 0
      BY <1>2, <1>3, <1>6, <2>2, Zenon
    <3> QED BY <1>4, <3>1, Zenon
  <2>3. CASE i # k /\ j # k
    <3>1. i \in DOMAIN ms /\ j \in DOMAIN ms /\ ms[i].session = ms[j].session /\ ms[i].session # 0
      BY <1>3, <1>6, <2>3, Zenon
    <3> QED BY <3>1, Zenon DEF Theirs
  <2> QED BY <2>1, <2>2, <2>3
<1> QED BY <1>5, <1>6, Zenon DEF Theirs

(* Members are copied between the status and the controller, or dropped    *)
(* from its copy.                                                          *)
Copies ==
    /\ Grown(sessions, sessions')
    /\ team'.members \in {team.members, ctl.members}
    /\ ctl'.members \in {ctl.members, team.members, <<>>}

LEMMA TheirsCopied ==
  ASSUME TheirsInv, Copies
  PROVE  TheirsInv'
<1>1. Theirs(team.members, sessions') /\ Theirs(ctl.members, sessions') /\ Theirs(<<>>, sessions')
  BY TheirsGrown, NobodysSessions, Zenon DEF TheirsInv, Copies
<1> QED BY <1>1, Zenon DEF TheirsInv, Copies

LEMMA Types ==
  ASSUME TeamInv
  PROVE  /\ team \in AgentTeam /\ team.members \in Seq(MemberStatus)
         /\ ctl \in CtlType /\ ctl.members \in Seq(MemberStatus) /\ ctl.idx \in Nat
         /\ sessions \in Seq(SessionType) /\ Len(sessions) <= MaxSessions
         /\ req \in [Handlers -> ReqType]
BY TeamFields, CtlFields DEF TeamInv, TeamGood, CtlGood, SessionsGood, ReqGood

LEMMA CopiesSame ==
  ASSUME sessions' = sessions, team'.members = team.members, ctl'.members = ctl.members
  PROVE  Copies
BY GrownReflexive DEF Copies

LEMMA CtlMembers ==
  ASSUME NEW c \in CtlType, NEW p, NEW i
  PROVE  /\ [c EXCEPT !.fresh = FALSE].members = c.members
         /\ [c EXCEPT !.pc = p].members = c.members
         /\ [c EXCEPT !.idx = i].members = c.members
BY DEF CtlType

(* The object changes, and not its members. *)
LEMMA CopiesObject ==
  ASSUME TeamInv,
         createTeam \/ AddFinalizer \/ handleTerminal \/ handleCompleteTeam \/ Timeout
         \/ (\E h \in Handlers : DeleteWrite(h)) \/ (\E k \in Sinks : SummaryWrite(k))
  PROVE  Copies
<1>1. team \in AgentTeam /\ ctl \in CtlType
  BY Types
<1>2. OutdateController => ctl'.members = ctl.members
  BY <1>1, CtlMembers, Zenon DEF OutdateController
<1>3. CASE createTeam
  BY <1>1, <1>3, AtWritten, CopiesSame, Zenon DEF createTeam
<1>4. CASE AddFinalizer
  BY <1>1, <1>4, FinWritten, CopiesSame, Zenon DEF AddFinalizer
<1>5. CASE handleTerminal
  BY <1>1, <1>5, DeletedFields, CopiesSame, Zenon DEF handleTerminal
<1>6. CASE handleCompleteTeam
  BY <1>1, <1>2, <1>6, PhaseWritten, CopiesSame, Zenon DEF handleCompleteTeam, OtherWrite, TeamPhases
<1>7. CASE Timeout
  <2>1. team'.members = team.members
    BY <1>1, <1>7, PhaseWritten, Zenon DEF Timeout, TeamPhases
  <2>2. ctl' = IdleCtl /\ sessions' = sessions
    BY <1>7, Zenon DEF Timeout, Done
  <2>3. ctl'.members = <<>>
    BY <2>2 DEF IdleCtl
  <2> QED BY <2>1, <2>2, <2>3, GrownReflexive DEF Copies
<1>8. ASSUME NEW h \in Handlers, DeleteWrite(h) PROVE Copies
  BY <1>1, <1>2, <1>8, DeletedFields, CopiesSame, Zenon DEF DeleteWrite
<1>9. ASSUME NEW k \in Sinks, SummaryWrite(k) PROVE Copies
  <2>1. sum[k] \in Summary
    BY <1>9 DEF SummaryWrite, TeamInv, FlagsGood
  <2> QED BY <1>1, <1>2, <1>9, <2>1, TasksWritten, CopiesSame, Zenon DEF SummaryWrite
<1> QED BY <1>3, <1>4, <1>5, <1>6, <1>7, <1>8, <1>9

LEMMA IdleHasNoMembers == IdleCtl.members = <<>>
BY DEF IdleCtl

(* The controller reads the status, goes on or gives up, or writes what is *)
(* not about members.                                                      *)
LEMMA CopiesController ==
  ASSUME TeamInv,
         Reconcile \/ Crash \/ CompleteWrite \/ CleanupTeamState \/ RemoveFinalizer \/ HealthPasses
  PROVE  Copies
<1>1. team \in AgentTeam /\ ctl \in CtlType
  BY Types
<1>2. Done => ctl'.members = <<>>
  BY IdleHasNoMembers, Zenon DEF Done
<1>3. sessions' = sessions
  BY Zenon DEF Reconcile, Crash, CompleteWrite, CleanupTeamState, RemoveFinalizer, HealthPasses
<1>4. Grown(sessions, sessions')
  BY <1>3, GrownReflexive
<1>5. CASE Reconcile
  <2>1. ASSUME NEW p, NEW ms, NEW i, Turn(p, ms, i) PROVE ctl'.members = ms
    BY <2>1 DEF Turn
  <2>2. ctl'.members \in {<<>>, team.members}
    BY <1>5, <2>1, Zenon DEF Reconcile, handlePending, handleRunning
  <2> QED BY <1>4, <1>5, <2>2, Zenon DEF Reconcile, Copies
<1>6. CASE Crash
  BY <1>2, <1>4, <1>6, Zenon DEF Crash, Copies
<1>7. CASE CompleteWrite
  <2>1. team'.members = team.members
    <3>1. "Completed" \in TeamPhases
      BY DEF TeamPhases
    <3>2. [team EXCEPT !.phase = "Completed"].members = team.members
      BY <1>1, <3>1, PhaseWritten, Zenon
    <3>3. team' \in {team, [team EXCEPT !.phase = "Completed"]}
      BY <1>7, Zenon DEF CompleteWrite, ControllerWrite
    <3> QED BY <3>2, <3>3, Zenon
  <2>2. ctl'.members \in {ctl.members, <<>>}
    <3>1. ctl' \in {[ctl EXCEPT !.pc = "cleanup"], IdleCtl}
      BY <1>7, Zenon DEF CompleteWrite
    <3>2. [ctl EXCEPT !.pc = "cleanup"].members = ctl.members
      BY <1>1, CtlMembers
    <3> QED BY <3>1, <3>2, IdleHasNoMembers, Zenon
  <2> QED BY <1>4, <2>1, <2>2, Zenon DEF Copies
<1>8. CASE CleanupTeamState
  <2>1. [ctl EXCEPT !.pc = "unfinalize"].members = ctl.members
    BY <1>1, CtlMembers
  <2> QED BY <1>4, <1>8, <2>1, Zenon DEF CleanupTeamState, Copies
<1>9. CASE RemoveFinalizer
  <2>1. team'.members = team.members
    <3>2. [team EXCEPT !.at = "gone", !.fin = FALSE].members = team.members
      BY <1>1, Zenon DEF AgentTeam
    <3>3. team' \in {team, [team EXCEPT !.at = "gone", !.fin = FALSE]}
      BY <1>9, Zenon DEF RemoveFinalizer, ControllerWrite
    <3> QED BY <3>2, <3>3, Zenon
  <2> QED BY <1>2, <1>4, <1>9, <2>1, Zenon DEF RemoveFinalizer, Copies
<1>10. CASE HealthPasses
  <2>1. ctl'.members \in {ctl.members, <<>>}
    <3>1. Done \/ ctl' = [ctl EXCEPT !.idx = ctl.idx + 1]
      BY <1>10 DEF HealthPasses
    <3>2. [ctl EXCEPT !.idx = ctl.idx + 1].members = ctl.members
      BY <1>1, CtlMembers
    <3> QED BY <1>2, <3>1, <3>2, Zenon
  <2> QED BY <1>4, <1>10, <2>1, Zenon DEF HealthPasses, Copies
<1> QED BY <1>5, <1>6, <1>7, <1>8, <1>9, <1>10

(* A copy is written, with whatever was spawned since it was read. *)
LEMMA CopiesWrite ==
  ASSUME TeamInv, StartWrite \/ RecoveryWrite
  PROVE  Copies
<1>1. team \in AgentTeam /\ ctl \in CtlType /\ ctl.members \in Seq(MemberStatus)
  BY Types
<1>2. sessions' = sessions
  BY Zenon DEF StartWrite, RecoveryWrite
<1>3. Grown(sessions, sessions')
  BY <1>2, GrownReflexive
<1>4. CASE StartWrite
  <2>1. ZeroSummary \in Summary /\ "Running" \in TeamPhases
    BY DEF ZeroSummary, Summary, TeamPhases
  <2>2. [team EXCEPT !.phase = "Running", !.members = ctl.members,
                     !.tasks = ZeroSummary].members = ctl.members
    BY <1>1, Zenon DEF AgentTeam
  <2>3. team'.members \in {team.members, ctl.members}
    BY <1>4, <2>2, Zenon DEF StartWrite, ControllerWrite
  <2>4. ctl'.members = <<>>
    BY <1>4, IdleHasNoMembers, Zenon DEF StartWrite, Done
  <2> QED BY <1>3, <2>3, <2>4, Zenon DEF Copies
<1>5. CASE RecoveryWrite
  <2>1. team'.members \in {team.members, ctl.members}
    BY <1>1, <1>5, MembersWritten, Zenon DEF RecoveryWrite, ControllerWrite
  <2>2. ctl' = [ctl EXCEPT !.pc = "health", !.idx = @ + 1]
    BY <1>5, Zenon DEF RecoveryWrite
  <2>3. ctl'.members = ctl.members
    BY <1>1, <2>2, CtlNext, Zenon
  <2> QED BY <1>3, <2>1, <2>3, Zenon DEF Copies
<1> QED BY <1>4, <1>5

(* A session that is told to terminate, or ends, is whose it was. *)
LEMMA CopiesSessions ==
  ASSUME TeamInv, CompleteTerminate \/ \E x \in 1..MaxSessions : SessionEnds(x)
  PROVE  Copies
<1>1. ctl \in CtlType /\ sessions \in Seq(SessionType)
  BY Types
<1>2. ASSUME NEW x \in DOMAIN sessions, NEW w
      PROVE  [sessions[x] EXCEPT !.is = w].role = sessions[x].role
  <2>1. sessions[x] \in SessionType
    BY <1>1
  <2> QED BY <2>1, Zenon DEF SessionType
<1>3. CASE CompleteTerminate
  <2>1. PICK told \in SUBSET {x \in DOMAIN sessions : sessions[x].is = "live"} :
          sessions' = [x \in DOMAIN sessions |->
                         IF x \in told THEN [sessions[x] EXCEPT !.is = "told"] ELSE sessions[x]]
    BY <1>3, Zenon DEF CompleteTerminate, terminateAllSessions
  <2>2. Grown(sessions, sessions')
    BY <1>2, <2>1, Zenon DEF Grown
  <2>3. team' = team /\ ctl'.members = ctl.members
    BY <1>1, <1>3, CtlMembers, Zenon DEF CompleteTerminate
  <2> QED BY <2>2, <2>3, Zenon DEF Copies
<1>4. ASSUME NEW x \in 1..MaxSessions, SessionEnds(x) PROVE Copies
  <2>1. x \in DOMAIN sessions /\ sessions' = [sessions EXCEPT ![x] = [sessions[x] EXCEPT !.is = "dead"]]
    BY <1>4, Zenon DEF SessionEnds
  <2>2. Grown(sessions, sessions')
    BY <1>2, <2>1, Zenon DEF Grown
  <2> QED BY <1>4, <2>2, Zenon DEF SessionEnds, Copies
<1> QED BY <1>3, <1>4

(* Requests and events give a phase, or let somebody join without session. *)
LEMMA TheirsRequests ==
  ASSUME TeamInv, TheirsInv, NEW ms \in Seq(MemberStatus), Theirs(ms, sessions),
         OtherWrite([team EXCEPT !.members = ms]), sessions' = sessions
  PROVE  TheirsInv'
<1>1. team'.members = ms
  BY Types, MembersWritten, Zenon DEF OtherWrite
<1>2. ctl'.members = ctl.members
  BY Types, CtlMembers, Zenon DEF OtherWrite, OutdateController
<1> QED BY <1>1, <1>2, Zenon DEF TheirsInv

LEMMA TheirsMemberWrite ==
  ASSUME TeamInv, TheirsInv, NEW h \in Handlers, MemberWrite(h)
  PROVE  TheirsInv'
<1> DEFINE ms == MembersAfter(req[h])
<1>1. team.members \in Seq(MemberStatus) /\ req[h].op \in {"add", "remove"} /\ ReqCurrent(req[h], team)
  BY Types DEF MemberWrite, TeamInv, ReqGood
<1>2. ms \in Seq(MemberStatus) /\ Theirs(ms, sessions)
  <2>1. CASE req[h].op = "add"
    <3>1. PICK m \in MemberStatus : m = Member(req[h].name, 0, "Joining")
      BY <1>1, <2>1, NewMember, TeamAssumption DEF ReqCurrent, MemberPhases
    <3>2. m.session = 0
      BY <3>1 DEF Member
    <3>3. ms = Append(team.members, m)
      BY <2>1, <3>1 DEF MembersAfter
    <3> QED BY <1>1, <3>2, <3>3, JoinedMembers, TheirsJoined, Zenon DEF TheirsInv
  <2>2. CASE req[h].op = "remove"
    <3>1. ms = WithPhase(team.members, req[h].name, "Shutdown") /\ "Shutdown" \in MemberPhases
      BY <2>2 DEF MembersAfter, MemberPhases
    <3> QED BY <1>1, <3>1, PhasedMembers, TheirsPhased, Zenon DEF TheirsInv
  <2> QED BY <1>1, <2>1, <2>2
<1>3. OtherWrite([team EXCEPT !.members = ms]) /\ sessions' = sessions
  BY Zenon DEF MemberWrite
<1> HIDE DEF ms
<1> QED BY <1>2, <1>3, TheirsRequests

LEMMA TheirsMemberPhase ==
  ASSUME TeamInv, TheirsInv, NEW n \in Members, NEW p \in {"Working", "Idle", "Lost"},
         updateMemberPhase(n, p)
  PROVE  TheirsInv'
<1>1. team.members \in Seq(MemberStatus) /\ p \in MemberPhases
  BY Types DEF MemberPhases
<1>2. WithPhase(team.members, n, p) \in Seq(MemberStatus)
      /\ Theirs(WithPhase(team.members, n, p), sessions)
  BY <1>1, PhasedMembers, TheirsPhased, Zenon DEF TheirsInv
<1> QED BY <1>2, TheirsRequests, Zenon DEF updateMemberPhase

(* A start records what it has spawned, or that it could not. *)
LEMMA TheirsStart ==
  ASSUME TeamInv, TheirsInv, StartSpawn
  PROVE  TheirsInv'
<1> DEFINE i == ctl.idx
           n == IF i = 0 THEN None ELSE Static[i]
           Goes(s, p) == ctl' = [ctl EXCEPT !.idx = i + 1,
                                   !.members = IF i = 0 THEN @ ELSE Append(@, Member(n, s, p))]
<1>1. /\ ctl \in CtlType /\ ctl.members \in Seq(MemberStatus) /\ sessions \in Seq(SessionType)
      /\ SessionsGood(sessions)
      /\ i \in Nat /\ i <= Len(Static)
  BY Types DEF StartSpawn, TeamInv
<1>2. n \in Members \cup {None} /\ (i # 0 => n \in Members)
  BY <1>1, TeamAssumption
<1>3. team' = team
  BY Zenon DEF StartSpawn
<1>4. \/ createSession(n) /\ Goes(Len(sessions) + 1, "Working")
      \/ UNCHANGED sessions /\ Goes(0, "Failed")
      \/ UNCHANGED sessions /\ Done
  BY Zenon DEF StartSpawn
<1>5. ASSUME NEW s, NEW p, Goes(s, p)
      PROVE  ctl'.members = IF i = 0 THEN ctl.members ELSE Append(ctl.members, Member(n, s, p))
  BY <1>1, <1>5, Zenon DEF CtlType
<1> HIDE DEF i, n, Goes
<1>6. CASE createSession(n) /\ Goes(Len(sessions) + 1, "Working")
  <2>1. SessionsGood(sessions') /\ Len(sessions) + 1 \in 1..MaxSessions
    BY <1>1, <1>2, <1>6, SessionCreated
  <2>2. PICK e \in SessionType : e.role = n /\ sessions' = Append(sessions, e)
    <3>1. [role |-> n, is |-> "live"] \in SessionType
      BY <1>2 DEF SessionType
    <3> QED BY <1>6, <3>1 DEF createSession
  <2>3. Grown(sessions, sessions') /\ Len(sessions') = Len(sessions) + 1
        /\ sessions'[Len(sessions) + 1] = e
    BY <1>1, <2>2 DEF Grown
  <2>4. Theirs(team'.members, sessions')
    BY <1>3, <2>3, TheirsGrown, Zenon DEF TheirsInv
  <2>5. Theirs(ctl'.members, sessions')
    <3>1. CASE i = 0
      BY <1>5, <1>6, <2>3, <3>1, TheirsGrown, Zenon DEF TheirsInv
    <3>2. CASE i # 0
      <4>1. "Working" \in MemberPhases /\ Len(sessions) + 1 \in 0..MaxSessions
        BY <2>1 DEF MemberPhases
      <4>2. PICK m \in MemberStatus : m = Member(n, Len(sessions) + 1, "Working")
        BY <1>2, <3>2, <4>1, NewMember
      <4>3. m.name = n /\ m.session = Len(sessions) + 1
        BY <4>2 DEF Member
      <4>4. ctl'.members = Append(ctl.members, m)
        BY <1>5, <1>6, <3>2, <4>2, Zenon
      <4>5. Theirs(Append(ctl.members, m), sessions')
        <5> DEFINE ns == Append(ctl.members, m)
                   k == Len(ctl.members) + 1
        <5>1. ns[k] = m /\ DOMAIN ns \subseteq DOMAIN ctl.members \cup {k}
          BY <1>1
        <5>2. \A j \in DOMAIN ns : j # k => ns[j] = ctl.members[j]
          BY <1>1
        <5> HIDE DEF ns, k
        <5>3. ns[k].session = Len(sessions) + 1 /\ sessions'[Len(sessions) + 1].role = ns[k].name
          BY <2>2, <2>3, <4>3, <5>1, Zenon
        <5>4. sessions' \in Seq(SessionType) /\ Theirs(ctl.members, sessions)
          BY <2>1, Zenon DEF SessionsGood, TheirsInv
        <5>5. Theirs(ns, sessions')
          BY <1>1, <2>3, <5>1, <5>2, <5>3, <5>4, TheirsSpawned, SMTT(60)
        <5> QED BY <5>5 DEF ns
      <4> QED BY <4>4, <4>5, Zenon
    <3> QED BY <3>1, <3>2
  <2> QED BY <2>4, <2>5, Zenon DEF TheirsInv
<1>7. CASE UNCHANGED sessions /\ Goes(0, "Failed")
  <2>1. Theirs(ctl'.members, sessions)
    <3>1. CASE i = 0
      BY <1>5, <1>7, <3>1, Zenon DEF TheirsInv
    <3>2. CASE i # 0
      <4>1. "Failed" \in MemberPhases /\ 0 \in 0..MaxSessions
        BY TeamAssumption DEF MemberPhases
      <4>2. PICK m \in MemberStatus : m = Member(n, 0, "Failed")
        BY <1>2, <3>2, <4>1, NewMember
      <4>3. m.session = 0
        BY <4>2 DEF Member
      <4>4. ctl'.members = Append(ctl.members, m)
        BY <1>5, <1>7, <3>2, <4>2, Zenon
      <4> QED BY <1>1, <4>3, <4>4, TheirsJoined, Zenon DEF TheirsInv
    <3> QED BY <3>1, <3>2
  <2> QED BY <1>3, <1>7, <2>1, Zenon DEF TheirsInv
<1>8. CASE UNCHANGED sessions /\ Done
  <2>1. ctl'.members = <<>>
    BY <1>8, IdleHasNoMembers, Zenon DEF Done
  <2> QED BY <1>3, <1>8, <2>1, NobodysSessions, Zenon DEF TheirsInv
<1> QED BY <1>4, <1>6, <1>7, <1>8

(* A member that failed keeps its session until it is given another one.   *)
LEMMA TheirsMemberFailure ==
  ASSUME TeamInv, TheirsInv, HandleMemberFailure
  PROVE  TheirsInv'
<1> DEFINE f == First(ctl.members, ctl.members[ctl.idx].name)
           auto == team.recovery = "Auto" /\ Restartable(ctl.members[f])
           lost == IF team.recovery # "None" /\ ~Restartable(ctl.members[f]) THEN "Failed" ELSE "Lost"
           q == IF auto THEN "spawn" ELSE "write"
<1>1. ctl \in CtlType /\ ctl.members \in Seq(MemberStatus) /\ ctl.idx \in Nat /\ ctl.idx >= 1
      /\ ctl.idx <= Len(ctl.members)
  BY Types DEF HandleMemberFailure, TeamInv, CtlGood, CtlShape, Repairing
<1>2. f \in DOMAIN ctl.members
  BY <1>1, FirstIsThere
<1>3. ctl' = [ctl EXCEPT !.members[f].phase = lost, !.pc = q] /\ team' = team /\ sessions' = sessions
  BY Zenon DEF HandleMemberFailure
<1>4. lost \in MemberPhases
  BY DEF MemberPhases
<1> HIDE DEF f, auto, lost, q
<1>5. PICK k \in MemberStatus : k = ctl.members[f]
  BY <1>1, <1>2
<1>6. PICK m \in MemberStatus : /\ m = [k EXCEPT !.phase = lost]
                                /\ m.name = k.name /\ m.session = k.session
  BY <1>4, PhaseFields, Zenon
<1>7. m.name = k.name /\ m.session = k.session
  BY <1>6, Zenon
<1>8. ctl'.members = [ctl.members EXCEPT ![f] = m]
  <2>1. ctl' = [ctl EXCEPT !.members = [ctl.members EXCEPT ![f] = [k EXCEPT !.phase = lost]], !.pc = q]
    BY <1>3, <1>5, Zenon
  <2>2. ctl' = [ctl EXCEPT !.members = [ctl.members EXCEPT ![f] = m], !.pc = q]
    BY <1>6, <2>1, Zenon
  <2> QED BY <1>1, <2>2, Zenon DEF CtlType
<1>9. Theirs([ctl.members EXCEPT ![f] = m], sessions)
  BY <1>1, <1>2, <1>5, <1>7, TheirsReplaced DEF TheirsInv
<1> QED BY <1>3, <1>8, <1>9, Zenon DEF TheirsInv

(* The session of a recovery is the member's, and was nobody's before.     *)
LEMMA TheirsRecovery ==
  ASSUME TeamInv, TheirsInv, RecoverySpawn
  PROVE  TheirsInv'
<1> DEFINE f == First(ctl.members, ctl.members[ctl.idx].name)
           x == Len(sessions) + 1
           y == ctl.members[f].restarts + 1
<1>1. /\ ctl \in CtlType /\ ctl.members \in Seq(MemberStatus)
      /\ sessions \in Seq(SessionType) /\ SessionsGood(sessions)
      /\ ctl.idx \in Nat /\ ctl.idx >= 1 /\ ctl.idx <= Len(ctl.members)
  BY Types DEF RecoverySpawn, TeamInv, CtlGood, CtlShape, Repairing
<1>2. f \in DOMAIN ctl.members
  BY <1>1, FirstIsThere
<1>3. team' = team
  BY Zenon DEF RecoverySpawn
<1>4. \/ /\ createSession(ctl.members[f].name)
         /\ ctl' = [ctl EXCEPT !.members[f] = [ctl.members[f] EXCEPT !.session = x,
                                               !.phase = "Working", !.restarts = y],
                               !.pc = "write"]
      \/ UNCHANGED sessions /\ ctl' = [ctl EXCEPT !.pc = "health", !.idx = @ + 1]
  BY Zenon DEF RecoverySpawn, Restarted
<1>5. x \notin DOMAIN sessions
  BY <1>1
<1> HIDE DEF f, y
<1>6. CASE UNCHANGED sessions /\ ctl' = [ctl EXCEPT !.pc = "health", !.idx = @ + 1]
  <2>1. ctl'.members = ctl.members
    BY <1>1, <1>6, CtlNext, Zenon
  <2> QED BY <1>3, <1>6, <2>1, Zenon DEF TheirsInv
<1>7. CASE /\ createSession(ctl.members[f].name)
           /\ ctl' = [ctl EXCEPT !.members[f] = [ctl.members[f] EXCEPT !.session = x,
                                                 !.phase = "Working", !.restarts = y],
                                 !.pc = "write"]
  <2>1. PICK k \in MemberStatus : k = ctl.members[f]
    BY <1>1, <1>2
  <2> DEFINE m == [k EXCEPT !.session = x, !.phase = "Working", !.restarts = y]
             ms == [ctl.members EXCEPT ![f] = m]
  <2>2. m.name = k.name /\ m.session = x
    BY Zenon DEF MemberStatus
  <2>3. k.name \in Members \cup {None}
    BY DEF MemberStatus
  <2>4. createSession(k.name)
    BY <1>7, <2>1, Zenon
  <2>5. SessionsGood(sessions')
    BY <1>1, <2>3, <2>4, SessionCreated
  <2>6. PICK e \in SessionType : e.role = k.name /\ sessions' = Append(sessions, e)
    <3>1. [role |-> k.name, is |-> "live"] \in SessionType
      BY <2>3 DEF SessionType
    <3> QED BY <2>4, <3>1 DEF createSession
  <2>7. Grown(sessions, sessions') /\ Len(sessions') = x /\ sessions'[x] = e
    BY <1>1, <2>6 DEF Grown
  <2>8. ctl'.members = ms
    <3>1. ctl' = [ctl EXCEPT !.members = [ctl.members EXCEPT ![f] = m], !.pc = "write"]
      BY <1>7, <2>1, Zenon
    <3> HIDE DEF m
    <3> QED BY <1>1, <3>1, Zenon DEF CtlType
  <2> HIDE DEF m
  <2>9. DOMAIN ms \subseteq DOMAIN ctl.members \cup {f}
        /\ ms[f] = m /\ \A j \in DOMAIN ms : j # f => ms[j] = ctl.members[j]
    BY <1>1, <1>2, Zenon
  <2> HIDE DEF ms
  <2>10. ms[f].session = Len(sessions) + 1 /\ sessions'[Len(sessions) + 1].role = ms[f].name
    BY <2>2, <2>6, <2>7, <2>9, Zenon
  <2>11. sessions' \in Seq(SessionType) /\ Theirs(ctl.members, sessions)
    BY <2>5, Zenon DEF SessionsGood, TheirsInv
  <2>12. Theirs(ms, sessions')
    BY <1>1, <2>7, <2>9, <2>10, <2>11, TheirsSpawned
  <2>13. Theirs(team'.members, sessions')
    BY <1>3, <2>7, TheirsGrown, Zenon DEF TheirsInv
  <2> QED BY <2>8, <2>12, <2>13, Zenon DEF TheirsInv
<1> QED BY <1>4, <1>6, <1>7

LEMMA TheirsNext ==
  ASSUME TeamInv, TheirsInv, [Next]_vars
  PROVE  TheirsInv'
<1> DEFINE Same == sessions' = sessions /\ team' = team /\ ctl' = ctl
<1>1. ASSUME Same PROVE TheirsInv'
  BY <1>1, Zenon DEF TheirsInv
<1>2. UNCHANGED teamVars => Same
  BY DEF teamVars
<1> HIDE DEF Same
<1>3. ASSUME NEW h \in Handlers, NEW n, NEW op, Ask(h, op, n) PROVE TheirsInv'
  BY <1>1, <1>3, Zenon DEF Ask, Same
<1>4. ASSUME NEW h \in Handlers, deleteTeam(h) \/ RequestFails(h) PROVE TheirsInv'
  BY <1>1, <1>4, Zenon DEF deleteTeam, RequestFails, Same
<1>5. ASSUME NEW h \in Handlers, DeleteWrite(h) PROVE TheirsInv'
  BY <1>5, CopiesObject, TheirsCopied
<1>6. ASSUME NEW t \in Tasks, createTeamTask(t) \/ completeTeamTask(t) PROVE TheirsInv'
  BY <1>1, <1>2, <1>6, Zenon DEF createTeamTask, completeTeamTask, Same
<1>7. ASSUME NEW t \in Tasks, NEW m \in Members \cup {None}, claimTeamTask(t, m) PROVE TheirsInv'
  BY <1>1, <1>2, <1>7, Zenon DEF claimTeamTask
<1>8. ASSUME NEW k \in Sinks, updateTaskSummary(k) \/ SummaryWrite(k) PROVE TheirsInv'
  <2>1. CASE updateTaskSummary(k)
    BY <1>1, <2>1, Zenon DEF updateTaskSummary, Same
  <2>2. CASE SummaryWrite(k)
    BY <2>2, CopiesObject, TheirsCopied
  <2> QED BY <1>8, <2>1, <2>2
<1>9. CASE createTeam \/ handleCompleteTeam \/ handleTerminal \/ Crash
  BY <1>9, CopiesObject, CopiesController, TheirsCopied
<1>10. CASE Controller
  BY <1>10, CopiesObject, CopiesController, CopiesWrite, CopiesSessions, TheirsCopied,
     TheirsStart, TheirsMemberFailure, TheirsRecovery, Zenon DEF Controller
<1>11. ASSUME NEW x \in 1..MaxSessions, SessionEnds(x) PROVE TheirsInv'
  BY <1>11, CopiesSessions, TheirsCopied
<1>12. CASE TimePasses
  BY <1>1, <1>12, Zenon DEF TimePasses, Same
<1>13. CASE UNCHANGED vars
  BY <1>1, <1>2, <1>13, Zenon DEF vars
<1>14. ASSUME NEW n \in Members, NEW p \in {"Working", "Idle", "Lost"}, updateMemberPhase(n, p)
       PROVE  TheirsInv'
  BY <1>14, TheirsMemberPhase
<1>15. ASSUME NEW h \in Handlers, NEW n \in Dynamic, addTeamMember(h, n) PROVE TheirsInv'
  BY <1>3, <1>15, Zenon DEF addTeamMember
<1>16. ASSUME NEW h \in Handlers, NEW n \in Members, removeTeamMember(h, n) PROVE TheirsInv'
  BY <1>3, <1>16, Zenon DEF removeTeamMember
<1>17. ASSUME NEW h \in Handlers, MemberWrite(h) PROVE TheirsInv'
  BY <1>17, TheirsMemberWrite
<1> QED BY <1>4, <1>5, <1>6, <1>7, <1>8, <1>9, <1>10, <1>11, <1>12, <1>13, <1>14, <1>15, <1>16,
        <1>17, Zenon DEF Next

(* Whatever start, recovery, request and event overlap, and whichever      *)
(* write is refused: a session that the status names was spawned for that  *)
(* member (StartTeam, reschedMember), and no two members have the same.    *)
THEOREM SessionsAreTheirs == Spec => []Theirs(team.members, sessions)
<1>1. Init => TheirsInv
  BY NobodysSessions, IdleHasNoMembers, Zenon DEF Init, TheirsInv
<1>2. TeamInv /\ TheirsInv /\ [Next]_vars => TheirsInv'
  BY TheirsNext
<1>3. TheirsInv => Theirs(team.members, sessions)
  BY DEF TheirsInv
<1> QED BY <1>1, <1>2, <1>3, TeamInvAlways, PTL DEF Spec
=============================================================================
