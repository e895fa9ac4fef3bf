--------------------------- MODULE TeamLifecycle ----------------------------
(***************************************************************************)
(* One AgentTeam, from its creation to the removal of its finalizer.  Its  *)
(* status is written at once by the team controller (start, timeout,       *)
(* completion, recovery of members), by REST requests (members) and by the *)
(* team-event sinks (member phases, task summaries, the lead's decision).  *)
(*                                                                         *)
(* The controller and REST read the object, work on their copy and write   *)
(* it back; the API server refuses the write if the object has changed.    *)
(* The sinks and the timeout read it again on a conflict, so they change   *)
(* whatever object there is: one step.  Sessions are spawned between a     *)
(* read and the write that records them.  (The controller's reads are      *)
(* current.  A lagging cache would make more of its writes fail and more   *)
(* sessions be spawned, and nothing else: its writes are conditional.)     *)
(*                                                                         *)
(* Tasks are the atomic ones of TaskBoard, which the task store implements.*)
(***************************************************************************)
EXTENDS Integers, Sequences, FiniteSets, TaskBoard

CONSTANTS
    Static,        \* the names of spec.members, a sequence
    Dynamic,       \* names given to addTeamMember
    MaxTotal,      \* spec.dynamicMembers.maxTotal
    MaxRestarts,   \* spec.recovery.maxRestarts
    Policies,      \* shutdown policies the team may have
    Recoveries,    \* reschedule policies the team may have
    Handlers,      \* concurrent REST requests
    Sinks,         \* streams whose events are handled
    MaxSessions,   \* bound on the sessions that are spawned
    MaxWrites      \* bound on what sinks, requests and crashes do to the controller

StaticNames == {Static[i] : i \in DOMAIN Static}

(* AgentTeamValidator: names are unique and maxTotal has room for the      *)
(* static members and the lead.                                            *)
validate ==
    /\ \A i, j \in DOMAIN Static : Static[i] = Static[j] => i = j
    /\ MaxTotal >= Len(Static) + 1
    /\ Policies \subseteq {"all-complete", "lead-decides", "manual", "timeout"}

ASSUME TeamAssumption ==
    /\ IsFiniteSet(Tasks)
    /\ Static \in Seq(Members)
    /\ Dynamic \subseteq Members
    /\ MaxTotal \in Nat /\ MaxRestarts \in Nat \ {0} /\ MaxSessions \in Nat /\ MaxWrites \in Nat
    /\ Recoveries \subseteq {"Auto", "Manual", "None"}
    /\ None \notin Members
    /\ validate

VARIABLES
    team,      \* the AgentTeam
    sessions,  \* the AgentSessions spawned for it, in order
    ctl,       \* the controller: where it is in a reconciliation, and its copy
    req,       \* req[h]: the REST request of h
    sum,       \* sum[k]: the task summary that sink k has yet to write
    late,      \* maxDuration has passed
    writes,    \* what was counted against MaxWrites
    decided    \* history: the lead has decided to complete the team

teamVars == <<team, sessions, ctl, req, sum, late, writes, decided>>
vars == <<teamVars, boardVars>>

MemberPhases == {"Joining", "Working", "Idle", "Lost", "Failed", "Shutdown"}
TeamPhases == {"Pending", "Running", "Completed", "Failed"}
Terminal == {"Completed", "Failed"}

Member(n, s, p) == [name |-> n, session |-> s, phase |-> p, restarts |-> 0]
MemberStatus == [name : Members, session : 0..MaxSessions, phase : MemberPhases,
                 restarts : 0..MaxRestarts]
Summary == [total : Nat, completed : Nat]
ZeroSummary == [total |-> 0, completed |-> 0]

AgentTeam == [at : {"absent", "there", "deleting", "gone"}, fin : BOOLEAN, phase : TeamPhases,
              members : Seq(MemberStatus), tasks : Summary, policy : Policies,
              recovery : Recoveries]

IdleCtl == [pc |-> "idle", fresh |-> FALSE, members |-> <<>>, idx |-> 0]
IdleReq == [op |-> "idle", name |-> None]

Exists == team.at \in {"there", "deleting"}
Started == Exists /\ team.phase # "Pending"

(* Every variable has its type; in particular nobody is restarted more     *)
(* often than allowed, whatever is lost between the writes.                *)
TypeOK ==
    /\ team \in AgentTeam
    /\ sessions \in Seq([role : Members \cup {None}, is : {"live", "told", "dead"}])
    /\ ctl \in [pc : {"idle", "start", "timeout", "complete", "completed", "health", "spawn",
                      "write", "final", "finalWrite", "cleanup", "unfinalize"},
                fresh : BOOLEAN, members : Seq(MemberStatus), idx : Nat]
    /\ req \in [Handlers -> [op : {"idle", "add", "remove", "delete"},
                             name : Members \cup {None}]]
    /\ sum \in [Sinks -> Summary \cup {None}]
    /\ late \in BOOLEAN /\ decided \in BOOLEAN
    /\ writes \in 0..MaxWrites

Init ==
    /\ BoardInit
    /\ team \in [at : {"absent"}, fin : {FALSE}, phase : {"Pending"}, members : {<<>>},
                 tasks : {ZeroSummary}, policy : Policies, recovery : Recoveries]
    /\ sessions = <<>>
    /\ ctl = IdleCtl
    /\ req = [h \in Handlers |-> IdleReq]
    /\ sum = [k \in Sinks |-> None]
    /\ late = FALSE /\ decided = FALSE
    /\ writes = 0

-----------------------------------------------------------------------------
(* The API server.                                                         *)

(* Mutant of Outdated: a refused write is repeated on the new version. *)
OutdatedNever(r) == r

(* The team changes: a member request's write of its older copy will be    *)
(* refused, so nothing but its failure is left of it.  A delete request    *)
(* goes on, and the controller on its copy.                                *)
Outdated(r) == IF r.op \in {"add", "remove"} THEN IdleReq ELSE r

OutdateRequests == req' = [h \in Handlers |-> Outdated(req[h])]
OutdateController == ctl' = [ctl EXCEPT !.fresh = FALSE]

(* The steps that others take while the controller is at work, and its     *)
(* crashes: each is one of the bounded number.                             *)
OtherWrites == writes < MaxWrites /\ writes' = writes + 1

OtherWrite(t) ==
    /\ Exists
    /\ OtherWrites
    /\ team' = t
    /\ OutdateController

(* A delete request leaves the object to its finalizer, if it has one. *)
Deleted(t) == [t EXCEPT !.at = IF t.fin THEN "deleting" ELSE "gone"]

(* The first member of that name, as the loops find it. *)
Named(ms, n) == {i \in DOMAIN ms : ms[i].name = n}
First(ms, n) == CHOOSE i \in Named(ms, n) : \A j \in Named(ms, n) : i <= j
WithPhase(ms, n, p) == IF Named(ms, n) = {} THEN ms ELSE [ms EXCEPT ![First(ms, n)].phase = p]

-----------------------------------------------------------------------------
(* Tasks: REST requests and task events alike.                             *)

createTeamTask(t) ==
    /\ team.at # "absent"
    /\ \/ Create(t) /\ OtherWrites
       \/ Publish(t) /\ UNCHANGED writes
    /\ UNCHANGED <<team, sessions, ctl, req, sum, late, decided>>
claimTeamTask(t, m) == Claim(t, m) /\ UNCHANGED teamVars
completeTeamTask(t) == state[t] # "completed" /\ Complete(t) /\ UNCHANGED teamVars

ReleaseTasks(ts) ==
    /\ state' = [t \in Tasks |-> IF t \in ts THEN "pending" ELSE state[t]]
    /\ owner' = [t \in Tasks |-> IF t \in ts THEN None ELSE owner[t]]

DeleteTasks ==
    /\ state' = [t \in Tasks |-> IF state[t] \in Present THEN "gone" ELSE state[t]]
    /\ owner' = [t \in Tasks |-> IF state[t] \in Present THEN None ELSE owner[t]]

GetSummary ==
    LET there == {t \in Tasks : state[t] \in Present}
    IN [total |-> Cardinality(there),
        completed |-> Cardinality({t \in there : state[t] = "completed"})]

-----------------------------------------------------------------------------
(* REST.                                                                   *)

createTeam ==
    /\ team.at = "absent"
    /\ team' = [team EXCEPT !.at = "there"]
    /\ UNCHANGED <<sessions, ctl, req, sum, late, writes, decided, boardVars>>

Ask(h, op, n) ==
    /\ req[h].op = "idle"
    /\ Exists
    /\ req' = [req EXCEPT ![h] = [op |-> op, name |-> n]]
    /\ UNCHANGED <<team, sessions, ctl, sum, late, writes, decided, boardVars>>

(* The static members count twice once the team runs. *)
HasRoom == Len(Static) + Len(team.members) < MaxTotal

(* addTeamMember and removeTeamMember read the team ...  (Removing a name  *)
(* that is not there writes the team as it is: no step.)                   *)
addTeamMember(h, n) == HasRoom /\ Ask(h, "add", n)
removeTeamMember(h, n) == Named(team.members, n) # {} /\ Ask(h, "remove", n)

MembersAfter(r) ==
    IF r.op = "add" THEN Append(team.members, Member(r.name, 0, "Joining"))
                    ELSE WithPhase(team.members, r.name, "Shutdown")

(* ... and write it with the member appended, or shut down.                *)
MemberWrite(h) ==
    /\ req[h].op \in {"add", "remove"}
    /\ OtherWrite([team EXCEPT !.members = MembersAfter(req[h])])
    /\ req' = [g \in Handlers |-> IF g = h THEN IdleReq ELSE Outdated(req[g])]
    /\ UNCHANGED <<sessions, sum, late, decided, boardVars>>

(* deleteTeam deletes the tasks, and then the team.                        *)
deleteTeam(h) ==
    /\ req[h].op = "idle"
    /\ Exists
    /\ OtherWrites
    /\ DeleteTasks
    /\ req' = [req EXCEPT ![h] = [op |-> "delete", name |-> None]]
    /\ UNCHANGED <<team, sessions, ctl, sum, late, decided>>

DeleteWrite(h) ==
    /\ req[h].op = "delete"
    /\ team.at = "there"
    /\ team' = Deleted(team)
    /\ OutdateController
    /\ req' = [g \in Handlers |-> IF g = h THEN IdleReq ELSE Outdated(req[g])]
    /\ UNCHANGED <<sessions, sum, late, writes, decided, boardVars>>

(* Any request may fail between the two.                                   *)
RequestFails(h) ==
    /\ req[h].op # "idle"
    /\ req' = [req EXCEPT ![h] = IdleReq]
    /\ UNCHANGED <<team, sessions, ctl, sum, late, writes, decided, boardVars>>

-----------------------------------------------------------------------------
(* The team-event sinks.                                                   *)

(* member_joined, member_idle, member_working, member_left: whatever phase *)
(* the member has.                                                         *)
updateMemberPhase(n, p) ==
    /\ Named(team.members, n) # {}
    /\ OtherWrite([team EXCEPT !.members = WithPhase(team.members, n, p)])
    /\ OutdateRequests
    /\ UNCHANGED <<sessions, sum, late, decided, boardVars>>

(* After a task event, one that failed to claim or complete included.      *)
updateTaskSummary(k) ==
    /\ sum[k] = None
    /\ Exists
    /\ OtherWrites
    /\ sum' = [sum EXCEPT ![k] = GetSummary]
    /\ UNCHANGED <<team, sessions, ctl, req, late, decided, boardVars>>

SummaryWrite(k) ==
    /\ sum[k] # None
    /\ Exists
    /\ team' = [team EXCEPT !.tasks = sum[k]]
    /\ OutdateController
    /\ OutdateRequests
    /\ sum' = [sum EXCEPT ![k] = None]
    /\ UNCHANGED <<sessions, late, writes, decided, boardVars>>

(* The lead's complete_team, if the policy leaves it to the lead: the      *)
(* team need not have started.                                             *)
handleCompleteTeam ==
    /\ team.policy = "lead-decides"
    /\ OtherWrite([team EXCEPT !.phase = "Completed"])
    /\ OutdateRequests
    /\ decided' = TRUE
    /\ UNCHANGED <<sessions, sum, late, boardVars>>

-----------------------------------------------------------------------------
(* The team controller: one worker on the leading replica.                 *)

(* The shutdown policy is not asked. *)
CheckAllComplete == team.tasks.total > 0 /\ team.tasks.completed = team.tasks.total

Turn(pc, ms, i) == ctl' = [pc |-> pc, fresh |-> TRUE, members |-> ms, idx |-> i]

handlePending == team.phase = "Pending" /\ Turn("start", <<>>, 0)

handleRunning ==
    /\ team.phase = "Running"
    /\ \/ late /\ Turn("timeout", <<>>, 0)
       \/ ~late /\ CheckAllComplete /\ Turn("complete", <<>>, 0)
       \/ ~late /\ ~CheckAllComplete /\ Turn("health", team.members, 1)

(* Reconcile reads the team and decides what to do.                        *)
Reconcile ==
    /\ ctl.pc = "idle"
    /\ \/ team.at = "deleting" /\ Turn("final", <<>>, 0)
       \/ team.at = "there" /\ team.fin /\ (handlePending \/ handleRunning)
    /\ UNCHANGED <<team, sessions, req, sum, late, writes, decided, boardVars>>

AddFinalizer ==
    /\ ctl.pc = "idle"
    /\ team.at = "there" /\ ~team.fin
    /\ team' = [team EXCEPT !.fin = TRUE]
    /\ OutdateRequests
    /\ UNCHANGED <<sessions, ctl, sum, late, writes, decided, boardVars>>

(* The time to live has passed since the team was started. *)
handleTerminal ==
    /\ ctl.pc = "idle"
    /\ team.at = "there" /\ team.fin /\ team.phase \in Terminal
    /\ team' = Deleted(team)
    /\ OutdateRequests
    /\ UNCHANGED <<sessions, ctl, sum, late, writes, decided, boardVars>>

Done == ctl' = IdleCtl

createSession(r) ==
    /\ Len(sessions) < MaxSessions
    /\ sessions' = Append(sessions, [role |-> r, is |-> "live"])

(* Mutant of ControllerWrite: the write carries no resourceVersion. *)
ControllerWriteAnyway(t) == Exists /\ team' = t /\ OutdateRequests

(* Status().Update of the controller's copy.                               *)
ControllerWrite(t) == ctl.fresh /\ Exists /\ team' = t /\ OutdateRequests

(* StartTeam: a session for the lead, or the start fails; then one for     *)
(* every static member, or it is recorded as failed ...                    *)
StartSpawn ==
    LET i == ctl.idx
        n == IF i = 0 THEN None ELSE Static[i]
        next(s, p) == ctl' = [ctl EXCEPT !.idx = i + 1,
                              !.members = IF i = 0 THEN @ ELSE Append(@, Member(n, s, p))]
    IN /\ ctl.pc = "start" /\ i <= Len(Static)
       /\ \/ createSession(n) /\ next(Len(sessions) + 1, "Working")
          \/ UNCHANGED sessions /\ IF i = 0 THEN Done ELSE next(0, "Failed")
       /\ UNCHANGED <<team, req, sum, late, writes, decided, boardVars>>

(* ... and the status replaces what was there: members too.                *)
StartWrite ==
    /\ ctl.pc = "start" /\ ctl.idx > Len(Static)
    /\ \/ ControllerWrite([team EXCEPT !.phase = "Running", !.members = ctl.members,
                                       !.tasks = ZeroSummary])
       \/ ~ctl.fresh /\ UNCHANGED <<team, req>>
    /\ Done
    /\ UNCHANGED <<sessions, sum, late, writes, decided, boardVars>>

(* Mutant of Timeout: the condition is written, the phase is not. *)
TimeoutConditionOnly ==
    /\ ctl.pc = "timeout"
    /\ OutdateRequests
    /\ Done
    /\ UNCHANGED <<team, sessions, sum, late, writes, decided, boardVars>>

(* Past maxDuration: Failed, whatever the phase is by now.                 *)
Timeout ==
    /\ ctl.pc = "timeout"
    /\ team' = IF Exists THEN [team EXCEPT !.phase = "Failed"] ELSE team
    /\ OutdateRequests
    /\ Done
    /\ UNCHANGED <<sessions, sum, late, writes, decided, boardVars>>

(* Every session of the team is told to terminate; what fails is logged.   *)
terminateAllSessions ==
    \E told \in SUBSET {x \in DOMAIN sessions : sessions[x].is = "live"} :
       sessions' = [x \in DOMAIN sessions |->
                      IF x \in told THEN [sessions[x] EXCEPT !.is = "told"] ELSE sessions[x]]

(* CompleteTeam, when all tasks are completed or on behalf of the finalizer. *)
CompleteTerminate ==
    /\ ctl.pc \in {"complete", "final"}
    /\ terminateAllSessions
    /\ ctl' = [ctl EXCEPT !.pc = IF ctl.pc = "final" THEN "finalWrite" ELSE "completed"]
    /\ UNCHANGED <<team, req, sum, late, writes, decided, boardVars>>

(* The finalizer goes on whether or not the write succeeds.                *)
CompleteWrite ==
    /\ ctl.pc \in {"completed", "finalWrite"}
    /\ \/ ControllerWrite([team EXCEPT !.phase = "Completed"])
       \/ ~ctl.fresh /\ UNCHANGED <<team, req>>
    /\ ctl' = IF ctl.pc = "finalWrite" THEN [ctl EXCEPT !.pc = "cleanup"] ELSE IdleCtl
    /\ UNCHANGED <<sessions, sum, late, writes, decided, boardVars>>

CleanupTeamState ==
    /\ ctl.pc = "cleanup"
    /\ DeleteTasks
    /\ ctl' = [ctl EXCEPT !.pc = "unfinalize"]
    /\ UNCHANGED <<team, sessions, req, sum, late, writes, decided>>

(* Mutant of RemoveFinalizer: the copy is never read again. *)
RemoveFinalizerOnce ==
    /\ ctl.pc = "unfinalize"
    /\ ControllerWrite([team EXCEPT !.at = "gone", !.fin = FALSE])
    /\ Done
    /\ UNCHANGED <<sessions, sum, late, writes, decided, boardVars>>

RemoveFinalizer ==
    /\ ctl.pc = "unfinalize"
    /\ \/ ControllerWrite([team EXCEPT !.at = "gone", !.fin = FALSE])
       \/ ~ctl.fresh /\ UNCHANGED <<team, req>>
    /\ Done
    /\ UNCHANGED <<sessions, sum, late, writes, decided, boardVars>>

(* checkMemberHealth goes through the members of the copy it has read.  A  *)
(* member that was shut down is looked at like any other.                  *)
Healthy(m) ==
    m.phase \notin {"Lost", "Failed"} /\ m.session # 0 => sessions[m.session].is # "dead"

HealthPasses ==
    LET i == ctl.idx
    IN /\ ctl.pc = "health"
       /\ IF i > Len(ctl.members)
          THEN Done
          ELSE Healthy(ctl.members[i]) /\ ctl' = [ctl EXCEPT !.idx = i + 1]
       /\ UNCHANGED <<team, sessions, req, sum, late, writes, decided, boardVars>>

Interrupted(n) == {t \in Tasks : state[t] = "in_progress" /\ owner[t] = n}

Restartable(m) == m.restarts < MaxRestarts

(* HandleMemberFailure, by name.  Only a member that is to be rescheduled  *)
(* has its tasks unclaimed.                                                *)
HandleMemberFailure ==
    LET i    == First(ctl.members, ctl.members[ctl.idx].name)
        m    == ctl.members[i]
        auto == team.recovery = "Auto" /\ Restartable(m)
        lost == IF team.recovery # "None" /\ ~Restartable(m) THEN "Failed" ELSE "Lost"
    IN /\ ctl.pc = "health"
       /\ ctl.idx <= Len(ctl.members) /\ ~Healthy(ctl.members[ctl.idx])
       /\ ctl' = [ctl EXCEPT !.members[i].phase = lost, !.pc = IF auto THEN "spawn" ELSE "write"]
       /\ IF auto THEN ReleaseTasks(Interrupted(m.name)) ELSE UNCHANGED boardVars
       /\ UNCHANGED <<team, sessions, req, sum, late, writes, decided>>

(* Mutant of Restarted: the attempt and its success are both counted. *)
RestartedCountedTwice(m, s) ==
    [m EXCEPT !.session = s, !.phase = "Working", !.restarts = @ + 2]

Restarted(m, s) == [m EXCEPT !.session = s, !.phase = "Working", !.restarts = @ + 1]

(* SpawnRecoverySession; if it fails the copy keeps the member as lost,    *)
(* and the next member's write stores that.                                *)
RecoverySpawn ==
    LET i == First(ctl.members, ctl.members[ctl.idx].name)
        m == ctl.members[i]
    IN /\ ctl.pc = "spawn"
       /\ \/ /\ createSession(m.name)
             /\ ctl' = [ctl EXCEPT !.members[i] = Restarted(m, Len(sessions) + 1), !.pc = "write"]
          \/ UNCHANGED sessions /\ ctl' = [ctl EXCEPT !.pc = "health", !.idx = @ + 1]
       /\ UNCHANGED <<team, req, sum, late, writes, decided, boardVars>>

(* The copy is written; refused or not, the loop goes on with it.          *)
RecoveryWrite ==
    /\ ctl.pc = "write"
    /\ \/ ControllerWrite([team EXCEPT !.members = ctl.members])
       \/ UNCHANGED <<team, req>>
    /\ ctl' = [ctl EXCEPT !.pc = "health", !.idx = @ + 1]
    /\ UNCHANGED <<sessions, sum, late, writes, decided, boardVars>>

(* The leading replica dies; another one starts over.                      *)
Crash ==
    /\ ctl.pc # "idle"
    /\ OtherWrites
    /\ Done
    /\ UNCHANGED <<team, sessions, req, sum, late, decided, boardVars>>

Controller ==
    \/ Reconcile \/ AddFinalizer
    \/ StartSpawn \/ StartWrite
    \/ Timeout
    \/ CompleteTerminate \/ CompleteWrite \/ CleanupTeamState \/ RemoveFinalizer
    \/ HealthPasses \/ HandleMemberFailure \/ RecoverySpawn \/ RecoveryWrite

-----------------------------------------------------------------------------
(* The world: sessions end, time passes.  Nobody looks at how the lead's   *)
(* session is.                                                             *)

SessionEnds(x) ==
    /\ x \in DOMAIN sessions
    /\ sessions[x].is # "dead" /\ sessions[x].role # None
    /\ sessions' = [sessions EXCEPT ![x].is = "dead"]
    /\ UNCHANGED <<team, ctl, req, sum, late, writes, decided, boardVars>>

TimePasses ==
    /\ Started /\ ~late
    /\ late' = TRUE
    /\ UNCHANGED <<team, sessions, ctl, req, sum, writes, decided, boardVars>>

Next ==
    \/ createTeam
    \/ \E h \in Handlers :
         \/ \E n \in Dynamic : addTeamMember(h, n)
         \/ \E n \in Members : removeTeamMember(h, n)
         \/ MemberWrite(h)
         \/ deleteTeam(h)
         \/ DeleteWrite(h)
         \/ RequestFails(h)
    \/ \E t \in Tasks :
         \/ createTeamTask(t)
         \/ \E m \in Members \cup {None} : claimTeamTask(t, m)
         \/ completeTeamTask(t)
    \/ \E n \in Members, p \in {"Working", "Idle", "Lost"} : updateMemberPhase(n, p)
    \/ \E k \in Sinks : updateTaskSummary(k) \/ SummaryWrite(k)
    \/ handleCompleteTeam
    \/ Controller
    \/ handleTerminal
    \/ Crash
    \/ \E x \in 1..MaxSessions : SessionEnds(x)
    \/ TimePasses

Spec == Init /\ [][Next]_vars

(* The controller is requeued until it has nothing to do.                  *)
FairSpec == Spec /\ WF_vars(Controller)

-----------------------------------------------------------------------------
(* A team that is over stays so: a start, a recovery or a completion that  *)
(* was under way when it ended does not bring it back.                     *)
OverIsOver == [][Exists /\ team.phase \in Terminal => team'.phase \in Terminal]_vars

(* Once a team has started, nobody who was accepted as a member is lost by *)
(* a concurrent write, and no restart is forgotten.                        *)
MembersKept ==
    [][Started => /\ Len(team'.members) >= Len(team.members)
                  /\ \A i \in DOMAIN team.members :
                        /\ team'.members[i].name = team.members[i].name
                        /\ team'.members[i].restarts >= team.members[i].restarts]_vars

(* However requests overlap, a team has no more members than there is room *)
(* for.                                                                    *)
MembersBounded ==
    \/ Len(team.members) <= Len(Static)
    \/ Len(Static) + Len(team.members) <= MaxTotal

(* What the comment of CheckAllComplete promises: completing all tasks ends *)
(* a team of the all-complete policy only.  Where the lead decides, a team *)
(* is not completed before its lead has said so.                           *)
LeadDecides ==
    team.at = "there" /\ team.policy = "lead-decides" /\ team.phase = "Completed" => decided

(* A deleted team gets rid of its finalizer in the end.                    *)
DeletedTeamVanishes == (team.at = "deleting") ~> (team.at = "gone")

(* A team that has exceeded its maxDuration does not run on.               *)
LateTeamEnds == (team.phase = "Running" /\ late) ~> (team.phase \in Terminal \/ ~Exists)
=============================================================================
