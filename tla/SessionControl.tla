--------------------------- MODULE SessionControl ---------------------------
(***************************************************************************)
(* The AgentSession records of one agent, written at once by REST requests *)
(* (commands), the session controller (commands carried out), the poller   *)
(* (what one pod reports, and the sweep of records nobody reports) and the *)
(* ASDP sinks (what every pod reports).                                    *)
(*                                                                         *)
(* REST requests read, change and write the object, and the API server     *)
(* refuses the write if the object changed in between.  All status writes  *)
(* read the object again on a conflict, so they replace the phase of       *)
(* whatever object there is: one step.  What they write was decided from   *)
(* an earlier read.                                                        *)
(***************************************************************************)
EXTENDS Integers, FiniteSets

CONSTANTS
    Sessions,     \* names of AgentSessions
    Pods,         \* ready pods of the agent
    Home,         \* Home[s]: the pod that holds session s
    Poller,       \* the poller's thread; every pod's ASDP stream has one too
    Handlers,     \* concurrent REST requests
    Levels,       \* contract levels the agent may have
    Reported,     \* phases in which pods report their sessions
    None

Threads == Pods \cup {Poller}
Commands == {"compress", "terminate"}
Phases == {"unset", "Active", "Idle", "Compressing", "Terminated"}
Reports == [session : Sessions, phase : Reported]

ASSUME SessionAssumption ==
    /\ IsFiniteSet(Sessions)
    /\ Home \in [Sessions -> Pods]
    /\ Poller \notin Pods
    /\ Levels \subseteq 0..3
    /\ Reported \subseteq Phases \ {"unset"}
    /\ None \notin Sessions \cup Pods

VARIABLES
    obj,     \* obj[s]: the AgentSession
    req,     \* req[h]: the command of request h and what it is to write
    queue,   \* the session controller's work queue
    ctl,     \* the session controller's progress
    batch,   \* batch[k]: reports that thread k has still to upsert
    cur,     \* cur[k]: the session whose record k has found or created
    poll,    \* the poller's progress
    active,  \* the Agent's status.activeSessions
    dp,      \* dp[s]: the session in the data plane: not yet, now, or never (again)
    level,   \* the Agent's contract level
    told     \* history: told[s], the commands accepted since s's record was created

vars == <<obj, req, queue, ctl, batch, cur, poll, active, dp, level, told>>

Object == [there : BOOLEAN, phase : Phases, commands : SUBSET Commands, old : BOOLEAN]
Absent == [there |-> FALSE, phase |-> "unset", commands |-> {}, old |-> FALSE]
Created == [there |-> TRUE, phase |-> "unset", commands |-> {}, old |-> FALSE]

Request == [session : Sessions \cup {None}, command : Commands, commands : SUBSET Commands]
IdleRequest == [session |-> None, command |-> "compress", commands |-> {}]

IdleCtl == [pc |-> "idle", session |-> None, command |-> "compress"]
IdlePoll == [pc |-> "idle", pod |-> None, seen |-> {}, created |-> {}, todo |-> {}, tally |-> 0]

Live(s) == dp[s] = "live"
Active == {s \in Sessions : obj[s].there /\ obj[s].phase # "Terminated"}

(* Every variable has its type: in particular only phases the API knows    *)
(* are written, and a busy controller has a session.                       *)
TypeOK ==
    /\ obj \in [Sessions -> Object]
    /\ req \in [Handlers -> Request]
    /\ queue \subseteq Sessions
    /\ ctl \in [pc : {"idle", "send", "write"}, session : Sessions \cup {None}, command : Commands]
    /\ ctl.pc # "idle" => ctl.session \in Sessions
    /\ batch \in [Threads -> SUBSET Reports]
    /\ cur \in [Threads -> Sessions \cup {None}]
    /\ poll \in [pc : {"idle", "sync", "sweep", "count"}, pod : Pods \cup {None},
                 seen : SUBSET Sessions, created : SUBSET Sessions, todo : SUBSET Sessions,
                 tally : Nat]
    /\ active \in Nat
    /\ dp \in [Sessions -> {"none", "live", "gone"}]
    /\ level \in Levels
    /\ told \in [Sessions -> SUBSET Commands]

Init ==
    /\ obj = [s \in Sessions |-> Absent]
    /\ req = [h \in Handlers |-> IdleRequest]
    /\ queue = {}
    /\ ctl = IdleCtl
    /\ batch = [k \in Threads |-> {}]
    /\ cur = [k \in Threads |-> None]
    /\ poll = IdlePoll
    /\ active = 0
    /\ dp = [s \in Sessions |-> "none"]
    /\ level \in Levels
    /\ told = [s \in Sessions |-> {}]

-----------------------------------------------------------------------------
(* The API server.                                                         *)

(* Mutant of Outdated: the update names no resourceVersion. *)
OutdatedNever(s, r) == r

(* s changes: the API server will refuse what a request makes of its older *)
(* copy, so nothing but its failure is left of the request.                *)
Outdated(s, r) == [h \in Handlers |-> IF r[h].session = s THEN IdleRequest ELSE r[h]]

(* The object becomes o; the watch puts it into the controller's queue.    *)
Write(s, o) ==
    /\ obj' = [obj EXCEPT ![s] = o]
    /\ queue' = queue \cup {s}

SetPhase(s, p) ==
    /\ obj[s].there
    /\ Write(s, [obj[s] EXCEPT !.phase = p])
    /\ req' = Outdated(s, req)

(* Sixty seconds pass.  A poll takes less than that from its probe to the  *)
(* end of its sweep (the probe times out after five).                      *)
Age(s) ==
    /\ obj[s].there
    /\ ~obj[s].old
    /\ s \notin poll.created
    /\ obj' = [obj EXCEPT ![s].old = TRUE]
    /\ UNCHANGED <<req, queue, ctl, batch, cur, poll, active, dp, level, told>>

-----------------------------------------------------------------------------
(* REST.                                                                   *)

(* History: an object created while a poll is under way. *)
NoteCreated(s) ==
    poll' = IF poll.pc = "idle" THEN poll ELSE [poll EXCEPT !.created = @ \cup {s}]

(* The API server generates the name: no pod has or will have this session.*)
createSession(s) ==
    /\ dp[s] = "none"
    /\ dp' = [dp EXCEPT ![s] = "gone"]
    /\ Write(s, Created)
    /\ NoteCreated(s)
    /\ UNCHANGED <<req, ctl, batch, cur, active, level, told>>

(* deleteSession, or the cleanup of a deleted Agent: the record only.      *)
deleteSession(s) ==
    /\ obj[s].there
    /\ Write(s, Absent)
    /\ req' = Outdated(s, req)
    /\ told' = [told EXCEPT ![s] = {}]
    /\ UNCHANGED <<ctl, batch, cur, poll, active, dp, level>>

(* compressSession and terminateSession read the session ...               *)
CommandRead(h, s, c) ==
    /\ req[h].session = None
    /\ obj[s].there
    /\ req' = [req EXCEPT ![h] = [session |-> s, command |-> c,
                                  commands |-> obj[s].commands \cup {c}]]
    /\ UNCHANGED <<obj, queue, ctl, batch, cur, poll, active, dp, level, told>>

(* ... and write it with the command added, if it has not changed.         *)
CommandWrite(h) ==
    LET s == req[h].session
    IN /\ s # None
       /\ Write(s, [obj[s] EXCEPT !.commands = req[h].commands])
       /\ told' = [told EXCEPT ![s] = @ \cup {req[h].command}]
       /\ req' = [Outdated(s, req) EXCEPT ![h] = IdleRequest]
       /\ UNCHANGED <<ctl, batch, cur, poll, active, dp, level>>

CommandFails(h) ==
    /\ req[h].session # None
    /\ req' = [req EXCEPT ![h] = IdleRequest]
    /\ UNCHANGED <<obj, queue, ctl, batch, cur, poll, active, dp, level, told>>

-----------------------------------------------------------------------------
(* The session controller: one thread, fed by its queue.                   *)

(* The command a reconciliation carries out: compress comes first, and a   *)
(* command is never cleared.                                               *)
Due(o) ==
    {c \in o.commands :
        \/ c = "compress" /\ o.phase # "Compressing"
        \/ /\ c = "terminate" /\ o.phase # "Terminated"
           /\ "compress" \in o.commands => o.phase = "Compressing"}

Reconcile(s) ==
    /\ ctl.pc = "idle"
    /\ s \in queue
    /\ queue' = queue \ {s}
    /\ \/ /\ obj[s].there
          /\ \E c \in Due(obj[s]) : ctl' = [pc |-> "send", session |-> s, command |-> c]
       \/ /\ obj[s].there => Due(obj[s]) = {}
          /\ UNCHANGED ctl
    /\ UNCHANGED <<obj, req, batch, cur, poll, active, dp, level, told>>

(* No data plane is found, it cannot be reached or refuses, or a status    *)
(* write fails: the session is queued again.                               *)
CtlFails ==
    /\ ctl.pc # "idle"
    /\ ctl' = IdleCtl
    /\ queue' = queue \cup {ctl.session}
    /\ UNCHANGED <<obj, req, batch, cur, poll, active, dp, level, told>>

(* The contract level is too low: a condition with a new timestamp is set. *)
Unsupported ==
    /\ ctl.pc = "send"
    /\ level < 3
    /\ SetPhase(ctl.session, obj[ctl.session].phase)
    /\ ctl' = IdleCtl
    /\ UNCHANGED <<batch, cur, poll, active, dp, level, told>>

(* Some ready pod gets the command; the session ends if it is terminated   *)
(* and the pod has it.  (What another pod answers is up to the data plane.)*)
Deliver(p) ==
    dp' = IF Home[ctl.session] = p /\ ctl.command = "terminate" /\ Live(ctl.session)
          THEN [dp EXCEPT ![ctl.session] = "gone"] ELSE dp

Dispatch(p) ==
    /\ ctl.pc = "send"
    /\ level >= 3
    /\ Deliver(p)
    /\ ctl' = [ctl EXCEPT !.pc = "write"]
    /\ UNCHANGED <<obj, req, queue, batch, cur, poll, active, level, told>>

(* The pod got the command but its answer did not come in time.            *)
DispatchTimesOut(p) ==
    /\ ctl.pc = "send"
    /\ level >= 3
    /\ Deliver(p)
    /\ ctl' = IdleCtl
    /\ queue' = queue \cup {ctl.session}
    /\ UNCHANGED <<obj, req, batch, cur, poll, active, level, told>>

(* Mutant of CtlWrite: the phase is named after the command. *)
CtlWriteCommand ==
    /\ ctl.pc = "write"
    /\ SetPhase(ctl.session, ctl.command)
    /\ ctl' = IdleCtl
    /\ UNCHANGED <<batch, cur, poll, active, dp, level, told>>

(* The phase that says the command was sent. *)
CtlWrite ==
    /\ ctl.pc = "write"
    /\ SetPhase(ctl.session, IF ctl.command = "compress" THEN "Compressing" ELSE "Terminated")
    /\ ctl' = IdleCtl
    /\ UNCHANGED <<batch, cur, poll, active, dp, level, told>>

-----------------------------------------------------------------------------
(* Reports.                                                                *)

Held(p) == {s \in Sessions : Live(s) /\ Home[s] = p}
ReportsOf(p, r) == {[session |-> s, phase |-> r[s]] : s \in Held(p)}

Busy(k) == batch[k] # {} \/ cur[k] # None

(* The stream of pod p carries a report.  Its handler upserts the reports  *)
(* one by one before it receives the next message.                         *)
ApplySessionReport(p) ==
    /\ ~Busy(p)
    /\ Held(p) # {}
    /\ \E r \in [Held(p) -> Reported] : batch' = [batch EXCEPT ![p] = ReportsOf(p, r)]
    /\ UNCHANGED <<obj, req, queue, ctl, cur, poll, active, dp, level, told>>

(* upsertObservedSession: get or create the record ...                     *)
UpsertGet(k, s) ==
    /\ cur[k] = None
    /\ \E b \in batch[k] : b.session = s
    /\ cur' = [cur EXCEPT ![k] = s]
    /\ IF obj[s].there THEN UNCHANGED <<obj, queue, poll>>
                       ELSE Write(s, Created) /\ NoteCreated(s)
    /\ UNCHANGED <<req, ctl, batch, active, dp, level, told>>

Upserted(k, s) ==
    /\ batch' = [batch EXCEPT ![k] = {b \in @ : b.session # s}]
    /\ cur' = [cur EXCEPT ![k] = None]

(* ... and replace its phase by the reported one, whatever it is by now.   *)
UpsertStatus(k) ==
    /\ cur[k] # None
    /\ \E b \in batch[k] : b.session = cur[k] /\ SetPhase(cur[k], b.phase)
    /\ Upserted(k, cur[k])
    /\ UNCHANGED <<ctl, poll, active, dp, level, told>>

(* An error in either step is logged, and the next report is upserted.     *)
UpsertFails(k, s) ==
    /\ \E b \in batch[k] : b.session = s
    /\ cur[k] \in {None, s}
    /\ Upserted(k, s)
    /\ UNCHANGED <<obj, req, queue, ctl, poll, active, dp, level, told>>

-----------------------------------------------------------------------------
(* The poller.                                                             *)

(* Ask one ready pod for its sessions.  With a failed probe, or a contract *)
(* level under 2, the poll ends here.                                      *)
ProbeSessions(p) ==
    /\ poll.pc = "idle"
    /\ level >= 2
    /\ \E r \in [Held(p) -> Reported] : batch' = [batch EXCEPT ![Poller] = ReportsOf(p, r)]
    /\ poll' = [IdlePoll EXCEPT !.pc = "sync", !.pod = p, !.seen = Held(p)]
    /\ UNCHANGED <<obj, req, queue, ctl, cur, active, dp, level, told>>

(* Mutant of ListOrphans: no grace for new records. *)
ListAllOrphans ==
    /\ poll.pc = "sync"
    /\ ~Busy(Poller)
    /\ poll' = [poll EXCEPT !.pc = "sweep", !.todo = Active \ poll.seen]
    /\ UNCHANGED <<obj, req, queue, ctl, batch, cur, active, dp, level, told>>

(* Mutant of ListOrphans: an empty answer is taken for an error. *)
ListOrphansIfAny ==
    /\ poll.pc = "sync"
    /\ ~Busy(Poller)
    /\ poll' = [poll EXCEPT !.pc = "sweep",
                !.todo = IF poll.seen = {} THEN {} ELSE {s \in Active \ poll.seen : obj[s].old}]
    /\ UNCHANGED <<obj, req, queue, ctl, batch, cur, active, dp, level, told>>

(* List the records that the pod did not report, except new ones.          *)
ListOrphans ==
    /\ poll.pc = "sync"
    /\ ~Busy(Poller)
    /\ poll' = [poll EXCEPT !.pc = "sweep", !.todo = {s \in Active \ poll.seen : obj[s].old}]
    /\ UNCHANGED <<obj, req, queue, ctl, batch, cur, active, dp, level, told>>

(* markOrphanedSessions, one record.  The first failure ends the sweep.    *)
MarkOrphan(s) ==
    /\ s \in poll.todo
    /\ SetPhase(s, "Terminated")
    /\ poll' = [poll EXCEPT !.todo = @ \ {s}]
    /\ UNCHANGED <<ctl, batch, cur, active, dp, level, told>>

MarkFails ==
    /\ poll.todo # {}
    /\ poll' = [poll EXCEPT !.todo = {}]
    /\ UNCHANGED <<obj, req, queue, ctl, batch, cur, active, dp, level, told>>

(* Mutant of CountActiveSessions: terminated records are counted. *)
CountAllSessions ==
    /\ poll.pc = "sweep"
    /\ poll.todo = {}
    /\ poll' = [IdlePoll EXCEPT !.pc = "count", !.tally = Cardinality({s \in Sessions : obj[s].there})]
    /\ UNCHANGED <<obj, req, queue, ctl, batch, cur, active, dp, level, told>>

CountActiveSessions ==
    /\ poll.pc = "sweep"
    /\ poll.todo = {}
    /\ poll' = [IdlePoll EXCEPT !.pc = "count", !.tally = Cardinality(Active)]
    /\ UNCHANGED <<obj, req, queue, ctl, batch, cur, active, dp, level, told>>

(* updateAgentSessionCount, which may fail; the poll is over.              *)
UpdateCount ==
    /\ poll.pc = "count"
    /\ active' = poll.tally
    /\ poll' = IdlePoll
    /\ UNCHANGED <<obj, req, queue, ctl, batch, cur, dp, level, told>>

UpdateCountFails ==
    /\ poll.pc = "count"
    /\ poll' = IdlePoll
    /\ UNCHANGED <<obj, req, queue, ctl, batch, cur, active, dp, level, told>>

-----------------------------------------------------------------------------
(* The data plane: sessions start, each with an ID of its own, and end by  *)
(* themselves.                                                             *)
Start(s) ==
    /\ dp[s] = "none"
    /\ dp' = [dp EXCEPT ![s] = "live"]
    /\ UNCHANGED <<obj, req, queue, ctl, batch, cur, poll, active, level, told>>

End(s) ==
    /\ Live(s)
    /\ dp' = [dp EXCEPT ![s] = "gone"]
    /\ UNCHANGED <<obj, req, queue, ctl, batch, cur, poll, active, level, told>>

UpsertStep(k) ==
    \/ \E s \in Sessions : UpsertGet(k, s) \/ UpsertFails(k, s)
    \/ UpsertStatus(k)

PollStep ==
    \/ \E p \in Pods : ProbeSessions(p)
    \/ ListOrphans
    \/ \E s \in Sessions : MarkOrphan(s)
    \/ MarkFails
    \/ CountActiveSessions
    \/ UpdateCount
    \/ UpdateCountFails

Next ==
    \/ \E h \in Handlers :
        \/ \E s \in Sessions, c \in Commands : CommandRead(h, s, c)
        \/ CommandWrite(h)
        \/ CommandFails(h)
    \/ \E s \in Sessions :
        \/ createSession(s)
        \/ deleteSession(s)
        \/ Age(s)
        \/ Reconcile(s)
        \/ Start(s)
        \/ End(s)
    \/ \E p \in Pods : Dispatch(p) \/ DispatchTimesOut(p) \/ ApplySessionReport(p)
    \/ \E k \in Threads : UpsertStep(k)
    \/ CtlFails
    \/ Unsupported
    \/ CtlWrite
    \/ PollStep

Spec == Init /\ [][Next]_vars

(* Fairness.  The poller is queued again every 15 seconds and the          *)
(* controller retries what failed; a write that is retried for ever gets   *)
(* through in the end.  Nothing is assumed of requests, reports or of the  *)
(* life of sessions, nor of any command reaching its pod.                  *)
Fairness ==
    /\ \A s \in Sessions : WF_vars(Reconcile(s)) /\ WF_vars(Age(s)) /\ SF_vars(MarkOrphan(s))
    /\ WF_vars(CtlFails \/ CtlWrite \/ Unsupported \/ \E p \in Pods : Dispatch(p))
    /\ \A k \in Threads : WF_vars(UpsertStep(k))
    /\ WF_vars(PollStep)
    /\ SF_vars(UpdateCount)

FairSpec == Spec /\ Fairness

-----------------------------------------------------------------------------
(* Correctness.                                                            *)

(* A command that a request was told is initiated stays on the record, and *)
(* with it for the controller to carry out, whichever other requests and   *)
(* status writes raced with it.                                            *)
CommandsKept == \A s \in Sessions : told[s] \subseteq obj[s].commands

(* The sweep spares what the polled pod holds, though a session may have   *)
(* started and been recorded by its ASDP report after the pod answered.    *)
SweepSpares ==
    [][\A s \in Sessions :
         s \in poll.todo /\ obj'[s].phase = "Terminated" /\ obj'[s] # obj[s] /\ poll'.todo = poll.todo \ {s}
            => ~(Live(s) /\ Home[s] = poll.pod)]_vars

(* The record of a session the data plane no longer has ends up Terminated *)
(* and stays so, whatever reports were still under way, as long as no      *)
(* compress command keeps the controller going back and forth.             *)
EndedIsTerminated ==
    \A s \in Sessions :
        <>[](level >= 2 /\ obj[s].there /\ ~Live(s) /\ "compress" \notin obj[s].commands)
            => <>[](obj[s].phase = "Terminated")

(* Once the number of sessions that are not terminated settles, the        *)
(* Agent's activeSessions settles on it.                                   *)
CountSettles ==
    \A n \in 0..Cardinality(Sessions) :
        <>[](level >= 2 /\ Cardinality(Active) = n) => <>[](active = n)
=============================================================================
