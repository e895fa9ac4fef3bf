----------------------------- MODULE TaskStore -----------------------------
(***************************************************************************)
(* The tasks of one team, kept as TeamTask objects by K8sTaskStore and     *)
(* used at once by REST handlers, team-event sinks and the rescheduling of *)
(* failed members, on any number of replicas.                              *)
(*                                                                         *)
(* Every operation gets the object, changes its status locally and writes  *)
(* it back; the API server refuses the write when the resourceVersion is   *)
(* no longer current.  A read from a lagging cache is a read made earlier. *)
(***************************************************************************)
EXTENDS Integers, FiniteSets

CONSTANTS
    Tasks,       \* names the API server generates
    Members,     \* team members that claim tasks
    Handlers,    \* goroutines that use the store
    MaxVersion,  \* bound on an object's resourceVersion, so that runs are finite
    None         \* no task; as an owner, the empty name

ASSUME TaskAssumption ==
    /\ MaxVersion \in Nat \ {0}
    /\ None \notin Members

VARIABLES
    tasks,   \* tasks[t]: the object
    req,     \* req[h]: the operation of handler h and the object it read
    todo,    \* todo[h]: tasks that the rescheduling run by h still has to unclaim
    told     \* history: told[t], the names whose claim of t succeeded since it was last released

vars == <<tasks, req, todo, told>>

Present == {"new", "pending", "in_progress", "completed"}

(* Whoever claims names itself, and nobody checks that the name is of a    *)
(* member or that there is one: a task may be in progress with no owner.   *)
Claimants == Members \cup {None}

Object == [state : Present \cup {"absent", "gone"}, owner : Claimants,
           version : 0..MaxVersion]
Obj(s, m, v) == [state |-> s, owner |-> m, version |-> v]

Ops == {"idle", "create", "claim", "complete", "unclaim"}
Request == [op : Ops, task : Tasks \cup {None}, member : Claimants, read : Object]
Idle == [op |-> "idle", task |-> None, member |-> None, read |-> Obj("absent", None, 0)]
Call(o, t, m, obj) == [op |-> o, task |-> t, member |-> m, read |-> obj]

(* Every variable has its type, and a handler holds an object it read.     *)
TypeOK ==
    /\ tasks \in [Tasks -> Object]
    /\ req \in [Handlers -> Request]
    /\ \A h \in Handlers : req[h].op # "idle" => req[h].task \in Tasks
    /\ todo \in [Handlers -> SUBSET Tasks]
    /\ told \in [Tasks -> SUBSET Claimants]

Init ==
    /\ tasks = [t \in Tasks |-> Obj("absent", None, 0)]
    /\ req = [h \in Handlers |-> Idle]
    /\ todo = [h \in Handlers |-> {}]
    /\ told = [t \in Tasks |-> {}]

-----------------------------------------------------------------------------
(* The API server.                                                         *)

(* Status().Update of what h read, as state s owned by m.  A write that    *)
(* changes nothing keeps the resourceVersion.                              *)
WriteAnyway(h, s, m) ==
    LET t   == req[h].task
        old == tasks[t]
        v   == IF old.state = s /\ old.owner = m THEN old.version ELSE old.version + 1
    IN /\ old.state \in Present
       /\ v <= MaxVersion
       /\ tasks' = [tasks EXCEPT ![t] = Obj(s, m, v)]

UpdateStatus(h, s, m) ==
    LET t   == req[h].task
        old == tasks[t]
        v   == IF old.state = s /\ old.owner = m THEN old.version ELSE old.version + 1
    IN /\ old.state \in Present
       /\ old.version = req[h].read.version
       /\ v <= MaxVersion
       /\ tasks' = [tasks EXCEPT ![t] = Obj(s, m, v)]

Start(h, o, t, m, obj) == req' = [req EXCEPT ![h] = Call(o, t, m, obj)]
Done(h) == req' = [req EXCEPT ![h] = Idle]

Free(h) == req[h].op = "idle" /\ todo[h] = {}

-----------------------------------------------------------------------------
(* The operations.                                                         *)

(* Create stores the object; its status is empty.                          *)
Create(h, t) ==
    LET obj == Obj("new", None, 1)
    IN /\ Free(h)
       /\ tasks[t].state = "absent"
       /\ tasks' = [tasks EXCEPT ![t] = obj]
       /\ Start(h, "create", t, None, obj)
       /\ UNCHANGED <<todo, told>>

(* ... and then sets it to pending.                                        *)
CreatePending(h) ==
    /\ req[h].op = "create"
    /\ UpdateStatus(h, "pending", req[h].read.owner)
    /\ Done(h)
    /\ UNCHANGED <<todo, told>>

(* Mutant of Claim: the state of the task is not looked at. *)
ClaimAny(h, t, m) ==
    /\ Free(h)
    /\ tasks[t].state \in Present
    /\ Start(h, "claim", t, m, tasks[t])
    /\ UNCHANGED <<tasks, todo, told>>

(* Claim refuses a task that is not pending.  It looks neither at what     *)
(* blocks the task nor at the caller's expected version.                   *)
Claim(h, t, m) ==
    /\ Free(h)
    /\ tasks[t].state = "pending"
    /\ Start(h, "claim", t, m, tasks[t])
    /\ UNCHANGED <<tasks, todo, told>>

(* Mutant of ClaimWrite: the write carries no resourceVersion. *)
ClaimWriteAnyway(h) ==
    LET t == req[h].task
    IN /\ req[h].op = "claim"
       /\ WriteAnyway(h, "in_progress", req[h].member)
       /\ told' = [told EXCEPT ![t] = @ \cup {req[h].member}]
       /\ Done(h)
       /\ UNCHANGED todo

ClaimWrite(h) ==
    LET t == req[h].task
    IN /\ req[h].op = "claim"
       /\ UpdateStatus(h, "in_progress", req[h].member)
       /\ told' = [told EXCEPT ![t] = @ \cup {req[h].member}]
       /\ Done(h)
       /\ UNCHANGED todo

(* Complete accepts a task in any state and keeps its owner.               *)
Complete(h, t) ==
    /\ Free(h)
    /\ tasks[t].state \in Present
    /\ Start(h, "complete", t, None, tasks[t])
    /\ UNCHANGED <<tasks, todo, told>>

CompleteWrite(h) ==
    /\ req[h].op = "complete"
    /\ UpdateStatus(h, "completed", req[h].read.owner)
    /\ Done(h)
    /\ UNCHANGED <<todo, told>>

(* reschedMember lists the tasks that member m has in progress, to unclaim *)
(* them one by one.                                                        *)
reschedMember(h, m) ==
    LET interrupted == {t \in Tasks : tasks[t].state = "in_progress" /\ tasks[t].owner = m}
    IN /\ Free(h)
       /\ interrupted # {}
       /\ todo' = [todo EXCEPT ![h] = interrupted]
       /\ UNCHANGED <<tasks, req, told>>

(* Unclaim gets the task again; its state does not matter.                 *)
Unclaim(h, t) ==
    /\ req[h].op = "idle"
    /\ t \in todo[h]
    /\ todo' = [todo EXCEPT ![h] = @ \ {t}]
    /\ IF tasks[t].state \in Present THEN Start(h, "unclaim", t, None, tasks[t])
                                     ELSE UNCHANGED req
    /\ UNCHANGED <<tasks, told>>

UnclaimWrite(h) ==
    /\ req[h].op = "unclaim"
    /\ UpdateStatus(h, "pending", None)
    /\ told' = [told EXCEPT ![req[h].task] = {}]
    /\ Done(h)
    /\ UNCHANGED todo

(* A write fails: on a conflict, on a deleted task, or otherwise.  The     *)
(* error of creating's second write and of an Unclaim is ignored, the      *)
(* others end the request.                                                 *)
WriteFails(h) ==
    /\ req[h].op # "idle"
    /\ Done(h)
    /\ UNCHANGED <<tasks, todo, told>>

(* The replica dies in the middle of an operation or a rescheduling.       *)
Crash(h) ==
    /\ ~Free(h)
    /\ Done(h)
    /\ todo' = [todo EXCEPT ![h] = {}]
    /\ UNCHANGED <<tasks, told>>

(* DeleteTeam, or the garbage collection of a deleted team, removes the    *)
(* tasks one by one.                                                       *)
DeleteTask(t) ==
    /\ tasks[t].state \in Present
    /\ tasks' = [tasks EXCEPT ![t] = Obj("gone", None, 0)]
    /\ told' = [told EXCEPT ![t] = {}]
    /\ UNCHANGED <<req, todo>>

Next ==
    \/ \E h \in Handlers :
        \/ \E t \in Tasks :
            \/ Create(h, t)
            \/ \E m \in Claimants : Claim(h, t, m)
            \/ Complete(h, t)
            \/ Unclaim(h, t)
        \/ \E m \in Members : reschedMember(h, m)
        \/ CreatePending(h)
        \/ ClaimWrite(h)
        \/ CompleteWrite(h)
        \/ UnclaimWrite(h)
        \/ WriteFails(h)
        \/ Crash(h)
    \/ \E t \in Tasks : DeleteTask(t)

Spec == Init /\ [][Next]_vars

-----------------------------------------------------------------------------
(* Correctness.                                                            *)

(* docs/zh/experimental/teams-and-sandbox.md: claims resolve conflicts by  *)
(* resourceVersion.  Who was told to have the task is its owner until the  *)
(* task is released, so no two are told so, the nameless included.         *)
OneWinner ==
    \A t \in Tasks : tasks[t].state \in Present => told[t] \subseteq {tasks[t].owner}

(* Get, change and conditional update amount to atomic operations: the     *)
(* store implements the board.                                             *)
Board == INSTANCE TaskBoard WITH state <- [t \in Tasks |-> tasks[t].state],
                                 owner <- [t \in Tasks |-> tasks[t].owner]

ImplementsBoard == Board!BoardSpec
=============================================================================
