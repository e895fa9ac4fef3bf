-------------------------- MODULE TaskStoreProofs --------------------------
(***************************************************************************)
(* Proofs about the task store, for any number of tasks, members and       *)
(* handlers: types, claims and the implementation of the board.            *)
(***************************************************************************)
EXTENDS TaskStore, TLAPS

USE DEF Claimants

(* What handler h read is still what the object holds, or the object has   *)
(* a newer version, or it is gone for good.                                *)
ReadFits(h) ==
    LET t   == req[h].task
        old == req[h].read
    IN req[h].op # "idle" =>
        /\ tasks[t].state # "absent"
        /\ tasks[t].state \in Present => old.version <= tasks[t].version
        /\ tasks[t].state \in Present /\ tasks[t].version = old.version => tasks[t] = old
        /\ req[h].op = "claim" => old.state = "pending"
        /\ req[h].op = "create" => old.state = "new" /\ old.owner = None

(* Nobody was told to have a task that is not claimed, or not there. *)
NotToldYet ==
    \A t \in Tasks : tasks[t].state \notin {"in_progress", "completed"} => told[t] = {}

(* A task that can be claimed, or is about to be, is nobody's. *)
ClaimableIsFree == \A t \in Tasks : tasks[t].state \in {"new", "pending"} => tasks[t].owner = None

(* The inductive invariant. *)
TaskInv ==
    /\ TypeOK
    /\ NotToldYet
    /\ OneWinner
    /\ ClaimableIsFree
    /\ \A h \in Handlers : ReadFits(h)

(* Objects and requests are records of the right shape. *)
LEMMA ObjectFields ==
  ASSUME NEW o \in Object
  PROVE  /\ o.state \in Present \cup {"absent", "gone"}
         /\ o.owner \in Claimants
         /\ o.version \in 0..MaxVersion
         /\ o = Obj(o.state, o.owner, o.version)
BY DEF Object, Obj

(* Building an object. *)
LEMMA ObjType ==
  ASSUME NEW s \in Present \cup {"absent", "gone"}, NEW m \in Claimants,
         NEW v \in 0..MaxVersion
  PROVE  /\ Obj(s, m, v) \in Object
         /\ Obj(s, m, v).state = s /\ Obj(s, m, v).owner = m /\ Obj(s, m, v).version = v
BY DEF Object, Obj

(* What is left of a deleted object. *)
LEMMA GoneType ==
  /\ Obj("gone", None, 0) \in Object
  /\ Obj("gone", None, 0).state = "gone"
  /\ Obj("gone", None, 0).owner = None
<1>1. 0 \in 0..MaxVersion
  BY TaskAssumption
<1>2. QED
  BY <1>1 DEF Obj, Object

(* The idle request. *)
LEMMA IdleType == Idle \in Request /\ Idle.op = "idle"
<1>1. Obj("absent", None, 0) \in Object
  BY ObjType, TaskAssumption
<1>2. QED
  BY <1>1 DEF Idle, Request, Ops

(* The fields of a call. *)
LEMMA CallType ==
  ASSUME NEW o \in Ops, NEW t \in Tasks, NEW m \in Claimants, NEW obj \in Object
  PROVE  /\ Call(o, t, m, obj) \in Request
         /\ Call(o, t, m, obj).op = o /\ Call(o, t, m, obj).task = t
         /\ Call(o, t, m, obj).member = m /\ Call(o, t, m, obj).read = obj
BY DEF Call, Request

(* The invariant holds initially. *)
LEMMA TaskInit == Init => TaskInv
<1> SUFFICES ASSUME Init PROVE TaskInv
  OBVIOUS
<1>1. Obj("absent", None, 0) \in Object /\ Obj("absent", None, 0).state = "absent"
  BY ObjType, TaskAssumption
<1>2. TypeOK
  BY <1>1, IdleType DEF Init, TypeOK
<1>3. OneWinner /\ ClaimableIsFree /\ NotToldYet
  BY <1>1 DEF Init, OneWinner, ClaimableIsFree, NotToldYet, Present
<1>4. \A h \in Handlers : ReadFits(h)
  BY IdleType DEF Init, ReadFits
<1>5. QED
  BY <1>2, <1>3, <1>4 DEF TaskInv

(* Replacing an object by a newer one, by itself or by a deleted one keeps *)
(* every read made before in order.                                        *)
LEMMA OthersFit ==
  ASSUME TaskInv, NEW t \in Tasks, NEW o \in Object, tasks' = [tasks EXCEPT ![t] = o],
         tasks[t].state # "absent",
         o.state # "absent",
         o = tasks[t] \/ o.state = "gone" \/ (tasks[t].state \in Present /\ o.version > tasks[t].version),
         NEW g \in Handlers, req'[g] = req[g]
  PROVE  ReadFits(g)'
<1>1. CASE req[g].op = "idle"
  BY <1>1 DEF ReadFits
<1>2. CASE req[g].op # "idle" /\ req[g].task # t
  <2>1. tasks'[req[g].task] = tasks[req[g].task] /\ ReadFits(g)
    BY <1>2 DEF TaskInv, TypeOK
  <2>2. QED
    BY <2>1 DEF ReadFits
<1>3. CASE req[g].op # "idle" /\ req[g].task = t
  <2>1. tasks'[t] = o /\ ReadFits(g)
    BY DEF TaskInv, TypeOK
  <2>2. req[g].read.version \in Int /\ tasks[t].version \in Int /\ o.version \in Int
    <3>1. req[g].read \in Object /\ tasks[t] \in Object
      BY DEF TaskInv, TypeOK, Request
    <3>2. QED
      BY <3>1, ObjectFields
  <2>3. CASE o = tasks[t]
    BY <1>3, <2>1, <2>3 DEF ReadFits
  <2>4. CASE o.state = "gone"
    BY <1>3, <2>1, <2>4 DEF ReadFits, Present
  <2>5. CASE tasks[t].state \in Present /\ o.version > tasks[t].version
    BY <1>3, <2>1, <2>2, <2>5 DEF ReadFits
  <2>6. QED
    BY <2>3, <2>4, <2>5
<1>4. QED
  BY <1>1, <1>2, <1>3

(* A handler that only reads: tasks and told stay. *)
LEMMA ReadStep ==
  ASSUME TaskInv, NEW h \in Handlers, NEW r \in Request, req' = [req EXCEPT ![h] = r],
         r.op # "idle" => r.task \in Tasks,
         UNCHANGED <<tasks, told>>, todo' \in [Handlers -> SUBSET Tasks],
         ReadFits(h)'
  PROVE  TaskInv'
<1>1. TypeOK'
  BY DEF TaskInv, TypeOK
<1>2. OneWinner' /\ ClaimableIsFree' /\ NotToldYet'
  BY DEF TaskInv, OneWinner, ClaimableIsFree, NotToldYet
<1>3. ASSUME NEW g \in Handlers PROVE ReadFits(g)'
  <2>1. CASE g = h
    BY <2>1
  <2>2. CASE g # h
    <3>1. req'[g] = req[g] /\ ReadFits(g)
      BY <2>2 DEF TaskInv, TypeOK
    <3>2. QED
      BY <3>1 DEF ReadFits
  <2>3. QED
    BY <2>1, <2>2
<1>4. QED
  BY <1>1, <1>2, <1>3 DEF TaskInv

(* A step that changes nothing but todo. *)
LEMMA TodoStep ==
  ASSUME TaskInv, UNCHANGED <<tasks, req, told>>, todo' \in [Handlers -> SUBSET Tasks]
  PROVE  TaskInv'
<1>1. TypeOK' /\ OneWinner' /\ ClaimableIsFree' /\ NotToldYet'
  BY DEF TaskInv, TypeOK, OneWinner, ClaimableIsFree, NotToldYet
<1>2. \A h \in Handlers : ReadFits(h)'
  BY DEF TaskInv, ReadFits
<1>3. QED
  BY <1>1, <1>2 DEF TaskInv

(* A handler that starts an operation on what the store holds now. *)
LEMMA StartStep ==
  ASSUME TaskInv, NEW h \in Handlers, NEW o \in Ops, NEW t \in Tasks,
         NEW m \in Claimants, Start(h, o, t, m, tasks[t]),
         tasks[t].state \in Present, o # "create",
         o = "claim" => tasks[t].state = "pending",
         UNCHANGED <<tasks, told>>, todo' \in [Handlers -> SUBSET Tasks]
  PROVE  TaskInv'
<1> DEFINE r == Call(o, t, m, tasks[t])
<1>1. tasks[t] \in Object
  BY DEF TaskInv, TypeOK
<1>2. r \in Request /\ r.op = o /\ r.task = t /\ r.member = m /\ r.read = tasks[t]
  BY <1>1, CallType
<1>3. req' = [req EXCEPT ![h] = r]
  BY DEF Start
<1> HIDE DEF r
<1>4. req'[h] = r
  BY <1>3 DEF TaskInv, TypeOK
<1>5. tasks[t].version \in Int
  BY <1>1, ObjectFields
<1>6. ReadFits(h)'
  BY <1>2, <1>4, <1>5 DEF ReadFits, Present
<1>7. QED
  BY <1>2, <1>3, <1>6, ReadStep

(* A handler that gives up. *)
LEMMA DoneStep ==
  ASSUME TaskInv, NEW h \in Handlers, Done(h), UNCHANGED <<tasks, told>>,
         todo' \in [Handlers -> SUBSET Tasks]
  PROVE  TaskInv'
<1>1. req' = [req EXCEPT ![h] = Idle] /\ req'[h] = Idle
  BY DEF Done, TaskInv, TypeOK
<1>2. ReadFits(h)'
  BY <1>1, IdleType DEF ReadFits
<1>3. QED
  BY <1>1, <1>2, IdleType, ReadStep

(* What UpdateStatus writes: the object the handler read, as state s of m. *)
LEMMA UpdateFacts ==
  ASSUME TaskInv, NEW h \in Handlers, req[h].op # "idle",
         NEW s \in Present, NEW m \in Claimants, UpdateStatus(h, s, m)
  PROVE  /\ req[h].task \in Tasks
         /\ tasks[req[h].task].state \in Present
         /\ tasks[req[h].task] = req[h].read
         /\ \E o \in Object :
              /\ o.state = s /\ o.owner = m
              /\ tasks' = [tasks EXCEPT ![req[h].task] = o]
              /\ tasks'[req[h].task] = o
              /\ o = tasks[req[h].task] \/ o.version > tasks[req[h].task].version
<1> DEFINE t == req[h].task
           old == tasks[t]
           v == IF old.state = s /\ old.owner = m THEN old.version ELSE old.version + 1
           o == Obj(s, m, v)
<1>1. t \in Tasks /\ old \in Object
  BY DEF TaskInv, TypeOK
<1>2. /\ old.state \in Present /\ old.version = req[h].read.version
      /\ v <= MaxVersion /\ tasks' = [tasks EXCEPT ![t] = o]
  BY DEF UpdateStatus
<1>3. old = req[h].read
  BY <1>2 DEF TaskInv, ReadFits
<1>4. v \in 0..MaxVersion
  <2>1. old.version \in 0..MaxVersion
    BY <1>1, ObjectFields
  <2>2. QED
    BY <1>2, <2>1, TaskAssumption
<1> HIDE DEF v
<1>5. o \in Object /\ o.state = s /\ o.owner = m /\ o.version = v
  BY <1>4, ObjType
<1>6. tasks'[t] = o
  BY <1>1, <1>2 DEF TaskInv, TypeOK
<1>7. o = old \/ o.version > old.version
  <2>1. old = Obj(old.state, old.owner, old.version) /\ old.version \in Int
    BY <1>1, ObjectFields
  <2>2. CASE old.state = s /\ old.owner = m
    BY <2>1, <2>2 DEF v
  <2>3. CASE ~(old.state = s /\ old.owner = m)
    BY <1>5, <2>1, <2>3 DEF v
  <2>4. QED
    BY <2>2, <2>3
<1> HIDE DEF o
<1>8. QED
  BY <1>1, <1>2, <1>3, <1>5, <1>6, <1>7

(* A handler that writes: state s of member m, told accordingly. *)
LEMMA WriteStep ==
  ASSUME TaskInv, NEW h \in Handlers, req[h].op # "idle",
         NEW s \in Present, NEW m \in Claimants, UpdateStatus(h, s, m),
         Done(h), UNCHANGED todo,
         told' \in [Tasks -> SUBSET Claimants],
         \A t \in Tasks : t # req[h].task => told'[t] = told[t],
         told'[req[h].task] \subseteq {m},
         s \in {"new", "pending"} => m = None,
         s \notin {"in_progress", "completed"} => told'[req[h].task] = {}
  PROVE  TaskInv'
<1> DEFINE t == req[h].task
<1>1. t \in Tasks /\ tasks[t].state \in Present /\ tasks[t].state # "absent"
  BY UpdateFacts DEF Present
<1>2. PICK o \in Object :
        /\ o.state = s /\ o.owner = m
        /\ tasks' = [tasks EXCEPT ![t] = o]
        /\ tasks'[t] = o
        /\ o = tasks[t] \/ o.version > tasks[t].version
  BY UpdateFacts
<1>3. req' = [req EXCEPT ![h] = Idle] /\ req'[h] = Idle
  BY DEF Done, TaskInv, TypeOK
<1>4. TypeOK'
  BY <1>1, <1>2, <1>3, IdleType DEF TaskInv, TypeOK
<1>5. \A u \in Tasks : u # t => tasks'[u] = tasks[u]
  BY <1>2 DEF TaskInv, TypeOK
<1>6. OneWinner'
  BY <1>2, <1>5 DEF TaskInv, OneWinner
<1>7. ClaimableIsFree'
  BY <1>2, <1>5 DEF TaskInv, ClaimableIsFree
<1>7a. NotToldYet'
  BY <1>2, <1>5 DEF TaskInv, NotToldYet
<1>8. ASSUME NEW g \in Handlers PROVE ReadFits(g)'
  <2>1. CASE g = h
    BY <1>3, <2>1, IdleType DEF ReadFits
  <2>2. CASE g # h
    <3>1. req'[g] = req[g]
      BY <1>3, <2>2 DEF TaskInv, TypeOK
    <3>2. o.state # "absent"
      BY <1>2 DEF Present
    <3>3. QED
      BY <1>1, <1>2, <3>1, <3>2, OthersFit
  <2>3. QED
    BY <2>1, <2>2
<1>9. QED
  BY <1>4, <1>6, <1>7, <1>7a, <1>8 DEF TaskInv

-----------------------------------------------------------------------------
(* One step per action.                                                    *)

(* Creating a task that nobody can have read yet. *)
LEMMA CreateStep ==
  ASSUME TaskInv, NEW h \in Handlers, NEW t \in Tasks, Create(h, t)
  PROVE  TaskInv'
<1> DEFINE obj == Obj("new", None, 1)
           r == Call("create", t, None, obj)
<1>1. obj \in Object /\ obj.state = "new" /\ obj.owner = None /\ obj.version = 1
  BY ObjType, TaskAssumption DEF Present
<1>2. r \in Request /\ r.op = "create" /\ r.task = t /\ r.read = obj
  BY <1>1, CallType DEF Ops
<1>3. tasks' = [tasks EXCEPT ![t] = obj] /\ req' = [req EXCEPT ![h] = r] /\ UNCHANGED <<todo, told>>
  BY DEF Create, Start
<1> HIDE DEF obj, r
<1>4. tasks'[t] = obj /\ req'[h] = r /\ \A u \in Tasks : u # t => tasks'[u] = tasks[u]
  BY <1>3 DEF TaskInv, TypeOK
<1>5. TypeOK'
  BY <1>1, <1>2, <1>3 DEF TaskInv, TypeOK
<1>6. ClaimableIsFree'
  BY <1>1, <1>4 DEF TaskInv, ClaimableIsFree
<1>6a. told[t] = {}
  BY DEF TaskInv, NotToldYet, Create
<1>7. OneWinner'
  BY <1>3, <1>4, <1>6a DEF TaskInv, OneWinner
<1>7a. NotToldYet'
  BY <1>3, <1>4, <1>6a DEF TaskInv, NotToldYet
<1>8. ASSUME NEW g \in Handlers PROVE ReadFits(g)'
  <2>1. CASE g = h
    BY <1>1, <1>2, <1>4, <2>1 DEF ReadFits
  <2>2. CASE g # h
    <3>1. req'[g] = req[g] /\ ReadFits(g)
      BY <1>3, <2>2 DEF TaskInv, TypeOK
    <3>2. CASE req[g].op = "idle"
      BY <3>1, <3>2 DEF ReadFits
    <3>3. CASE req[g].op # "idle"
      <4>1. req[g].task # t /\ req[g].task \in Tasks
        BY <3>1, <3>3 DEF ReadFits, Create, TaskInv, TypeOK
      <4>2. tasks'[req[g].task] = tasks[req[g].task]
        BY <1>4, <4>1
      <4>3. QED
        BY <3>1, <4>2 DEF ReadFits
    <3>4. QED
      BY <3>2, <3>3
  <2>3. QED
    BY <2>1, <2>2
<1>9. QED
  BY <1>5, <1>6, <1>7, <1>7a, <1>8 DEF TaskInv

(* Starting a claim, a completion or an unclaim. *)
LEMMA ReadSteps ==
  ASSUME TaskInv, NEW h \in Handlers, NEW t \in Tasks,
         (\E m \in Claimants : Claim(h, t, m)) \/ Complete(h, t) \/ Unclaim(h, t)
  PROVE  TaskInv'
<1>1. todo \in [Handlers -> SUBSET Tasks]
  BY DEF TaskInv, TypeOK
<1>2. ASSUME NEW m \in Claimants, Claim(h, t, m) PROVE TaskInv'
  BY <1>1, <1>2, StartStep DEF Claim, Ops, Present
<1>3. CASE Complete(h, t)
  BY <1>1, <1>3, StartStep DEF Complete, Ops
<1>4. CASE Unclaim(h, t)
  <2>1. todo' \in [Handlers -> SUBSET Tasks] /\ UNCHANGED <<tasks, told>>
    BY <1>1, <1>4 DEF Unclaim
  <2>2. CASE tasks[t].state \in Present
    BY <1>4, <2>1, <2>2, StartStep DEF Unclaim, Ops
  <2>3. CASE tasks[t].state \notin Present
    BY <1>4, <2>1, <2>3, TodoStep DEF Unclaim
  <2>4. QED
    BY <2>2, <2>3
<1>5. QED
  BY <1>2, <1>3, <1>4

(* The conditional writes of Create, Claim, Complete and Unclaim. *)
LEMMA WriteSteps ==
  ASSUME TaskInv, NEW h \in Handlers,
         CreatePending(h) \/ ClaimWrite(h) \/ CompleteWrite(h) \/ UnclaimWrite(h)
  PROVE  TaskInv'
<1> DEFINE t == req[h].task
           old == req[h].read
<1>1. req[h].op # "idle"
  BY DEF CreatePending, ClaimWrite, CompleteWrite, UnclaimWrite
<1>2. t \in Tasks /\ req[h] \in Request /\ old \in Object
  BY <1>1 DEF TaskInv, TypeOK, Request
<1>3. old.owner \in Claimants
  BY <1>2, ObjectFields
<1>4. told \in [Tasks -> SUBSET Claimants]
  BY DEF TaskInv, TypeOK
<1>5. CASE CreatePending(h)
  <2>1. UpdateStatus(h, "pending", old.owner) /\ Done(h) /\ UNCHANGED <<todo, told>>
    BY <1>5 DEF CreatePending
  <2>2. old.owner = None
    BY <1>5 DEF TaskInv, ReadFits, CreatePending
  <2>3. tasks[t] = old /\ tasks[t].state \in Present
    BY <1>1, <1>3, <2>1, UpdateFacts DEF Present
  <2>4. told'[t] = {}
    <3>1. tasks[t].state = "new"
      BY <1>5, <2>3 DEF TaskInv, ReadFits, CreatePending
    <3>2. QED
      BY <1>2, <2>1, <3>1 DEF TaskInv, NotToldYet
  <2>5. QED
    BY <1>1, <1>4, <2>1, <2>2, <2>4, WriteStep DEF Present
<1>6. CASE ClaimWrite(h)
  <2>1. /\ UpdateStatus(h, "in_progress", req[h].member) /\ Done(h) /\ UNCHANGED todo
        /\ told' = [told EXCEPT ![t] = told[t] \cup {req[h].member}]
        /\ req[h].member \in Claimants
    BY <1>2, <1>6 DEF ClaimWrite, Request
  <2>2. tasks[t] = old /\ tasks[t].state \in Present
    BY <1>1, <2>1, UpdateFacts DEF Present
  <2>3. tasks[t].state = "pending"
    BY <1>6, <2>2 DEF ClaimWrite, TaskInv, ReadFits
  <2>4. told[t] = {}
    BY <1>2, <2>3 DEF TaskInv, NotToldYet
  <2>5. told' \in [Tasks -> SUBSET Claimants] /\ told'[t] = {req[h].member}
    BY <1>2, <1>4, <2>1, <2>4
  <2>6. \A u \in Tasks : u # t => told'[u] = told[u]
    BY <1>4, <2>1
  <2>7. QED
    BY <1>1, <2>1, <2>5, <2>6, WriteStep DEF Present
<1>7. CASE CompleteWrite(h)
  <2>1. UpdateStatus(h, "completed", old.owner) /\ Done(h) /\ UNCHANGED <<todo, told>>
    BY <1>7 DEF CompleteWrite
  <2>2. tasks[t] = old /\ tasks[t].state \in Present
    BY <1>1, <1>3, <2>1, UpdateFacts DEF Present
  <2>3. told'[t] \subseteq {old.owner}
    BY <1>2, <2>1, <2>2 DEF TaskInv, OneWinner
  <2>4. QED
    BY <1>1, <1>3, <1>4, <2>1, <2>3, WriteStep DEF Present
<1>8. CASE UnclaimWrite(h)
  <2>1. /\ UpdateStatus(h, "pending", None) /\ Done(h) /\ UNCHANGED todo
        /\ told' = [told EXCEPT ![t] = {}]
    BY <1>8 DEF UnclaimWrite
  <2>2. told' \in [Tasks -> SUBSET Claimants] /\ told'[t] = {}
    BY <1>2, <1>4, <2>1
  <2>3. \A u \in Tasks : u # t => told'[u] = told[u]
    BY <1>4, <2>1
  <2>4. QED
    BY <1>1, <2>1, <2>2, <2>3, WriteStep DEF Present
<1>9. QED
  BY <1>5, <1>6, <1>7, <1>8

(* Deleting a task. *)
LEMMA DeleteStep ==
  ASSUME TaskInv, NEW t \in Tasks, DeleteTask(t)
  PROVE  TaskInv'
<1> DEFINE o == Obj("gone", None, 0)
<1>1. o \in Object /\ o.state = "gone" /\ o.owner = None
  BY GoneType
<1>2. /\ tasks' = [tasks EXCEPT ![t] = o] /\ told' = [told EXCEPT ![t] = {}]
      /\ UNCHANGED <<req, todo>> /\ tasks[t].state \in Present
  BY DEF DeleteTask
<1> HIDE DEF o
<1>3. TypeOK'
  BY <1>1, <1>2 DEF TaskInv, TypeOK
<1>4. tasks'[t] = o /\ told'[t] = {}
      /\ \A u \in Tasks : u # t => tasks'[u] = tasks[u] /\ told'[u] = told[u]
  BY <1>2 DEF TaskInv, TypeOK
<1>5. OneWinner' /\ ClaimableIsFree'
  BY <1>1, <1>4 DEF TaskInv, OneWinner, ClaimableIsFree
<1>6. NotToldYet'
  BY <1>1, <1>4 DEF TaskInv, NotToldYet
<1>7. ASSUME NEW g \in Handlers PROVE ReadFits(g)'
  BY <1>1, <1>2, OthersFit DEF Present
<1>8. QED
  BY <1>3, <1>5, <1>6, <1>7 DEF TaskInv

(* Every step keeps the invariant. *)
LEMMA TaskNext == TaskInv /\ [Next]_vars => TaskInv'
<1> SUFFICES ASSUME TaskInv, [Next]_vars PROVE TaskInv'
  OBVIOUS
<1>1. todo \in [Handlers -> SUBSET Tasks]
  BY DEF TaskInv, TypeOK
<1>2. ASSUME NEW h \in Handlers, NEW t \in Tasks,
             Create(h, t) \/ (\E m \in Claimants : Claim(h, t, m)) \/ Complete(h, t) \/ Unclaim(h, t)
      PROVE  TaskInv'
  BY <1>2, CreateStep, ReadSteps
<1>3. ASSUME NEW h \in Handlers, NEW m \in Members, reschedMember(h, m)
      PROVE  TaskInv'
  <2>1. todo' \in [Handlers -> SUBSET Tasks] /\ UNCHANGED <<tasks, req, told>>
    BY <1>1, <1>3 DEF reschedMember
  <2>2. QED
    BY <2>1, TodoStep
<1>4. ASSUME NEW h \in Handlers,
             CreatePending(h) \/ ClaimWrite(h) \/ CompleteWrite(h) \/ UnclaimWrite(h)
      PROVE  TaskInv'
  BY <1>4, WriteSteps
<1>5. ASSUME NEW h \in Handlers, WriteFails(h) \/ Crash(h)
      PROVE  TaskInv'
  <2>1. Done(h) /\ UNCHANGED <<tasks, told>> /\ todo' \in [Handlers -> SUBSET Tasks]
    BY <1>1, <1>5 DEF WriteFails, Crash
  <2>2. QED
    BY <2>1, DoneStep
<1>6. ASSUME NEW t \in Tasks, DeleteTask(t)
      PROVE  TaskInv'
  BY <1>6, DeleteStep
<1>7. CASE UNCHANGED vars
  BY <1>1, <1>7, TodoStep DEF vars
<1>8. QED
  BY <1>2, <1>3, <1>4, <1>5, <1>6, <1>7 DEF Next

-----------------------------------------------------------------------------
(* The theorems.                                                           *)

(* The invariant holds always. *)
LEMMA TaskAlways == Spec => []TaskInv
BY TaskInit, TaskNext, PTL DEF Spec

(* The store keeps its types under any interleaving of its operations.     *)
THEOREM TaskTypeCorrect == Spec => []TypeOK
<1>1. TaskInv => TypeOK
  BY DEF TaskInv
<1>2. QED
  BY <1>1, TaskAlways, PTL

(* However many members claim a task at once and however claims race with  *)
(* completion, rescheduling and deletion, at most one of them is told it   *)
(* has the task, and that one is the recorded owner.                       *)
THEOREM ClaimIsExclusive == Spec => []OneWinner
<1>1. TaskInv => OneWinner
  BY DEF TaskInv
<1>2. QED
  BY <1>1, TaskAlways, PTL

(* Get, change and conditional update implement the atomic board.          *)
THEOREM StoreImplementsBoard == Spec => ImplementsBoard
<1>1. Init => Board!BoardInit
  <2> SUFFICES ASSUME Init PROVE Board!BoardInit
    OBVIOUS
  <2>1. \A t \in Tasks : tasks[t].state = "absent" /\ tasks[t].owner = None
    BY DEF Init, Obj
  <2>2. QED
    BY <2>1 DEF Board!BoardInit
<1>2. TaskInv /\ [Next]_vars => [Board!BoardNext]_(Board!boardVars)
  <2> SUFFICES ASSUME TaskInv, [Next]_vars PROVE [Board!BoardNext]_(Board!boardVars)
    OBVIOUS
  <2>0. tasks \in [Tasks -> Object]
    BY DEF TaskInv, TypeOK
  <2>1. ASSUME NEW t \in Tasks, NEW o \in Object, tasks' = [tasks EXCEPT ![t] = o]
        PROVE  Board!SetTask(t, o.state, o.owner)
    <3>1. [u \in Tasks |-> tasks'[u].state] = [[u \in Tasks |-> tasks[u].state] EXCEPT ![t] = o.state]
      BY <2>0, <2>1
    <3>2. [u \in Tasks |-> tasks'[u].owner] = [[u \in Tasks |-> tasks[u].owner] EXCEPT ![t] = o.owner]
      BY <2>0, <2>1
    <3>3. QED
      BY <3>1, <3>2 DEF Board!SetTask
  <2>2. CASE UNCHANGED tasks
    BY <2>2 DEF Board!boardVars
  <2>3. ASSUME NEW h \in Handlers, NEW t \in Tasks, Create(h, t)
        PROVE  Board!BoardNext
    <3>1. Obj("new", None, 1) \in Object /\ Obj("new", None, 1).state = "new"
          /\ Obj("new", None, 1).owner = None
      BY ObjType, TaskAssumption DEF Present
    <3>2. tasks' = [tasks EXCEPT ![t] = Obj("new", None, 1)] /\ tasks[t].state = "absent"
      BY <2>3 DEF Create
    <3>3. Board!Create(t)
      BY <2>1, <3>1, <3>2 DEF Board!Create
    <3>4. QED
      BY <3>3 DEF Board!BoardNext
  <2>4. ASSUME NEW h \in Handlers, NEW t \in Tasks, req[h].op # "idle", req[h].task = t,
               NEW s \in Present, NEW m \in Claimants, UpdateStatus(h, s, m)
        PROVE  /\ tasks[t] = req[h].read
               /\ tasks[t].state \in Present
               /\ Board!SetTask(t, s, m)
    <3>1. PICK o \in Object :
            /\ o.state = s /\ o.owner = m
            /\ tasks' = [tasks EXCEPT ![t] = o]
      BY <2>4, UpdateFacts
    <3>2. tasks[t].state \in Present /\ tasks[t] = req[h].read
      BY <2>4, UpdateFacts
    <3>3. QED
      BY <2>1, <3>1, <3>2
  <2>5. ASSUME NEW h \in Handlers, NEW t \in Tasks, req[h].task = t, CreatePending(h)
        PROVE  Board!BoardNext
    <3>1. /\ req[h].op = "create" /\ UpdateStatus(h, "pending", req[h].read.owner)
          /\ req[h].read.state = "new" /\ req[h].read.owner = None
      BY <2>5 DEF CreatePending, TaskInv, ReadFits
    <3>2. UpdateStatus(h, "pending", None)
      BY <3>1
    <3>3. tasks[t] = req[h].read /\ Board!SetTask(t, "pending", None)
      BY <2>4, <2>5, <3>1, <3>2 DEF Present
    <3>4. tasks[t].state = "new" /\ tasks[t].owner = None
      BY <3>1, <3>3
    <3>5. Board!Publish(t)
      BY <3>3, <3>4 DEF Board!Publish, Board!SetTask
    <3>6. QED
      BY <3>5 DEF Board!BoardNext
  <2>6. ASSUME NEW h \in Handlers, NEW t \in Tasks, req[h].task = t, ClaimWrite(h)
        PROVE  Board!BoardNext
    <3>1. /\ req[h].op = "claim" /\ UpdateStatus(h, "in_progress", req[h].member)
          /\ req[h].read.state = "pending" /\ req[h].member \in Claimants
      BY <2>6 DEF ClaimWrite, TaskInv, TypeOK, ReadFits, Request
    <3>2. PICK m \in Claimants : m = req[h].member
      BY <3>1
    <3>3. UpdateStatus(h, "in_progress", m)
      BY <3>1, <3>2
    <3>4. tasks[t] = req[h].read /\ Board!SetTask(t, "in_progress", m)
      BY <2>4, <2>6, <3>1, <3>3 DEF Present
    <3>5. tasks[t].state = "pending"
      BY <3>1, <3>4
    <3>6. tasks[t].owner = None
      BY <3>5 DEF TaskInv, ClaimableIsFree
    <3>7. Board!Claim(t, m)
      BY <3>4, <3>5, <3>6 DEF Board!Claim
    <3>8. QED
      BY <3>7 DEF Board!BoardNext
  <2>7. ASSUME NEW h \in Handlers, NEW t \in Tasks, req[h].task = t, CompleteWrite(h)
        PROVE  Board!BoardNext
    <3>1. req[h].op = "complete" /\ UpdateStatus(h, "completed", req[h].read.owner)
      BY <2>7 DEF CompleteWrite
    <3>2. PICK m \in Claimants : m = req[h].read.owner
      <4>1. req[h].read \in Object
        BY DEF TaskInv, TypeOK, Request
      <4>2. QED
        BY <4>1, ObjectFields
    <3>3. UpdateStatus(h, "completed", m)
      BY <3>1, <3>2
    <3>4. /\ tasks[t] = req[h].read /\ tasks[t].state \in Present
          /\ Board!SetTask(t, "completed", m)
      BY <2>4, <2>7, <3>1, <3>3 DEF Present
    <3>5. tasks[t].owner = m
      BY <3>2, <3>4
    <3>6. Board!Complete(t)
      BY <3>4, <3>5 DEF Board!Complete, Board!SetTask, Board!Present, Present
    <3>7. QED
      BY <3>6 DEF Board!BoardNext
  <2>8. ASSUME NEW h \in Handlers, NEW t \in Tasks, req[h].task = t, UnclaimWrite(h)
        PROVE  Board!BoardNext
    <3>1. req[h].op = "unclaim" /\ UpdateStatus(h, "pending", None)
      BY <2>8 DEF UnclaimWrite
    <3>2. tasks[t].state \in Present /\ Board!SetTask(t, "pending", None)
      BY <2>4, <2>8, <3>1 DEF Present
    <3>3. Board!Release(t)
      BY <3>2 DEF Board!Release, Board!Present, Present
    <3>4. QED
      BY <3>3 DEF Board!BoardNext
  <2>9. ASSUME NEW t \in Tasks, DeleteTask(t)
        PROVE  Board!BoardNext
    <3>1. Obj("gone", None, 0) \in Object /\ Obj("gone", None, 0).state = "gone"
          /\ Obj("gone", None, 0).owner = None
      BY GoneType
    <3>2. tasks' = [tasks EXCEPT ![t] = Obj("gone", None, 0)] /\ tasks[t].state \in Present
      BY <2>9 DEF DeleteTask
    <3>3. Board!SetTask(t, "gone", None)
      BY <2>1, <3>1, <3>2
    <3>4. Board!Remove(t)
      BY <3>2, <3>3 DEF Board!Remove, Board!Present, Present
    <3>5. QED
      BY <3>4 DEF Board!BoardNext
  <2>10. CASE Next
    <3>1. \/ UNCHANGED tasks
          \/ \E h \in Handlers, t \in Tasks : Create(h, t)
          \/ \E h \in Handlers : CreatePending(h) \/ ClaimWrite(h) \/ CompleteWrite(h) \/ UnclaimWrite(h)
          \/ \E t \in Tasks : DeleteTask(t)
      BY <2>10 DEF Next, Claim, Complete, Unclaim, reschedMember, WriteFails, Crash
    <3>2. ASSUME NEW h \in Handlers,
                 CreatePending(h) \/ ClaimWrite(h) \/ CompleteWrite(h) \/ UnclaimWrite(h)
          PROVE  Board!BoardNext
      <4>1. req[h].op # "idle"
        BY <3>2 DEF CreatePending, ClaimWrite, CompleteWrite, UnclaimWrite
      <4>2. PICK t \in Tasks : req[h].task = t
        BY <4>1 DEF TaskInv, TypeOK
      <4>3. QED
        BY <2>5, <2>6, <2>7, <2>8, <3>2, <4>2
    <3>3. QED
      BY <2>2, <2>3, <2>9, <3>1, <3>2
  <2>11. CASE UNCHANGED vars
    BY <2>2, <2>11 DEF vars
  <2>12. QED
    BY <2>10, <2>11
<1>3. QED
  BY <1>1, <1>2, TaskAlways, PTL DEF Spec, ImplementsBoard, Board!BoardSpec
=============================================================================
