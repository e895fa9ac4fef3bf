------------------------ MODULE SessionControlProofs ------------------------
(***************************************************************************)
(* Proofs about the session records, for any number of sessions, pods and  *)
(* requests: types, the commands of racing requests, and what the sweep    *)
(* spares.                                                                 *)
(***************************************************************************)
EXTENDS SessionControl, FiniteSetTheorems, TLAPS

(* A request whose write would still be accepted adds its command to the   *)
(* ones the object has.                                                    *)
ReadFits(h) ==
    LET s == req[h].session
    IN s # None =>
        obj[s].there /\ req[h].commands = obj[s].commands \cup {req[h].command}

(* No record, no commands. *)
AbsentIsEmpty == \A s \in Sessions : ~obj[s].there => obj[s].commands = {}

CommandInv == AbsentIsEmpty /\ CommandsKept /\ \A h \in Handlers : ReadFits(h)

(* Records and reports are of sessions that exist or have existed. *)
RecordsAreKnown ==
    /\ \A s \in Sessions : obj[s].there => dp[s] # "none"
    /\ \A k \in Threads : \A b \in batch[k] : dp[b.session] # "none"

(* What the polled pod holds without having reported it started since, so  *)
(* its record is new.                                                      *)
UnseenIsNew ==
    \A s \in Sessions :
        poll.pc # "idle" /\ Live(s) /\ Home[s] = poll.pod /\ s \notin poll.seen /\ obj[s].there
            => s \in poll.created

NewIsYoung == \A s \in poll.created : obj[s].there => ~obj[s].old

(* What is to be swept is not on the polled pod, and will not be. *)
TodoIsOrphaned ==
    /\ poll.pc = "idle" => poll.todo = {} /\ poll.created = {}
    /\ \A s \in poll.todo : dp[s] # "none" /\ ~(Live(s) /\ Home[s] = poll.pod)

SweepInv == RecordsAreKnown /\ UnseenIsNew /\ NewIsYoung /\ TodoIsOrphaned

(* The inductive invariant. *)
SessionInv == TypeOK /\ CommandInv /\ SweepInv

-----------------------------------------------------------------------------
(* Objects and requests.                                                   *)

(* Changing one field of a record keeps the others. *)
LEMMA ObjectFields ==
  ASSUME NEW o \in Object
  PROVE  /\ \A p \in Phases :
              /\ [o EXCEPT !.phase = p] \in Object
              /\ [o EXCEPT !.phase = p].there = o.there
              /\ [o EXCEPT !.phase = p].commands = o.commands
              /\ [o EXCEPT !.phase = p].old = o.old
         /\ \A c \in SUBSET Commands :
              /\ [o EXCEPT !.commands = c] \in Object
              /\ [o EXCEPT !.commands = c].there = o.there
              /\ [o EXCEPT !.commands = c].commands = c
              /\ [o EXCEPT !.commands = c].old = o.old
         /\ [o EXCEPT !.old = TRUE] \in Object
         /\ [o EXCEPT !.old = TRUE].there = o.there
         /\ [o EXCEPT !.old = TRUE].commands = o.commands
BY DEF Object

(* The two records that the API server makes. *)
LEMMA NewObjects ==
  /\ Absent \in Object /\ ~Absent.there /\ Absent.commands = {}
  /\ Created \in Object /\ Created.there /\ Created.commands = {} /\ ~Created.old
BY DEF Object, Absent, Created, Phases, Commands

(* The idle request. *)
LEMMA IdleRequestType == IdleRequest \in Request /\ IdleRequest.session = None
BY DEF IdleRequest, Request, Commands

(* The requests on a session that changes are over, the others go on. *)
LEMMA OutdatedType ==
  ASSUME NEW s \in Sessions, req \in [Handlers -> Request]
  PROVE  /\ Outdated(s, req) \in [Handlers -> Request]
         /\ \A h \in Handlers :
              /\ req[h].session # s => Outdated(s, req)[h] = req[h]
              /\ req[h].session = s => Outdated(s, req)[h] = IdleRequest
BY IdleRequestType DEF Outdated

(* The idle poller and controller, and the count. *)
LEMMA IdleTypes ==
  /\ IdleCtl.pc = "idle" /\ IdleCtl.session = None /\ IdleCtl.command \in Commands
  /\ IdlePoll.pc = "idle" /\ IdlePoll.pod = None /\ IdlePoll.seen = {}
  /\ IdlePoll.created = {} /\ IdlePoll.todo = {} /\ IdlePoll.tally = 0
BY DEF IdleCtl, IdlePoll, Commands

PollRecord ==
    [pc : {"idle", "sync", "sweep", "count"}, pod : Pods \cup {None}, seen : SUBSET Sessions,
     created : SUBSET Sessions, todo : SUBSET Sessions, tally : Nat]
CtlRecord ==
    [pc : {"idle", "send", "write"}, session : Sessions \cup {None}, command : Commands]

(* The idle poller and controller are records of their kind. *)
LEMMA IdleRecords == IdlePoll \in PollRecord /\ IdleCtl \in CtlRecord
BY DEF IdlePoll, IdleCtl, PollRecord, CtlRecord, Commands

(* The initial state. *)
LEMMA SessionInit == Init => SessionInv
<1> SUFFICES ASSUME Init PROVE SessionInv
  OBVIOUS
<1>1. TypeOK
  BY NewObjects, IdleRequestType, IdleRecords, IdleTypes DEF Init, TypeOK, PollRecord, CtlRecord
<1>2. CommandInv
  BY NewObjects, IdleRequestType DEF Init, CommandInv, AbsentIsEmpty, CommandsKept, ReadFits
<1>3. SweepInv
  BY NewObjects, IdleTypes DEF Init, SweepInv, RecordsAreKnown, UnseenIsNew, NewIsYoung, TodoIsOrphaned
<1>4. QED
  BY <1>1, <1>2, <1>3 DEF SessionInv

-----------------------------------------------------------------------------
(* Types.                                                                  *)

(* Writing an object keeps the types. *)
LEMMA WriteType ==
  ASSUME TypeOK, NEW s \in Sessions, NEW o \in Object, Write(s, o)
  PROVE  obj' \in [Sessions -> Object] /\ queue' \subseteq Sessions
BY DEF TypeOK, Write

(* Replacing a phase keeps the types. *)
LEMMA SetPhaseType ==
  ASSUME TypeOK, NEW s \in Sessions, NEW p \in Phases, SetPhase(s, p)
  PROVE  /\ obj' \in [Sessions -> Object] /\ queue' \subseteq Sessions
         /\ req' \in [Handlers -> Request]
<1>1. [obj[s] EXCEPT !.phase = p] \in Object
  BY ObjectFields DEF TypeOK
<1>2. QED
  BY <1>1, WriteType, OutdatedType DEF TypeOK, SetPhase

(* Noting a new record keeps the poller's type. *)
LEMMA NoteCreatedType ==
  ASSUME TypeOK, NEW s \in Sessions, NoteCreated(s)
  PROVE  poll' \in PollRecord
BY DEF TypeOK, NoteCreated, PollRecord

(* What a pod reports is a set of reports. *)
LEMMA ReportsType ==
  ASSUME NEW p, NEW r \in [Held(p) -> Reported]
  PROVE  ReportsOf(p, r) \in SUBSET Reports
BY DEF ReportsOf, Reports, Held

(* The number of sessions that are not terminated is a number. *)
LEMMA CountType == Cardinality(Active) \in Nat
<1>1. IsFiniteSet(Active)
  BY SessionAssumption, FS_Subset DEF Active
<1>2. QED
  BY <1>1, FS_CardinalityType

(* Every step keeps the types. *)
LEMMA TypeStep ==
  ASSUME TypeOK, CommandInv, Next
  PROVE  TypeOK'
<1> USE DEF PollRecord, CtlRecord
<1>1. ASSUME NEW h \in Handlers, NEW s \in Sessions, NEW c \in Commands, CommandRead(h, s, c)
      PROVE  TypeOK'
  <2>1. obj[s].commands \in SUBSET Commands
    BY DEF TypeOK, Object
  <2>2. req' \in [Handlers -> Request]
    BY <1>1, <2>1 DEF TypeOK, CommandRead, Request
  <2>3. QED
    BY <1>1, <2>2 DEF TypeOK, CommandRead
<1>2. ASSUME NEW h \in Handlers, CommandWrite(h)
      PROVE  TypeOK'
  <2>1. req[h].session \in Sessions /\ req[h].commands \in SUBSET Commands /\ req[h].command \in Commands
    BY <1>2 DEF TypeOK, CommandWrite, Request
  <2>2. [obj[req[h].session] EXCEPT !.commands = req[h].commands] \in Object
    BY <2>1, ObjectFields DEF TypeOK
  <2>3. obj' \in [Sessions -> Object] /\ queue' \subseteq Sessions
    BY <1>2, <2>1, <2>2, WriteType DEF CommandWrite
  <2>4. req' \in [Handlers -> Request]
    BY <1>2, <2>1, OutdatedType, IdleRequestType DEF TypeOK, CommandWrite
  <2>5. told' \in [Sessions -> SUBSET Commands]
    BY <1>2, <2>1 DEF TypeOK, CommandWrite
  <2>6. QED
    BY <1>2, <2>3, <2>4, <2>5 DEF TypeOK, CommandWrite
<1>3. ASSUME NEW h \in Handlers, CommandFails(h)
      PROVE  TypeOK'
  BY <1>3, IdleRequestType DEF TypeOK, CommandFails
<1>4. ASSUME NEW s \in Sessions, createSession(s)
      PROVE  TypeOK'
  BY <1>4, NewObjects, WriteType, NoteCreatedType DEF TypeOK, createSession
<1>5. ASSUME NEW s \in Sessions, deleteSession(s)
      PROVE  TypeOK'
  BY <1>5, NewObjects, WriteType, OutdatedType DEF TypeOK, deleteSession
<1>6. ASSUME NEW s \in Sessions, Age(s)
      PROVE  TypeOK'
  <2>1. [obj[s] EXCEPT !.old = TRUE] \in Object
    BY ObjectFields DEF TypeOK
  <2>2. QED
    BY <1>6, <2>1 DEF TypeOK, Age
<1>7. ASSUME NEW s \in Sessions, Reconcile(s)
      PROVE  TypeOK'
  <2>1. Due(obj[s]) \subseteq Commands
    BY DEF TypeOK, Due, Object
  <2>2. ctl' \in CtlRecord /\ (ctl'.pc # "idle" => ctl'.session \in Sessions)
    BY <1>7, <2>1 DEF TypeOK, Reconcile
  <2>3. QED
    BY <1>7, <2>2 DEF TypeOK, Reconcile
<1>8. ASSUME NEW s \in Sessions, Start(s) \/ End(s)
      PROVE  TypeOK'
  BY <1>8 DEF TypeOK, Start, End
<1>9. ASSUME NEW p \in Pods, Dispatch(p) \/ DispatchTimesOut(p)
      PROVE  TypeOK'
  <2>1. dp' \in [Sessions -> {"none", "live", "gone"}]
    BY <1>9 DEF TypeOK, Dispatch, DispatchTimesOut, Deliver
  <2>2. ctl' \in CtlRecord /\ (ctl'.pc # "idle" => ctl'.session \in Sessions)
    BY <1>9, IdleRecords, IdleTypes DEF TypeOK, Dispatch, DispatchTimesOut
  <2>3. QED
    BY <1>9, <2>1, <2>2 DEF TypeOK, Dispatch, DispatchTimesOut
<1>10. ASSUME NEW p \in Pods, ApplySessionReport(p)
       PROVE  TypeOK'
  <2>1. batch' \in [Threads -> SUBSET Reports]
    BY <1>10, ReportsType DEF TypeOK, ApplySessionReport, Threads
  <2>2. QED
    BY <1>10, <2>1 DEF TypeOK, ApplySessionReport
<1>11. ASSUME NEW p \in Pods, ProbeSessions(p)
       PROVE  TypeOK'
  <2>1. batch' \in [Threads -> SUBSET Reports]
    BY <1>11, ReportsType DEF TypeOK, ProbeSessions, Threads
  <2>2. Held(p) \in SUBSET Sessions
    BY DEF Held
  <2>3. poll' \in PollRecord
    BY <1>11, <2>2 DEF ProbeSessions, IdlePoll
  <2>4. QED
    BY <1>11, <2>1, <2>3 DEF TypeOK, ProbeSessions
<1>12. ASSUME NEW k \in Threads, NEW s \in Sessions, UpsertGet(k, s)
       PROVE  TypeOK'
  <2>1. cur' \in [Threads -> Sessions \cup {None}]
    BY <1>12 DEF TypeOK, UpsertGet
  <2>2. /\ obj' \in [Sessions -> Object] /\ queue' \subseteq Sessions
        /\ poll' \in PollRecord
    BY <1>12, NewObjects, WriteType, NoteCreatedType DEF TypeOK, UpsertGet
  <2>3. QED
    BY <1>12, <2>1, <2>2 DEF TypeOK, UpsertGet
<1>13. ASSUME NEW k \in Threads, NEW s \in Sessions, UpsertFails(k, s)
       PROVE  TypeOK'
  BY <1>13 DEF TypeOK, UpsertFails, Upserted
<1>14. ASSUME NEW k \in Threads, UpsertStatus(k)
       PROVE  TypeOK'
  <2>1. PICK b \in batch[k] : b.session = cur[k] /\ SetPhase(cur[k], b.phase)
    BY <1>14 DEF UpsertStatus
  <2>2. b \in Reports /\ cur[k] \in Sessions
    BY <1>14, <2>1 DEF TypeOK, UpsertStatus
  <2>3. b.phase \in Phases
    BY <2>2, SessionAssumption DEF Reports
  <2>4. /\ obj' \in [Sessions -> Object] /\ queue' \subseteq Sessions
        /\ req' \in [Handlers -> Request]
    BY <2>1, <2>2, <2>3, SetPhaseType
  <2>5. batch' \in [Threads -> SUBSET Reports] /\ cur' \in [Threads -> Sessions \cup {None}]
    BY <1>14 DEF TypeOK, UpsertStatus, Upserted
  <2>6. QED
    BY <1>14, <2>4, <2>5 DEF TypeOK, UpsertStatus
<1>15. ASSUME CtlFails
       PROVE  TypeOK'
  BY <1>15, IdleRecords, IdleTypes DEF TypeOK, CtlFails
<1>16. ASSUME Unsupported \/ CtlWrite
       PROVE  TypeOK'
  <2>1. ctl.session \in Sessions
    BY <1>16 DEF TypeOK, Unsupported, CtlWrite
  <2>2. \E p \in Phases : SetPhase(ctl.session, p)
    <3>1. obj[ctl.session].phase \in Phases /\ "Compressing" \in Phases /\ "Terminated" \in Phases
      BY <2>1 DEF TypeOK, Object, Phases
    <3>2. QED
      BY <1>16, <3>1 DEF Unsupported, CtlWrite
  <2>3. /\ obj' \in [Sessions -> Object] /\ queue' \subseteq Sessions
        /\ req' \in [Handlers -> Request]
    BY <2>1, <2>2, SetPhaseType
  <2>4. QED
    BY <1>16, <2>3, IdleRecords, IdleTypes DEF TypeOK, Unsupported, CtlWrite
<1>17. ASSUME NEW s \in Sessions, MarkOrphan(s)
       PROVE  TypeOK'
  <2>1. "Terminated" \in Phases
    BY DEF Phases
  <2>2. poll' \in PollRecord
    BY <1>17 DEF TypeOK, MarkOrphan
  <2>3. QED
    BY <1>17, <2>1, <2>2, SetPhaseType DEF TypeOK, MarkOrphan
<1>18. ASSUME ListOrphans \/ MarkFails \/ CountActiveSessions
       PROVE  TypeOK'
  <2>1. Active \in SUBSET Sessions /\ Cardinality(Active) \in Nat
    BY CountType DEF Active
  <2> DEFINE orphans == {s \in Active \ poll.seen : obj[s].old}
  <2>2. orphans \in SUBSET Sessions
    BY <2>1
  <2>3. \/ poll' = [poll EXCEPT !.pc = "sweep", !.todo = orphans]
        \/ poll' = [poll EXCEPT !.todo = {}]
        \/ poll' = [IdlePoll EXCEPT !.pc = "count", !.tally = Cardinality(Active)]
    BY <1>18 DEF ListOrphans, MarkFails, CountActiveSessions
  <2> HIDE DEF orphans
  <2>4. poll' \in PollRecord
    BY <2>1, <2>2, <2>3, IdleRecords DEF TypeOK
  <2>5. QED
    BY <1>18, <2>4 DEF TypeOK, ListOrphans, MarkFails, CountActiveSessions
<1>19. ASSUME UpdateCount \/ UpdateCountFails
       PROVE  TypeOK'
  BY <1>19, IdleRecords DEF TypeOK, UpdateCount, UpdateCountFails
<1>20. QED
  BY <1>1, <1>2, <1>3, <1>4, <1>5, <1>6, <1>7, <1>8, <1>9, <1>10, <1>11, <1>12, <1>13, <1>14,
     <1>15, <1>16, <1>17, <1>18, <1>19 DEF Next, UpsertStep, PollStep

-----------------------------------------------------------------------------
(* Commands.                                                               *)

(* A write that keeps record and commands, with every reader outdated. *)
LEMMA SetPhaseCommands ==
  ASSUME TypeOK, CommandInv, NEW s \in Sessions, NEW p \in Phases, SetPhase(s, p),
         told' = told
  PROVE  CommandInv'
<1>1. obj' = [obj EXCEPT ![s] = [obj[s] EXCEPT !.phase = p]] /\ req' = Outdated(s, req)
  BY DEF SetPhase, Write
<1>2. obj'[s].there = obj[s].there /\ obj'[s].commands = obj[s].commands
  BY <1>1, ObjectFields DEF TypeOK
<1>3. \A t \in Sessions : obj'[t].there = obj[t].there /\ obj'[t].commands = obj[t].commands
  BY <1>1, <1>2 DEF TypeOK
<1>4. AbsentIsEmpty' /\ CommandsKept'
  BY <1>3 DEF CommandInv, AbsentIsEmpty, CommandsKept
<1>5. ASSUME NEW h \in Handlers
      PROVE  ReadFits(h)'
  <2>1. CASE req[h].session = s
    BY <1>1, <2>1, OutdatedType, IdleRequestType DEF TypeOK, ReadFits
  <2>2. CASE req[h].session # s
    <3>1. req'[h] = req[h] /\ ReadFits(h)
      BY <1>1, <2>2, OutdatedType DEF TypeOK, CommandInv
    <3>2. req[h].session \in Sessions \cup {None}
      BY DEF TypeOK, Request
    <3>3. QED
      BY <1>3, <3>1, <3>2 DEF ReadFits
  <2>3. QED
    BY <2>1, <2>2
<1>6. QED
  BY <1>4, <1>5 DEF CommandInv

(* A record is made where there was none: nobody can have read it. *)
LEMMA CreateCommands ==
  ASSUME TypeOK, CommandInv, NEW s \in Sessions, ~obj[s].there, Write(s, Created),
         UNCHANGED <<req, told>>
  PROVE  CommandInv'
<1>1. obj' = [obj EXCEPT ![s] = Created]
  BY DEF Write
<1>2. obj'[s] = Created /\ \A t \in Sessions \ {s} : obj'[t] = obj[t]
  BY <1>1 DEF TypeOK
<1>3. told[s] = {}
  BY DEF CommandInv, AbsentIsEmpty, CommandsKept
<1>4. AbsentIsEmpty' /\ CommandsKept'
  BY <1>2, <1>3, NewObjects DEF CommandInv, AbsentIsEmpty, CommandsKept
<1>5. ASSUME NEW h \in Handlers
      PROVE  ReadFits(h)'
  <2>1. req'[h] = req[h] /\ ReadFits(h) /\ req[h].session \in Sessions \cup {None}
    BY DEF TypeOK, CommandInv, Request
  <2>2. QED
    BY <1>2, <2>1 DEF ReadFits
<1>6. QED
  BY <1>4, <1>5 DEF CommandInv

(* Steps that touch neither records nor requests. *)
LEMMA FrameCommands ==
  ASSUME CommandInv, UNCHANGED <<obj, req, told>>
  PROVE  CommandInv'
BY DEF CommandInv, AbsentIsEmpty, CommandsKept, ReadFits

(* Every step keeps the commands that were accepted. *)
LEMMA CommandStep ==
  ASSUME TypeOK, CommandInv, RecordsAreKnown, Next
  PROVE  CommandInv'
<1>1. ASSUME NEW h \in Handlers, NEW s \in Sessions, NEW c \in Commands, CommandRead(h, s, c)
      PROVE  CommandInv'
  <2>1. AbsentIsEmpty' /\ CommandsKept'
    BY <1>1 DEF CommandRead, CommandInv, AbsentIsEmpty, CommandsKept
  <2>2. ASSUME NEW g \in Handlers
        PROVE  ReadFits(g)'
    <3>1. CASE g = h
      BY <1>1, <3>1 DEF TypeOK, CommandRead, ReadFits
    <3>2. CASE g # h
      BY <1>1, <3>2 DEF TypeOK, CommandRead, CommandInv, ReadFits
    <3>3. QED
      BY <3>1, <3>2
  <2>3. QED
    BY <2>1, <2>2 DEF CommandInv
<1>2. ASSUME NEW h \in Handlers, CommandWrite(h)
      PROVE  CommandInv'
  <2> DEFINE s == req[h].session
  <2>1. /\ s \in Sessions /\ req[h].commands \in SUBSET Commands
        /\ obj[s].there /\ req[h].commands = obj[s].commands \cup {req[h].command}
    BY <1>2 DEF TypeOK, CommandWrite, Request, CommandInv, ReadFits
  <2>2. /\ obj' = [obj EXCEPT ![s] = [obj[s] EXCEPT !.commands = req[h].commands]]
        /\ told' = [told EXCEPT ![s] = @ \cup {req[h].command}]
        /\ req' = [Outdated(s, req) EXCEPT ![h] = IdleRequest]
    BY <1>2 DEF CommandWrite, Write
  <2> HIDE DEF s
  <2>3. obj'[s].there /\ obj'[s].commands = req[h].commands
    BY <2>1, <2>2, ObjectFields DEF TypeOK
  <2>4. \A t \in Sessions \ {s} : obj'[t] = obj[t] /\ told'[t] = told[t]
    BY <2>2 DEF TypeOK
  <2>5. told'[s] = told[s] \cup {req[h].command}
    BY <2>1, <2>2 DEF TypeOK
  <2>6. AbsentIsEmpty' /\ CommandsKept'
    BY <2>1, <2>3, <2>4, <2>5 DEF CommandInv, AbsentIsEmpty, CommandsKept
  <2>7. ASSUME NEW g \in Handlers
        PROVE  ReadFits(g)'
    <3>1. CASE g = h
      <4>1. req'[g] = IdleRequest
        BY <2>1, <2>2, <3>1, OutdatedType DEF TypeOK
      <4>2. QED
        BY <4>1, IdleRequestType DEF ReadFits
    <3>2. CASE g # h
      <4>1. req'[g] = Outdated(s, req)[g]
        BY <2>1, <2>2, <3>2, OutdatedType DEF TypeOK
      <4>2. CASE req[g].session = s
        BY <2>1, <4>1, <4>2, OutdatedType, IdleRequestType DEF TypeOK, ReadFits
      <4>3. CASE req[g].session # s
        <5>1. req'[g] = req[g] /\ ReadFits(g) /\ req[g].session \in Sessions \cup {None}
          BY <2>1, <4>1, <4>3, OutdatedType DEF TypeOK, CommandInv, Request
        <5>2. QED
          BY <2>4, <4>3, <5>1 DEF ReadFits
      <4>4. QED
        BY <4>2, <4>3
    <3>3. QED
      BY <3>1, <3>2
  <2>8. QED
    BY <2>6, <2>7 DEF CommandInv
<1>3. ASSUME NEW h \in Handlers, CommandFails(h)
      PROVE  CommandInv'
  <2>1. \A g \in Handlers : req'[g] = req[g] \/ req'[g] = IdleRequest
    BY <1>3 DEF TypeOK, CommandFails
  <2>2. \A g \in Handlers : ReadFits(g)'
    BY <1>3, <2>1, IdleRequestType DEF CommandFails, CommandInv, ReadFits
  <2>3. QED
    BY <1>3, <2>2 DEF CommandFails, CommandInv, AbsentIsEmpty, CommandsKept
<1>4. ASSUME NEW s \in Sessions, createSession(s)
      PROVE  CommandInv'
  <2>1. ~obj[s].there
    BY <1>4 DEF createSession, RecordsAreKnown
  <2>2. QED
    BY <1>4, <2>1, CreateCommands DEF createSession
<1>5. ASSUME NEW s \in Sessions, deleteSession(s)
      PROVE  CommandInv'
  <2>1. /\ obj' = [obj EXCEPT ![s] = Absent]
        /\ told' = [told EXCEPT ![s] = {}]
        /\ req' = Outdated(s, req)
    BY <1>5 DEF deleteSession, Write
  <2>2. /\ obj'[s] = Absent /\ told'[s] = {}
        /\ \A t \in Sessions \ {s} : obj'[t] = obj[t] /\ told'[t] = told[t]
    BY <2>1 DEF TypeOK
  <2>3. AbsentIsEmpty' /\ CommandsKept'
    BY <2>2, NewObjects DEF CommandInv, AbsentIsEmpty, CommandsKept
  <2>4. ASSUME NEW g \in Handlers
        PROVE  ReadFits(g)'
    <3>1. CASE req[g].session = s
      BY <2>1, <3>1, OutdatedType, IdleRequestType DEF TypeOK, ReadFits
    <3>2. CASE req[g].session # s
      <4>1. req'[g] = req[g] /\ ReadFits(g) /\ req[g].session \in Sessions \cup {None}
        BY <2>1, <3>2, OutdatedType DEF TypeOK, CommandInv, Request
      <4>2. QED
        BY <2>2, <3>2, <4>1 DEF ReadFits
    <3>3. QED
      BY <3>1, <3>2
  <2>5. QED
    BY <2>3, <2>4 DEF CommandInv
<1>6. ASSUME NEW s \in Sessions, Age(s)
      PROVE  CommandInv'
  <2>1. \A t \in Sessions : obj'[t].there = obj[t].there /\ obj'[t].commands = obj[t].commands
    BY <1>6, ObjectFields DEF TypeOK, Age
  <2>2. \A g \in Handlers : req[g].session \in Sessions \cup {None}
    BY DEF TypeOK, Request
  <2>3. QED
    BY <1>6, <2>1, <2>2 DEF Age, CommandInv, AbsentIsEmpty, CommandsKept, ReadFits
<1>7. ASSUME NEW k \in Threads, NEW s \in Sessions, UpsertGet(k, s)
      PROVE  CommandInv'
  <2>1. CASE obj[s].there
    BY <1>7, <2>1, FrameCommands DEF UpsertGet
  <2>2. CASE ~obj[s].there
    BY <1>7, <2>2, CreateCommands DEF UpsertGet
  <2>3. QED
    BY <2>1, <2>2
<1>8. ASSUME NEW k \in Threads, UpsertStatus(k)
      PROVE  CommandInv'
  <2>1. PICK b \in batch[k] : b.session = cur[k] /\ SetPhase(cur[k], b.phase)
    BY <1>8 DEF UpsertStatus
  <2>2. b \in Reports /\ cur[k] \in Sessions
    BY <1>8, <2>1 DEF TypeOK, UpsertStatus
  <2>3. b.phase \in Phases
    BY <2>2, SessionAssumption DEF Reports
  <2>4. QED
    BY <1>8, <2>1, <2>2, <2>3, SetPhaseCommands DEF UpsertStatus
<1>9. ASSUME Unsupported \/ CtlWrite
      PROVE  CommandInv'
  <2>1. ctl.session \in Sessions
    BY <1>9 DEF TypeOK, Unsupported, CtlWrite
  <2>2. \E p \in Phases : SetPhase(ctl.session, p)
    <3>1. obj[ctl.session].phase \in Phases /\ "Compressing" \in Phases /\ "Terminated" \in Phases
      BY <2>1 DEF TypeOK, Object, Phases
    <3>2. QED
      BY <1>9, <3>1 DEF Unsupported, CtlWrite
  <2>3. QED
    BY <1>9, <2>1, <2>2, SetPhaseCommands DEF Unsupported, CtlWrite
<1>10. ASSUME NEW s \in Sessions, MarkOrphan(s)
       PROVE  CommandInv'
  <2>1. "Terminated" \in Phases
    BY DEF Phases
  <2>2. QED
    BY <1>10, <2>1, SetPhaseCommands DEF MarkOrphan
<1>11. ASSUME UNCHANGED <<obj, req, told>>
       PROVE  CommandInv'
  BY <1>11, FrameCommands
<1>12. QED
  BY <1>1, <1>2, <1>3, <1>4, <1>5, <1>6, <1>7, <1>8, <1>9, <1>10, <1>11
     DEF Next, UpsertStep, PollStep, Reconcile, Start, End, Dispatch, DispatchTimesOut,
         ApplySessionReport, ProbeSessions, UpsertFails, CtlFails, ListOrphans, MarkFails,
         CountActiveSessions, UpdateCount, UpdateCountFails

-----------------------------------------------------------------------------
(* The sweep.                                                              *)

(* The fields of the poller. *)
LEMMA PollFields ==
  ASSUME TypeOK
  PROVE  poll \in PollRecord /\ poll.created \subseteq Sessions /\ poll.todo \subseteq Sessions
BY DEF TypeOK, PollRecord

(* Steps that make no record, age none, start no session and leave the     *)
(* poll where it is, or further along with less to do.                     *)
LEMMA QuietSweep ==
  ASSUME TypeOK, SweepInv,
         \A s \in Sessions : /\ obj'[s].there => obj[s].there
                             /\ obj'[s].there /\ obj'[s].old => obj[s].old
                             /\ dp'[s] = dp[s] \/ (dp[s] = "live" /\ dp'[s] = "gone"),
         \A k \in Threads : batch'[k] \subseteq batch[k],
         \/ poll' = poll
         \/ /\ poll.pc # "idle" /\ poll'.pc # "idle"
            /\ poll'.pod = poll.pod /\ poll'.seen = poll.seen /\ poll'.created = poll.created
            /\ poll'.todo \subseteq poll.todo
  PROVE  SweepInv'
<1>0. /\ poll'.pod = poll.pod /\ poll'.seen = poll.seen /\ poll'.created = poll.created
      /\ poll'.todo \subseteq poll.todo /\ (poll'.pc = "idle" <=> poll.pc = "idle")
      /\ poll.created \subseteq Sessions /\ poll.todo \subseteq Sessions
  BY PollFields
<1>1. RecordsAreKnown'
  <2>1. \A k \in Threads : \A b \in batch[k] : b.session \in Sessions
    BY DEF TypeOK, Reports
  <2>2. QED
    BY <2>1 DEF SweepInv, RecordsAreKnown
<1>2. UnseenIsNew'
  BY <1>0 DEF SweepInv, UnseenIsNew, Live
<1>3. NewIsYoung'
  BY <1>0 DEF SweepInv, NewIsYoung
<1>4. TodoIsOrphaned'
  BY <1>0 DEF SweepInv, TodoIsOrphaned, Live
<1>5. QED
  BY <1>1, <1>2, <1>3, <1>4 DEF SweepInv

(* Replacing a phase neither makes nor ages a record. *)
LEMMA SetPhaseQuiet ==
  ASSUME TypeOK, NEW s \in Sessions, NEW p \in Phases, SetPhase(s, p)
  PROVE  \A t \in Sessions : obj'[t].there = obj[t].there /\ obj'[t].old = obj[t].old
<1>1. obj' = [obj EXCEPT ![s] = [obj[s] EXCEPT !.phase = p]]
  BY DEF SetPhase, Write
<1>2. QED
  BY <1>1, ObjectFields DEF TypeOK

(* A record is made for a known session. *)
LEMMA CreateSweep ==
  ASSUME TypeOK, SweepInv, NEW s \in Sessions, Write(s, Created), NoteCreated(s),
         \A t \in Sessions : dp'[t] = dp[t] \/ (t = s /\ dp[t] = "none" /\ dp'[t] = "gone"),
         dp'[s] # "none", batch' = batch
  PROVE  SweepInv'
<1>1. obj'[s] = Created /\ \A t \in Sessions \ {s} : obj'[t] = obj[t]
  BY DEF TypeOK, Write
<1>2. /\ poll'.pc = poll.pc /\ poll'.pod = poll.pod /\ poll'.seen = poll.seen
      /\ poll'.todo = poll.todo
      /\ poll'.created = IF poll.pc = "idle" THEN poll.created ELSE poll.created \cup {s}
  BY PollFields DEF NoteCreated, PollRecord
<1>3. RecordsAreKnown'
  <2>1. \A k \in Threads : \A b \in batch[k] : b.session \in Sessions
    BY DEF TypeOK, Reports
  <2>2. QED
    BY <1>1, <2>1 DEF SweepInv, RecordsAreKnown
<1>4. UnseenIsNew'
  BY <1>1, <1>2 DEF SweepInv, UnseenIsNew, Live
<1>5. NewIsYoung'
  BY <1>1, <1>2, NewObjects, PollFields DEF SweepInv, NewIsYoung
<1>6. TodoIsOrphaned'
  BY <1>2, PollFields DEF SweepInv, TodoIsOrphaned, Live
<1>7. QED
  BY <1>3, <1>4, <1>5, <1>6 DEF SweepInv

(* Every step keeps the sweep off what the polled pod holds. *)
LEMMA SweepStep ==
  ASSUME TypeOK, CommandInv, SweepInv, Next
  PROVE  SweepInv'
<1>1. ASSUME UNCHANGED <<obj, dp, batch, poll>>
      PROVE  SweepInv'
  BY <1>1, QuietSweep
<1>2. ASSUME NEW h \in Handlers, CommandWrite(h)
      PROVE  SweepInv'
  <2>1. req[h].session \in Sessions /\ req[h].commands \in SUBSET Commands
    BY <1>2 DEF TypeOK, CommandWrite, Request
  <2>2. obj' = [obj EXCEPT ![req[h].session] = [obj[req[h].session] EXCEPT !.commands = req[h].commands]]
    BY <1>2 DEF CommandWrite, Write
  <2>3. \A t \in Sessions : obj'[t].there = obj[t].there /\ obj'[t].old = obj[t].old
    BY <2>1, <2>2, ObjectFields DEF TypeOK
  <2>4. QED
    BY <1>2, <2>3, QuietSweep DEF CommandWrite
<1>3. ASSUME NEW s \in Sessions, createSession(s)
      PROVE  SweepInv'
  BY <1>3, CreateSweep DEF createSession, TypeOK
<1>4. ASSUME NEW s \in Sessions, deleteSession(s)
      PROVE  SweepInv'
  <2>1. \A t \in Sessions : obj'[t] = obj[t] \/ ~obj'[t].there
    BY <1>4, NewObjects DEF deleteSession, Write, TypeOK
  <2>2. QED
    BY <1>4, <2>1, QuietSweep DEF deleteSession
<1>5. ASSUME NEW s \in Sessions, Age(s)
      PROVE  SweepInv'
  <2>1. \A t \in Sessions : /\ obj'[t].there = obj[t].there
                            /\ t # s => obj'[t] = obj[t]
    BY <1>5, ObjectFields DEF TypeOK, Age
  <2>2. RecordsAreKnown' /\ UnseenIsNew' /\ TodoIsOrphaned'
    BY <1>5, <2>1 DEF Age, SweepInv, RecordsAreKnown, UnseenIsNew, TodoIsOrphaned, Live
  <2>3. NewIsYoung'
    BY <1>5, <2>1, PollFields DEF Age, SweepInv, NewIsYoung
  <2>4. QED
    BY <2>2, <2>3 DEF SweepInv
<1>6. ASSUME NEW k \in Threads, NEW s \in Sessions, UpsertGet(k, s)
      PROVE  SweepInv'
  <2>1. dp[s] # "none"
    BY <1>6 DEF UpsertGet, SweepInv, RecordsAreKnown
  <2>2. CASE obj[s].there
    BY <1>1, <1>6, <2>2 DEF UpsertGet
  <2>3. CASE ~obj[s].there
    BY <1>6, <2>1, <2>3, CreateSweep DEF UpsertGet
  <2>4. QED
    BY <2>2, <2>3
<1>7. ASSUME NEW k \in Threads, NEW s \in Sessions, UpsertFails(k, s)
      PROVE  SweepInv'
  <2>1. \A j \in Threads : batch'[j] \subseteq batch[j]
    BY <1>7 DEF UpsertFails, Upserted, TypeOK
  <2>2. QED
    BY <1>7, <2>1, QuietSweep DEF UpsertFails
<1>8. ASSUME NEW k \in Threads, UpsertStatus(k)
      PROVE  SweepInv'
  <2>1. PICK b \in batch[k] : b.session = cur[k] /\ SetPhase(cur[k], b.phase)
    BY <1>8 DEF UpsertStatus
  <2>2. b \in Reports /\ cur[k] \in Sessions
    BY <1>8, <2>1 DEF TypeOK, UpsertStatus
  <2>3. b.phase \in Phases
    BY <2>2, SessionAssumption DEF Reports
  <2>4. \A j \in Threads : batch'[j] \subseteq batch[j]
    BY <1>8 DEF UpsertStatus, Upserted, TypeOK
  <2>5. QED
    BY <1>8, <2>1, <2>2, <2>3, <2>4, SetPhaseQuiet, QuietSweep DEF UpsertStatus
<1>9. ASSUME Unsupported \/ CtlWrite
      PROVE  SweepInv'
  <2>1. ctl.session \in Sessions
    BY <1>9 DEF TypeOK, Unsupported, CtlWrite
  <2>2. \E p \in Phases : SetPhase(ctl.session, p)
    <3>1. obj[ctl.session].phase \in Phases /\ "Compressing" \in Phases /\ "Terminated" \in Phases
      BY <2>1 DEF TypeOK, Object, Phases
    <3>2. QED
      BY <1>9, <3>1 DEF Unsupported, CtlWrite
  <2>3. QED
    BY <1>9, <2>1, <2>2, SetPhaseQuiet, QuietSweep DEF Unsupported, CtlWrite
<1>10. ASSUME NEW p \in Pods, Dispatch(p) \/ DispatchTimesOut(p)
       PROVE  SweepInv'
  <2>1. \A t \in Sessions : dp'[t] = dp[t] \/ (dp[t] = "live" /\ dp'[t] = "gone")
    BY <1>10 DEF Dispatch, DispatchTimesOut, Deliver, Live, TypeOK
  <2>2. QED
    BY <1>10, <2>1, QuietSweep DEF Dispatch, DispatchTimesOut
<1>11. ASSUME NEW p \in Pods, ApplySessionReport(p)
       PROVE  SweepInv'
  <2>1. PICK r \in [Held(p) -> Reported] : batch' = [batch EXCEPT ![p] = ReportsOf(p, r)]
    BY <1>11 DEF ApplySessionReport
  <2>2. \A b \in ReportsOf(p, r) : dp[b.session] # "none"
    BY DEF ReportsOf, Held, Live
  <2>3. RecordsAreKnown'
    BY <1>11, <2>1, <2>2 DEF ApplySessionReport, SweepInv, RecordsAreKnown, TypeOK
  <2>4. QED
    BY <1>11, <2>3 DEF ApplySessionReport, SweepInv, UnseenIsNew, NewIsYoung, TodoIsOrphaned, Live
<1>12. ASSUME NEW p \in Pods, ProbeSessions(p)
       PROVE  SweepInv'
  <2>1. PICK r \in [Held(p) -> Reported] : batch' = [batch EXCEPT ![Poller] = ReportsOf(p, r)]
    BY <1>12 DEF ProbeSessions
  <2>2. \A b \in ReportsOf(p, r) : dp[b.session] # "none"
    BY DEF ReportsOf, Held, Live
  <2>3. RecordsAreKnown'
    BY <1>12, <2>1, <2>2 DEF ProbeSessions, SweepInv, RecordsAreKnown, TypeOK
  <2>4. /\ poll'.pc = "sync" /\ poll'.pod = p /\ poll'.seen = Held(p)
        /\ poll'.created = {} /\ poll'.todo = {}
    BY <1>12 DEF ProbeSessions, IdlePoll
  <2>5. UnseenIsNew' /\ NewIsYoung' /\ TodoIsOrphaned'
    BY <1>12, <2>4 DEF ProbeSessions, UnseenIsNew, NewIsYoung, TodoIsOrphaned, Live, Held
  <2>6. QED
    BY <2>3, <2>5 DEF SweepInv
<1>13. ASSUME ListOrphans
       PROVE  SweepInv'
  <2> DEFINE orphans == {s \in Active \ poll.seen : obj[s].old}
  <2>1. poll.pc = "sync" /\ poll' = [poll EXCEPT !.pc = "sweep", !.todo = orphans]
    BY <1>13 DEF ListOrphans
  <2>2. ASSUME NEW s \in orphans
        PROVE  dp[s] # "none" /\ ~(Live(s) /\ Home[s] = poll.pod)
    BY <2>1, <2>2 DEF Active, SweepInv, RecordsAreKnown, UnseenIsNew, NewIsYoung
  <2> HIDE DEF orphans
  <2>3. /\ poll'.pc = "sweep" /\ poll'.pod = poll.pod /\ poll'.seen = poll.seen
        /\ poll'.created = poll.created /\ poll'.todo = orphans
    BY <2>1, PollFields DEF PollRecord
  <2>4. RecordsAreKnown' /\ UnseenIsNew' /\ NewIsYoung'
    BY <1>13, <2>1, <2>3 DEF ListOrphans, SweepInv, RecordsAreKnown, UnseenIsNew, NewIsYoung, Live
  <2>5. TodoIsOrphaned'
    BY <1>13, <2>2, <2>3 DEF ListOrphans, TodoIsOrphaned, Live
  <2>6. QED
    BY <2>4, <2>5 DEF SweepInv
<1>14. ASSUME NEW s \in Sessions, MarkOrphan(s)
       PROVE  SweepInv'
  <2>1. "Terminated" \in Phases
    BY DEF Phases
  <2>2. poll.pc # "idle"
    BY <1>14 DEF MarkOrphan, SweepInv, TodoIsOrphaned
  <2>3. /\ poll'.pc = poll.pc /\ poll'.pod = poll.pod /\ poll'.seen = poll.seen
        /\ poll'.created = poll.created /\ poll'.todo \subseteq poll.todo
    BY <1>14, PollFields DEF MarkOrphan, PollRecord
  <2>4. QED
    BY <1>14, <2>1, <2>2, <2>3, SetPhaseQuiet, QuietSweep DEF MarkOrphan
<1>15. ASSUME MarkFails
       PROVE  SweepInv'
  <2>1. poll.pc # "idle"
    BY <1>15 DEF MarkFails, SweepInv, TodoIsOrphaned
  <2>2. /\ poll'.pc # "idle" /\ poll'.pod = poll.pod /\ poll'.seen = poll.seen
        /\ poll'.created = poll.created /\ poll'.todo \subseteq poll.todo
    BY <1>15, <2>1, PollFields DEF MarkFails, PollRecord
  <2>3. QED
    BY <1>15, <2>1, <2>2, QuietSweep DEF MarkFails
<1>16. ASSUME CountActiveSessions \/ UpdateCount \/ UpdateCountFails
       PROVE  SweepInv'
  <2>1. poll'.pod = None /\ poll'.created = {} /\ poll'.todo = {}
    BY <1>16, IdleTypes, IdleRecords DEF CountActiveSessions, UpdateCount, UpdateCountFails, PollRecord
  <2>2. UNCHANGED <<obj, batch, dp>>
    BY <1>16 DEF CountActiveSessions, UpdateCount, UpdateCountFails
  <2>3. \A s \in Sessions : Home[s] # None
    BY SessionAssumption
  <2>4. QED
    BY <2>1, <2>2, <2>3 DEF SweepInv, RecordsAreKnown, UnseenIsNew, NewIsYoung, TodoIsOrphaned
<1>17. ASSUME NEW s \in Sessions, Start(s)
       PROVE  SweepInv'
  <2>1. /\ dp[s] = "none" /\ dp'[s] = "live" /\ ~obj[s].there /\ s \notin poll.todo
        /\ \A t \in Sessions \ {s} : dp'[t] = dp[t]
    BY <1>17 DEF Start, TypeOK, SweepInv, RecordsAreKnown, TodoIsOrphaned
  <2>2. \A k \in Threads : \A b \in batch[k] : b.session \in Sessions
    BY DEF TypeOK, Reports
  <2>3. QED
    BY <1>17, <2>1, <2>2, PollFields DEF Start, SweepInv, RecordsAreKnown, UnseenIsNew, NewIsYoung,
       TodoIsOrphaned, Live
<1>18. ASSUME NEW s \in Sessions, End(s)
       PROVE  SweepInv'
  <2>1. \A t \in Sessions : dp'[t] = dp[t] \/ (dp[t] = "live" /\ dp'[t] = "gone")
    BY <1>18 DEF End, Live, TypeOK
  <2>2. QED
    BY <1>18, <2>1, QuietSweep DEF End
<1>19. QED
  BY <1>1, <1>2, <1>3, <1>4, <1>5, <1>6, <1>7, <1>8, <1>9, <1>10, <1>11, <1>12, <1>13, <1>14,
     <1>15, <1>16, <1>17, <1>18
     DEF Next, UpsertStep, PollStep, Reconcile, CommandRead, CommandFails, CtlFails

-----------------------------------------------------------------------------
(* The theorems.                                                           *)

(* The invariant is inductive. *)
LEMMA SessionNext == SessionInv /\ [Next]_vars => SessionInv'
<1> SUFFICES ASSUME SessionInv, [Next]_vars PROVE SessionInv'
  OBVIOUS
<1>1. CASE Next
  <2>1. TypeOK'
    BY <1>1, TypeStep DEF SessionInv
  <2>2. CommandInv'
    BY <1>1, CommandStep DEF SessionInv, SweepInv
  <2>3. SweepInv'
    BY <1>1, SweepStep DEF SessionInv
  <2>4. QED
    BY <2>1, <2>2, <2>3 DEF SessionInv
<1>2. CASE UNCHANGED vars
  <2>1. TypeOK'
    BY <1>2 DEF vars, SessionInv, TypeOK
  <2>2. CommandInv'
    BY <1>2, FrameCommands DEF vars, SessionInv
  <2>3. SweepInv'
    BY <1>2, QuietSweep DEF vars, SessionInv
  <2>4. QED
    BY <2>1, <2>2, <2>3 DEF SessionInv
<1>3. QED
  BY <1>1, <1>2

(* The invariant holds in every behaviour. *)
LEMMA SessionAlways == Spec => []SessionInv
BY SessionInit, SessionNext, PTL DEF Spec

(* Records, requests, controller, poller and sinks keep their types.       *)
THEOREM SessionTypeCorrect == Spec => []TypeOK
<1>1. SessionInv => TypeOK
  BY DEF SessionInv
<1>2. QED
  BY <1>1, SessionAlways, PTL

(* compressSession and terminateSession: a command that was accepted stays *)
(* on the record, for any number of racing requests and status writers.    *)
THEOREM CommandsAreNotLost == Spec => []CommandsKept
<1>1. SessionInv => CommandsKept
  BY DEF SessionInv, CommandInv
<1>2. QED
  BY <1>1, SessionAlways, PTL

(* markOrphanedSessions never terminates the record of a session that the  *)
(* polled pod holds, for any number of pods and sessions.                  *)
THEOREM SweepSparesTheLive == Spec => SweepSpares
<1> DEFINE Spares(s) ==
      s \in poll.todo /\ obj'[s].phase = "Terminated" /\ obj'[s] # obj[s] /\ poll'.todo = poll.todo \ {s}
            => ~(Live(s) /\ Home[s] = poll.pod)
<1>1. SessionInv /\ [Next]_vars => [\A s \in Sessions : Spares(s)]_vars
  BY DEF SessionInv, SweepInv, TodoIsOrphaned
<1>2. QED
  BY <1>1, SessionAlways, PTL DEF Spec, SweepSpares

-----------------------------------------------------------------------------
(* Accepted commands are pursued.                                          *)

(* The session that the controller is working on. *)
InHand(s) == ctl.pc # "idle" /\ ctl.session = s

(* A session with a command to carry out is in the queue or in the         *)
(* controller's hands.                                                     *)
DueIsSeen ==
    \A s \in Sessions : obj[s].there /\ Due(obj[s]) # {} => s \in queue \/ InHand(s)

(* What is due depends on the commands and the phase alone. *)
LEMMA DueFields ==
  ASSUME NEW o, NEW p, o.commands = p.commands, o.phase = p.phase
  PROVE  Due(o) = Due(p)
BY DEF Due

(* A step that queues what it changes, and drops nothing that is due. *)
LEMMA StillSeen ==
  ASSUME DueIsSeen,
         \A s \in Sessions : \/ s \in queue'
                             \/ /\ obj'[s].there = obj[s].there
                                /\ obj'[s].commands = obj[s].commands
                                /\ obj'[s].phase = obj[s].phase,
         \A s \in Sessions : s \in queue \/ InHand(s) =>
                                s \in queue' \/ InHand(s)' \/ ~(obj[s].there /\ Due(obj[s]) # {})
  PROVE  DueIsSeen'
<1> SUFFICES ASSUME NEW s \in Sessions, obj'[s].there, Due(obj'[s]) # {}, s \notin queue'
             PROVE  InHand(s)'
  BY Zenon DEF DueIsSeen, Due
<1>1. obj[s].there /\ Due(obj[s]) # {}
  BY DueFields
<1>2. s \in queue \/ InHand(s)
  BY <1>1 DEF DueIsSeen
<1> QED BY <1>1, <1>2

(* Every write queues the session. *)
LEMMA WriteSeen ==
  ASSUME TypeOK, DueIsSeen, NEW s \in Sessions, NEW o, Write(s, o),
         ctl' = ctl \/ InHand(s)
  PROVE  DueIsSeen'
<1>1. queue' = queue \cup {s} /\ obj' = [obj EXCEPT ![s] = o] /\ obj \in [Sessions -> Object]
  BY DEF Write, TypeOK
<1>2. \A n \in Sessions : n = s \/ obj'[n] = obj[n]
  BY <1>1
<1>3. \A n \in Sessions : n \in queue \/ InHand(n) => n \in queue' \/ InHand(n)'
  BY <1>1 DEF InHand
<1> QED BY <1>1, <1>2, <1>3, StillSeen

(* So does every failure. *)
LEMMA QueuedSeen ==
  ASSUME DueIsSeen, obj' = obj,
         \A s \in Sessions : s \in queue \/ InHand(s) => s \in queue' \/ InHand(s)'
  PROVE  DueIsSeen'
BY StillSeen

(* Every step keeps what is due in sight. *)
LEMMA DueStep ==
  ASSUME TypeOK, DueIsSeen, Next
  PROVE  DueIsSeen'
<1>0. ctl.pc # "idle" => ctl.session \in Sessions /\ InHand(ctl.session)
  BY DEF TypeOK, InHand
<1>1. ASSUME UNCHANGED <<obj, queue, ctl>> PROVE DueIsSeen'
  BY <1>1, QueuedSeen DEF InHand
<1>2. ASSUME NEW h \in Handlers, NEW s \in Sessions, NEW c \in Commands, CommandRead(h, s, c)
      PROVE  DueIsSeen'
  BY <1>1, <1>2 DEF CommandRead
<1>3. ASSUME NEW h \in Handlers, CommandWrite(h) PROVE DueIsSeen'
  <2>1. req[h].session # None /\ req[h].session \in Sessions \cup {None}
    BY <1>3 DEF CommandWrite, TypeOK, Request
  <2>2. Write(req[h].session, [obj[req[h].session] EXCEPT !.commands = req[h].commands])
        /\ UNCHANGED ctl
    BY <1>3 DEF CommandWrite
  <2> QED BY <2>1, <2>2, WriteSeen
<1>4. ASSUME NEW h \in Handlers, CommandFails(h) PROVE DueIsSeen'
  BY <1>1, <1>4 DEF CommandFails
<1>5. ASSUME NEW s \in Sessions, createSession(s) \/ deleteSession(s) PROVE DueIsSeen'
  BY <1>5, WriteSeen DEF createSession, deleteSession
<1>6. ASSUME NEW s \in Sessions, Age(s) PROVE DueIsSeen'
  <2>1. obj' = [obj EXCEPT ![s].old = TRUE] /\ UNCHANGED <<queue, ctl>>
        /\ obj \in [Sessions -> Object]
    BY <1>6 DEF Age, TypeOK
  <2>2. \A n \in Sessions : /\ obj'[n].there = obj[n].there
                            /\ obj'[n].commands = obj[n].commands
                            /\ obj'[n].phase = obj[n].phase
    BY <2>1 DEF Object
  <2> QED BY <2>1, <2>2, StillSeen DEF InHand
<1>7. ASSUME NEW s \in Sessions, Reconcile(s) PROVE DueIsSeen'
  <2>1. queue' = queue \ {s} /\ obj' = obj /\ ctl.pc = "idle"
    BY <1>7 DEF Reconcile
  <2>2. CASE ~(obj[s].there /\ Due(obj[s]) # {})
    <3>1. UNCHANGED ctl \/ \A n \in Sessions : ~InHand(n)
      BY <2>1 DEF InHand
    <3> QED BY <2>1, <2>2, <3>1, StillSeen DEF InHand
  <2>3. CASE obj[s].there /\ Due(obj[s]) # {}
    <3>1. \E c : ctl' = [pc |-> "send", session |-> s, command |-> c]
      BY <1>7, <2>3, Zenon DEF Reconcile
    <3>2. InHand(s)'
      BY <3>1 DEF InHand
    <3>3. \A n \in Sessions : ~InHand(n)
      BY <2>1 DEF InHand
    <3> QED BY <2>1, <3>2, <3>3, QueuedSeen
  <2> QED BY <2>2, <2>3
<1>8. ASSUME NEW s \in Sessions, Start(s) \/ End(s) PROVE DueIsSeen'
  BY <1>1, <1>8 DEF Start, End
<1>9. ASSUME NEW p \in Pods, Dispatch(p) PROVE DueIsSeen'
  <2>1. UNCHANGED <<obj, queue>> /\ ctl' = [ctl EXCEPT !.pc = "write"] /\ ctl \in CtlRecord
    BY <1>9 DEF Dispatch, TypeOK, CtlRecord
  <2>2. ctl'.pc = "write" /\ ctl'.session = ctl.session
    BY <2>1 DEF CtlRecord
  <2> QED BY <2>1, <2>2, QueuedSeen DEF InHand
<1>10. ASSUME NEW p \in Pods, DispatchTimesOut(p) PROVE DueIsSeen'
  BY <1>10, QueuedSeen DEF DispatchTimesOut, InHand
<1>11. ASSUME NEW p \in Pods, ApplySessionReport(p) PROVE DueIsSeen'
  BY <1>1, <1>11 DEF ApplySessionReport
<1>12. ASSUME NEW k \in Threads, UpsertStep(k) PROVE DueIsSeen'
  <2>1. ASSUME NEW s \in Sessions, UpsertGet(k, s) PROVE DueIsSeen'
    BY <1>1, <2>1, WriteSeen DEF UpsertGet
  <2>2. ASSUME NEW s \in Sessions, UpsertFails(k, s) PROVE DueIsSeen'
    BY <1>1, <2>2 DEF UpsertFails
  <2>3. CASE UpsertStatus(k)
    <3>1. cur[k] \in Sessions /\ UNCHANGED ctl
      BY <2>3 DEF UpsertStatus, TypeOK
    <3>2. \E p : SetPhase(cur[k], p)
      BY <2>3 DEF UpsertStatus
    <3> QED BY <3>1, <3>2, WriteSeen DEF SetPhase
  <2> QED BY <1>12, <2>1, <2>2, <2>3 DEF UpsertStep
<1>13. CASE CtlFails
  BY <1>13, QueuedSeen DEF CtlFails, InHand
<1>14. CASE Unsupported \/ CtlWrite
  <2>1. ctl.pc # "idle" /\ \E p : SetPhase(ctl.session, p)
    BY <1>14 DEF Unsupported, CtlWrite
  <2> QED BY <1>0, <2>1, WriteSeen DEF SetPhase
<1>15. CASE PollStep
  <2>1. ASSUME NEW s \in Sessions, MarkOrphan(s) PROVE DueIsSeen'
    BY <2>1, WriteSeen DEF MarkOrphan, SetPhase
  <2>2. ASSUME NEW p \in Pods, ProbeSessions(p) PROVE DueIsSeen'
    BY <1>1, <2>2 DEF ProbeSessions
  <2>3. CASE ListOrphans \/ MarkFails
    BY <1>1, <2>3 DEF ListOrphans, MarkFails
  <2>4. CASE CountActiveSessions
    BY <1>1, <2>4, Zenon DEF CountActiveSessions
  <2>5. CASE UpdateCount \/ UpdateCountFails
    BY <1>1, <2>5 DEF UpdateCount, UpdateCountFails
  <2> QED BY <1>15, <2>1, <2>2, <2>3, <2>4, <2>5 DEF PollStep
<1> QED
  BY <1>2, <1>3, <1>4, <1>5, <1>6, <1>7, <1>8, <1>9, <1>10, <1>11, <1>12, <1>13, <1>14, <1>15,
     Zenon DEF Next

(* It is never out of sight. *)
LEMMA DueInvariant == Spec => []DueIsSeen
<1>1. Init => DueIsSeen
  BY DEF Init, DueIsSeen, Absent
<1>2. TypeOK /\ DueIsSeen /\ [Next]_vars => DueIsSeen'
  <2>1. ASSUME DueIsSeen, UNCHANGED vars PROVE DueIsSeen'
    BY <2>1, QueuedSeen DEF vars, InHand
  <2> QED BY <2>1, DueStep
<1> QED BY <1>1, <1>2, SessionTypeCorrect, PTL DEF Spec

(* A command that was accepted is pursued: as long as the phase of the     *)
(* session does not say that it was carried out, the session is queued or  *)
(* in the controller's hands, whatever failed, timed out or was written    *)
(* by others meanwhile (session_controller.go:39-67, 103-178).             *)
AcceptedIsPursued ==
    \A s \in Sessions :
        /\ obj[s].there
        /\ \/ "terminate" \in told[s] /\ obj[s].phase # "Terminated"
           \/ "compress" \in told[s] /\ obj[s].phase # "Compressing"
        => s \in queue \/ InHand(s)

(* See AcceptedIsPursued. *)
THEOREM CommandsArePursued == Spec => []AcceptedIsPursued
<1>1. CommandsKept /\ DueIsSeen => AcceptedIsPursued
  BY DEF CommandsKept, DueIsSeen, AcceptedIsPursued, Due
<1> QED BY <1>1, DueInvariant, CommandsAreNotLost, PTL
=============================================================================
