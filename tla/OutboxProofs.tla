---------------------------- MODULE OutboxProofs ----------------------------
(***************************************************************************)
(* Proofs about the message outbox, for any number of replicas, messages,  *)
(* members and instances: types and the limit on tries, that the status    *)
(* counts the tries, and that no replica forgets a message.                *)
(***************************************************************************)
EXTENDS Outbox, TLAPS

(* A copy of a message that is there is not ahead of the object, and if it *)
(* is as new as the object it is the object, except for its end.           *)
Behind(c, m) ==
    c.state = "there" =>
        /\ msg[m].state # "unused"
        /\ c.rv <= msg[m].rv
        /\ c.rv = msg[m].rv =>
              c.delivered = msg[m].delivered /\ c.attempts = msg[m].attempts

CachesAreBehind == \A r \in Replicas, m \in Messages : Behind(cache[r][m], m)

(* What is being delivered was worth delivering when it was read.          *)
CopiesAreBehind ==
    \A r \in Replicas :
        ctl[r] # IdleCtl =>
            /\ ~Ignored(ctl[r].copy)
            /\ Behind(ctl[r].copy, ctl[r].m)

(* A name that was never given to a message carries nothing. *)
UnusedIsBlank ==
    \A m \in Messages : msg[m].state = "unused" => ~msg[m].delivered /\ msg[m].attempts = 0

(* The inductive invariant. *)
OutboxInv ==
    TypeOK /\ CachesAreBehind /\ CopiesAreBehind /\ UnusedIsBlank
    /\ AttemptsAreTries

-----------------------------------------------------------------------------
(* Messages and reconciliations.                                           *)

(* The fields of a message after a try was recorded. *)
LEMMA TryFields ==
  ASSUME NEW c \in Message, NEW b \in BOOLEAN
  PROVE  LET e == [c EXCEPT !.delivered = b, !.attempts = @ + 1, !.rv = @ + 1]
         IN /\ e \in Message
            /\ e.state = c.state /\ e.delivered = b
            /\ e.attempts = c.attempts + 1 /\ e.rv = c.rv + 1
<1> DEFINE e == [c EXCEPT !.delivered = b, !.attempts = @ + 1, !.rv = @ + 1]
<1>1. c.attempts + 1 \in Nat /\ c.rv + 1 \in Nat
  BY DEF Message
<1>2. e.delivered = b
  BY Zenon DEF Message
<1>3. e.state = c.state /\ e.attempts = c.attempts + 1 /\ e.rv = c.rv + 1
  BY Zenon DEF Message
<1>4. e \in Message
  BY <1>1, Zenon DEF Message
<1> QED BY <1>2, <1>3, <1>4

LEMMA MarkedFields ==
  ASSUME NEW c \in Message, NEW o \in Outcomes
  PROVE  /\ Marked(c, o) \in Message
         /\ Marked(c, o).state = c.state
         /\ Marked(c, o).delivered = (o # "failed")
         /\ Marked(c, o).attempts = c.attempts + 1
         /\ Marked(c, o).rv = c.rv + 1
<1>1. (o # "failed") \in BOOLEAN
  OBVIOUS
<1> QED BY <1>1, TryFields, Zenon DEF Marked

(* The fields of a new message. *)
LEMMA NewFields ==
  ASSUME NEW to \in Roles \cup {None}, team \in BOOLEAN
  PROVE  /\ NewMessage(to) \in Message
         /\ NewMessage(to).state = "there"
         /\ NewMessage(to).delivered = FALSE
         /\ NewMessage(to).attempts = 0
BY DEF NewMessage, Unused, Message

(* The fields of a message that was collected. *)
LEMMA GoneFields ==
  ASSUME NEW c \in Message
  PROVE  LET g == [c EXCEPT !.state = "gone"]
         IN /\ g \in Message
            /\ g.state = "gone" /\ g.delivered = c.delivered
            /\ g.attempts = c.attempts /\ g.rv = c.rv
BY DEF Message

(* The message that no name has. *)
LEMMA UnusedType == Unused \in Message /\ Unused.state = "unused"
                    /\ Unused.delivered = FALSE /\ Unused.attempts = 0
BY DEF Unused, Message

(* What is known of a reconciliation under way. *)
LEMMA BusyFields ==
  ASSUME NEW c \in {IdleCtl} \cup Busy, c.pc \in {"send", "mark"}
  PROVE  /\ c # IdleCtl /\ c.m \in Messages /\ c.copy \in Message
         /\ c.pc = "send" => c.inst \in Instances
         /\ c.pc = "mark" => c.outcome \in Outcomes
BY DEF IdleCtl, Busy

(* The two stages of a reconciliation are what Busy says. *)
LEMMA BusyType ==
  ASSUME NEW m \in Messages, NEW c \in Message
  PROVE  /\ \A i \in Instances :
               LET b == [pc |-> "send", m |-> m, copy |-> c, inst |-> i]
               IN b \in Busy /\ b.pc = "send" /\ b.m = m /\ b.copy = c
         /\ \A o \in Outcomes :
               LET b == [pc |-> "mark", m |-> m, copy |-> c, outcome |-> o]
               IN b \in Busy /\ b.m = m /\ b.copy = c /\ b.outcome = o
         /\ IdleCtl \notin Busy
BY DEF Busy, IdleCtl

-----------------------------------------------------------------------------
(* What a change of one message leaves of the invariant, when the copies   *)
(* that the replicas hold stay as they are.                                *)
LEMMA MessageChanges ==
  ASSUME OutboxInv, NEW m \in Messages, NEW c \in Message,
         msg' = [msg EXCEPT ![m] = c],
         c.state # "unused", c.attempts <= MaxAttempts,
         \/ msg[m].state = "unused"
         \/ c.rv > msg[m].rv
         \/ c.rv = msg[m].rv /\ c.delivered = msg[m].delivered /\ c.attempts = msg[m].attempts
  PROVE  /\ msg' \in [Messages -> Message]
         /\ \A n \in Messages : msg'[n].attempts <= MaxAttempts
         /\ \A d \in Message, n \in Messages : Behind(d, n) => Behind(d, n)'
         /\ UnusedIsBlank'
<1>1. /\ msg \in [Messages -> Message]
      /\ \A n \in Messages : msg[n].attempts <= MaxAttempts
  BY DEF OutboxInv, TypeOK
<1>2. msg' \in [Messages -> Message] /\ msg'[m] = c /\ \A n \in Messages \ {m} : msg'[n] = msg[n]
  BY <1>1
<1>3. \A n \in Messages : msg'[n].attempts <= MaxAttempts
  BY <1>1, <1>2
<1>4. ASSUME NEW d \in Message, NEW n \in Messages, Behind(d, n) PROVE Behind(d, n)'
  <2>1. CASE n # m
    BY <1>2, <1>4, <2>1 DEF Behind
  <2>2. CASE n = m
    <3>1. msg[m] \in Message
      BY <1>1
    <3>2. d.rv \in Nat /\ c.rv \in Nat /\ msg[m].rv \in Nat
      BY <3>1 DEF Message
    <3> QED BY <1>2, <1>4, <2>2, <3>2 DEF Behind
  <2> QED BY <2>1, <2>2
<1>5. UnusedIsBlank'
  BY <1>2 DEF OutboxInv, UnusedIsBlank
<1> QED BY <1>2, <1>3, <1>4, <1>5

(* The copies that exist are messages, so what is behind stays behind. *)
LEMMA CopiesStayBehind ==
  ASSUME OutboxInv, UNCHANGED <<cache, ctl>>,
         \A d \in Message, n \in Messages : Behind(d, n) => Behind(d, n)'
  PROVE  CachesAreBehind' /\ CopiesAreBehind'
<1>1. ASSUME NEW r \in Replicas, NEW n \in Messages PROVE Behind(cache[r][n], n)'
  <2>1. cache[r][n] \in Message
    BY DEF OutboxInv, TypeOK
  <2> QED BY <2>1 DEF OutboxInv, CachesAreBehind
<1>2. ASSUME NEW r \in Replicas, ctl[r] # IdleCtl PROVE Behind(ctl[r].copy, ctl[r].m)'
  <2>1. ctl[r] \in Busy
    BY <1>2 DEF OutboxInv, TypeOK
  <2>2. ctl[r].copy \in Message /\ ctl[r].m \in Messages
    BY <2>1 DEF Busy
  <2> QED BY <1>2, <2>2 DEF OutboxInv, CopiesAreBehind
<1>3. CachesAreBehind'
  <2>1. ASSUME NEW r \in Replicas, NEW n \in Messages PROVE Behind(cache[r][n], n)' /\ cache' = cache
    BY <1>1
  <2> QED BY <2>1 DEF CachesAreBehind, Behind
<1>4. CopiesAreBehind'
  <2>1. ASSUME NEW r \in Replicas, ctl[r] # IdleCtl
        PROVE Behind(ctl[r].copy, ctl[r].m)' /\ ctl' = ctl
    BY <1>2, <2>1
  <2> QED BY <2>1 DEF OutboxInv, CopiesAreBehind, Behind
<1> QED BY <1>3, <1>4

(* As long as no message changes, nothing gets ahead. *)
LEMMA NothingChanges ==
  ASSUME UNCHANGED msg
  PROVE  \A d \in Message, n \in Messages : Behind(d, n) => Behind(d, n)'
BY DEF Behind

(* The next stage of one reconciliation. *)
LEMMA ReconciliationMoves ==
  ASSUME OutboxInv, NEW r \in Replicas, NEW b \in {IdleCtl} \cup Busy,
         ctl' = [ctl EXCEPT ![r] = b],
         \A d \in Message, n \in Messages : Behind(d, n) => Behind(d, n)',
         b # IdleCtl => /\ ~Ignored(b.copy)
                        /\ Behind(b.copy, b.m)
  PROVE  ctl' \in [Replicas -> {IdleCtl} \cup Busy] /\ CopiesAreBehind'
<1>1. ctl \in [Replicas -> {IdleCtl} \cup Busy]
  BY DEF OutboxInv, TypeOK
<1>2. /\ ctl' \in [Replicas -> {IdleCtl} \cup Busy] /\ ctl'[r] = b
      /\ \A q \in Replicas \ {r} : ctl'[q] = ctl[q]
  BY <1>1
<1>3. ASSUME NEW k \in {IdleCtl} \cup Busy, k # IdleCtl, Behind(k.copy, k.m)
      PROVE  Behind(k.copy, k.m)'
  <2>1. k.copy \in Message /\ k.m \in Messages
    BY <1>3 DEF Busy
  <2> QED BY <1>3, <2>1
<1>4. ASSUME NEW q \in Replicas, NEW k \in {IdleCtl} \cup Busy, k = ctl'[q], k # IdleCtl
      PROVE  /\ ~Ignored(k.copy)
             /\ Behind(k.copy, k.m)'
  <2>1. CASE q = r
    BY <1>2, <1>3, <1>4, <2>1
  <2>2. CASE q # r
    <3>1. k = ctl[q]
      BY <1>2, <1>4, <2>2
    <3>2. ~Ignored(k.copy) /\ Behind(k.copy, k.m)
      BY <1>4, <3>1 DEF OutboxInv, CopiesAreBehind
    <3> QED BY <1>3, <1>4, <3>2
  <2> QED BY <2>1, <2>2
<1>5. CopiesAreBehind'
  BY <1>2, <1>4 DEF CopiesAreBehind, Ignored, Behind
<1> QED BY <1>2, <1>5

(* What is left of the invariant when no message and no try changes.       *)
LEMMA NothingRecorded ==
  ASSUME OutboxInv, UNCHANGED <<msg, tries>>
  PROVE  UnusedIsBlank' /\ AttemptsAreTries'
BY DEF OutboxInv, UnusedIsBlank, AttemptsAreTries

-----------------------------------------------------------------------------
(* Every action keeps the invariant.                                       *)

LEMMA InitKeeps ==
  ASSUME Init, OutboxAssumption
  PROVE  OutboxInv
<1>1. msg \in [Messages -> Message]
  BY UnusedType DEF Init
<1>2. \A m \in Messages : msg[m].state = "unused" /\ msg[m].delivered = FALSE /\ msg[m].attempts = 0
  BY UnusedType DEF Init
<1>3. cache \in [Replicas -> [Messages -> Message]]
  BY <1>1 DEF Init
<1>4. \A r \in Replicas, m \in Messages : cache[r][m].state = "unused"
  BY <1>2 DEF Init
<1>5. TypeOK
  BY <1>1, <1>2, <1>3 DEF Init, OutboxAssumption, TypeOK
<1>6. CachesAreBehind /\ CopiesAreBehind
  BY <1>4 DEF Init, CachesAreBehind, CopiesAreBehind, Behind
<1>7. UnusedIsBlank /\ AttemptsAreTries
  BY <1>2 DEF Init, UnusedIsBlank, AttemptsAreTries
<1> QED BY <1>5, <1>6, <1>7 DEF OutboxInv

(* A new message replaces a name that carries nothing. *)
LEMMA CreateKeeps ==
  ASSUME OutboxInv, OutboxAssumption, NEW m \in Messages, NEW to \in Roles \cup {None},
         Create(m, to), bcast' \in SUBSET Roles,
         UNCHANGED <<cache, queue, ctl, hosts, conn, team, faults, tries>>
  PROVE  OutboxInv'
<1> DEFINE c == NewMessage(to)
<1>1. team \in BOOLEAN /\ msg \in [Messages -> Message]
  BY DEF OutboxInv, TypeOK
<1>2. c \in Message /\ c.state = "there" /\ c.delivered = FALSE /\ c.attempts = 0
  BY <1>1, NewFields
<1>3. msg[m].state = "unused" /\ msg' = [msg EXCEPT ![m] = c]
  BY DEF Create
<1>4. c.attempts <= MaxAttempts
  BY <1>2 DEF OutboxAssumption
<1> HIDE DEF c
<1>5. /\ msg' \in [Messages -> Message]
      /\ \A n \in Messages : msg'[n].attempts <= MaxAttempts
      /\ \A d \in Message, n \in Messages : Behind(d, n) => Behind(d, n)'
      /\ UnusedIsBlank'
  BY <1>2, <1>3, <1>4, MessageChanges
<1>6. TypeOK'
  BY <1>5 DEF OutboxInv, TypeOK
<1>7. CachesAreBehind' /\ CopiesAreBehind'
  BY <1>5, CopiesStayBehind
<1>8. ~msg[m].delivered /\ msg[m].attempts = 0
  BY <1>3 DEF OutboxInv, UnusedIsBlank
<1>9. msg'[m] = c /\ \A n \in Messages \ {m} : msg'[n] = msg[n]
  BY <1>1, <1>3
<1>10. AttemptsAreTries'
  BY <1>2, <1>8, <1>9 DEF OutboxInv, AttemptsAreTries
<1> QED BY <1>5, <1>6, <1>7, <1>10 DEF OutboxInv

(* A message is read from the cache, which is behind. *)
LEMMA ReconcileKeeps ==
  ASSUME OutboxInv, NEW r \in Replicas, NEW m \in Messages, Reconcile(r, m)
  PROVE  OutboxInv'
<1>1. cache[r][m] \in Message /\ Behind(cache[r][m], m)
  BY DEF OutboxInv, TypeOK, CachesAreBehind
<1>2. /\ queue' \in [Replicas -> SUBSET Messages]
      /\ UNCHANGED <<msg, cache, hosts, conn, bcast, team, faults, tries>>
  BY DEF Reconcile, Take, OutboxInv, TypeOK
<1>3. UnusedIsBlank' /\ AttemptsAreTries'
  BY <1>2, NothingRecorded
<1>4. CachesAreBehind'
  BY <1>2 DEF OutboxInv, CachesAreBehind, Behind
<1>5. ctl' \in [Replicas -> {IdleCtl} \cup Busy] /\ CopiesAreBehind'
  <2>1. CASE UNCHANGED ctl
    BY <1>2, <2>1 DEF OutboxInv, TypeOK, CopiesAreBehind, Behind
  <2>2. ASSUME NEW i \in Instances, NEW c \in Message, c = cache[r][m], ~Ignored(c),
               ctl' = [ctl EXCEPT ![r] = [pc |-> "send", m |-> m, copy |-> c, inst |-> i]]
        PROVE  ctl' \in [Replicas -> {IdleCtl} \cup Busy] /\ CopiesAreBehind'
    <3> DEFINE b == [pc |-> "send", m |-> m, copy |-> c, inst |-> i]
    <3>1. b \in Busy /\ b.pc = "send" /\ b.m = m /\ b.copy = c
      BY BusyType
    <3>2. ctl' = [ctl EXCEPT ![r] = b]
      BY <2>2
    <3> HIDE DEF b
    <3>3. ~Ignored(b.copy) /\ Behind(b.copy, b.m)
      BY <1>1, <2>2, <3>1
    <3>4. \A d \in Message, n \in Messages : Behind(d, n) => Behind(d, n)'
      BY <1>2, NothingChanges
    <3> QED BY <1>2, <3>1, <3>2, <3>3, <3>4, ReconciliationMoves
  <2>3. \A a : \A i \in GetConnectedInstance(r, a) : i \in Instances
    BY DEF GetConnectedInstance, OutboxInv, TypeOK
  <2> QED BY <1>1, <2>1, <2>2, <2>3 DEF Reconcile, Deliver
<1>6. TypeOK'
  BY <1>2, <1>5 DEF OutboxInv, TypeOK
<1> QED BY <1>3, <1>4, <1>5, <1>6 DEF OutboxInv

(* A delivery goes on with its copy. *)
LEMMA DeliverKeeps ==
  ASSUME OutboxInv, NEW r \in Replicas, DeliverTeamEvent(r)
  PROVE  OutboxInv'
<1>1. /\ ctl[r].pc = "send" /\ ctl[r] \in {IdleCtl} \cup Busy
      /\ UNCHANGED <<msg, cache, queue, hosts, conn, bcast, team, faults, tries>>
  BY DEF DeliverTeamEvent, OutboxInv, TypeOK
<1>2. ctl[r] # IdleCtl /\ ctl[r].m \in Messages /\ ctl[r].copy \in Message
  BY <1>1, BusyFields
<1>3. ~Ignored(ctl[r].copy) /\ Behind(ctl[r].copy, ctl[r].m)
  BY <1>2 DEF OutboxInv, CopiesAreBehind
<1>4. PICK m \in Messages, c \in Message : m = ctl[r].m /\ c = ctl[r].copy
  BY <1>2
<1>5. PICK o \in Outcomes :
         ctl' = [ctl EXCEPT ![r] = [pc |-> "mark", m |-> m, copy |-> c, outcome |-> o]]
  BY <1>4 DEF DeliverTeamEvent, SendOutcomes, Outcomes
<1>7. UnusedIsBlank' /\ AttemptsAreTries'
  BY <1>1, NothingRecorded
<1>8. CachesAreBehind'
  BY <1>1 DEF OutboxInv, CachesAreBehind, Behind
<1>9. ctl' \in [Replicas -> {IdleCtl} \cup Busy] /\ CopiesAreBehind'
  <2> DEFINE b == [pc |-> "mark", m |-> m, copy |-> c, outcome |-> o]
  <2>1. b \in Busy /\ b.m = m /\ b.copy = c /\ b.outcome = o
    BY BusyType
  <2>2. ctl' = [ctl EXCEPT ![r] = b]
    BY <1>5
  <2> HIDE DEF b
  <2>3. ~Ignored(b.copy) /\ Behind(b.copy, b.m)
    BY <1>3, <1>4, <1>5, <2>1
  <2>4. \A d \in Message, n \in Messages : Behind(d, n) => Behind(d, n)'
    BY <1>1, NothingChanges
  <2> QED BY <2>1, <2>2, <2>3, <2>4, ReconciliationMoves
<1>10. TypeOK'
  BY <1>1, <1>9 DEF OutboxInv, TypeOK
<1> QED BY <1>7, <1>8, <1>9, <1>10 DEF OutboxInv

(* What an accepted record finds: the object as it was when it was read,   *)
(* not delivered and with a try left.                                      *)
LEMMA RecordFits ==
  ASSUME OutboxInv, NEW r \in Replicas, Mark(r)
  PROVE  \E m \in Messages, c \in Message, o \in Outcomes :
            /\ m = ctl[r].m /\ c = ctl[r].copy /\ o = ctl[r].outcome
            /\ ~c.delivered /\ ~msg[m].delivered
            /\ c.attempts = msg[m].attempts /\ c.attempts < MaxAttempts
            /\ c.rv = msg[m].rv /\ c.state = "there"
            /\ msg' = [msg EXCEPT ![m] = Marked(c, o)]
            /\ Count(m, o)
            /\ queue' = (IF o = "failed" THEN [queue EXCEPT ![r] = @ \cup {m}] ELSE queue)
<1>1. ctl[r].pc = "mark" /\ ctl[r] \in {IdleCtl} \cup Busy
  BY DEF Mark, OutboxInv, TypeOK
<1>2. /\ ctl[r] # IdleCtl /\ ctl[r].m \in Messages /\ ctl[r].copy \in Message
      /\ ctl[r].outcome \in Outcomes
  BY <1>1, BusyFields
<1>3. /\ ~Ignored(ctl[r].copy) /\ Behind(ctl[r].copy, ctl[r].m)
  BY <1>1, <1>2 DEF OutboxInv, CopiesAreBehind
<1>4. PICK m \in Messages, c \in Message, o \in Outcomes :
         m = ctl[r].m /\ c = ctl[r].copy /\ o = ctl[r].outcome
  BY <1>2
<1>5. Current(m, c) /\ msg' = [msg EXCEPT ![m] = Marked(c, o)] /\ Count(m, o)
      /\ queue' = IF o = "failed" THEN [queue EXCEPT ![r] = @ \cup {m}] ELSE queue
  BY <1>4 DEF Mark
<1>6. c.state = "there" /\ ~c.delivered /\ ~(c.attempts >= MaxAttempts)
  BY <1>3, <1>4 DEF Ignored
<1>7. c.attempts < MaxAttempts
  BY <1>6, OutboxAssumption DEF OutboxAssumption, Message
<1>8. c.rv = msg[m].rv /\ c.delivered = msg[m].delivered /\ c.attempts = msg[m].attempts
  BY <1>3, <1>4, <1>5, <1>6 DEF Behind, Current
<1> QED BY <1>3, <1>4, <1>5, <1>6, <1>7, <1>8

(* Recording a try. *)
LEMMA MarkKeeps ==
  ASSUME OutboxInv, OutboxAssumption, NEW r \in Replicas, Mark(r)
  PROVE  OutboxInv'
<1>1. PICK m \in Messages, c \in Message, o \in Outcomes :
         /\ m = ctl[r].m /\ c = ctl[r].copy /\ o = ctl[r].outcome
         /\ ~c.delivered /\ ~msg[m].delivered
         /\ c.attempts = msg[m].attempts /\ c.attempts < MaxAttempts
         /\ c.rv = msg[m].rv /\ c.state = "there"
         /\ msg' = [msg EXCEPT ![m] = Marked(c, o)]
         /\ Count(m, o)
         /\ queue' = (IF o = "failed" THEN [queue EXCEPT ![r] = @ \cup {m}] ELSE queue)
  BY RecordFits
<1>2. ctl' = [ctl EXCEPT ![r] = IdleCtl]
      /\ UNCHANGED <<cache, hosts, conn, bcast, team, faults>>
  BY DEF Mark
<1>3. PICK d \in Message : d = Marked(c, o)
  BY MarkedFields
<1>4. /\ d.state = "there" /\ d.delivered = (o # "failed")
      /\ d.attempts = c.attempts + 1 /\ d.rv = c.rv + 1
  BY <1>1, <1>3, MarkedFields
<1>5. c.attempts \in Nat /\ c.rv \in Nat /\ MaxAttempts \in Nat
  BY DEF OutboxAssumption, Message
<1>6. d.attempts <= MaxAttempts /\ d.rv > msg[m].rv
  BY <1>1, <1>4, <1>5
<1>7. msg' = [msg EXCEPT ![m] = d]
  BY <1>1, <1>3
<1>8. /\ msg' \in [Messages -> Message]
      /\ \A n \in Messages : msg'[n].attempts <= MaxAttempts
      /\ \A e \in Message, n \in Messages : Behind(e, n) => Behind(e, n)'
      /\ UnusedIsBlank'
  BY <1>4, <1>6, <1>7, MessageChanges
<1>9. ctl' \in [Replicas -> {IdleCtl} \cup Busy] /\ CopiesAreBehind'
  BY <1>2, <1>8, ReconciliationMoves
<1>10. CachesAreBehind'
  <2>1. ASSUME NEW q \in Replicas, NEW n \in Messages PROVE Behind(cache[q][n], n)'
    <3>1. PICK e \in Message : e = cache[q][n]
      BY DEF OutboxInv, TypeOK
    <3>2. Behind(e, n)'
      BY <1>8, <3>1 DEF OutboxInv, CachesAreBehind
    <3> QED BY <1>2, <3>1, <3>2 DEF Behind
  <2> QED BY <2>1 DEF CachesAreBehind
<1>11. msg'[m] = d /\ \A n \in Messages \ {m} : msg'[n] = msg[n]
  BY <1>7 DEF OutboxInv, TypeOK
<1>12. /\ tries \in [Messages -> [ok : Nat, failed : Nat]]
       /\ tries[m].ok = 0 /\ msg[m].attempts = tries[m].ok + tries[m].failed
  BY <1>1 DEF OutboxInv, TypeOK, AttemptsAreTries
<1>13. CASE o = "failed"
  <2>1. tries' = [tries EXCEPT ![m].failed = @ + 1]
    BY <1>1, <1>13 DEF Count
  <2>2. /\ tries' \in [Messages -> [ok : Nat, failed : Nat]]
        /\ tries'[m].ok = tries[m].ok /\ tries'[m].failed = tries[m].failed + 1
        /\ \A n \in Messages \ {m} : tries'[n] = tries[n]
    BY <1>12, <2>1
  <2>3. AttemptsAreTries'
    <3>1. d.delivered = FALSE
      BY <1>4, <1>13
    <3>2. (IF d.delivered THEN 1 ELSE 0) = 0
      BY <3>1
    <3>3. tries[m].ok \in Nat /\ tries[m].failed \in Nat
      BY <1>12
    <3>4. d.attempts = tries'[m].ok + tries'[m].failed
      BY <1>1, <1>4, <1>12, <2>2, <3>3
    <3>5. tries'[m].ok = 0
      BY <1>12, <2>2
    <3>6. /\ msg'[m].attempts = tries'[m].ok + tries'[m].failed
          /\ tries'[m].ok = (IF msg'[m].delivered THEN 1 ELSE 0)
      BY <1>11, <3>2, <3>4, <3>5
    <3>7. ASSUME NEW n \in Messages \ {m}
          PROVE  /\ msg'[n].attempts = tries'[n].ok + tries'[n].failed
                 /\ tries'[n].ok = (IF msg'[n].delivered THEN 1 ELSE 0)
      BY <1>11, <2>2 DEF OutboxInv, AttemptsAreTries
    <3> QED BY <3>6, <3>7 DEF AttemptsAreTries
  <2>5. queue' \in [Replicas -> SUBSET Messages]
    BY <1>1 DEF OutboxInv, TypeOK
  <2>6. TypeOK'
    BY <1>2, <1>8, <1>9, <2>2, <2>5 DEF OutboxInv, TypeOK
  <2> QED BY <1>8, <1>9, <1>10, <2>3, <2>6 DEF OutboxInv
<1>14. CASE o # "failed"
  <2>1. tries' = [tries EXCEPT ![m].ok = @ + 1]
    BY <1>1, <1>14 DEF Count
  <2>2. /\ tries' \in [Messages -> [ok : Nat, failed : Nat]]
        /\ tries'[m].ok = tries[m].ok + 1 /\ tries'[m].failed = tries[m].failed
        /\ \A n \in Messages \ {m} : tries'[n] = tries[n]
    BY <1>12, <2>1
  <2>3. AttemptsAreTries'
    <3>1. d.delivered = TRUE
      BY <1>4, <1>14
    <3>2. (IF d.delivered THEN 1 ELSE 0) = 1
      BY <3>1
    <3>3. tries[m].ok \in Nat /\ tries[m].failed \in Nat
      BY <1>12
    <3>4. d.attempts = tries'[m].ok + tries'[m].failed
      BY <1>1, <1>4, <1>12, <2>2, <3>3
    <3>5. tries'[m].ok = 1
      BY <1>12, <2>2
    <3>6. /\ msg'[m].attempts = tries'[m].ok + tries'[m].failed
          /\ tries'[m].ok = (IF msg'[m].delivered THEN 1 ELSE 0)
      BY <1>11, <3>2, <3>4, <3>5
    <3>7. ASSUME NEW n \in Messages \ {m}
          PROVE  /\ msg'[n].attempts = tries'[n].ok + tries'[n].failed
                 /\ tries'[n].ok = (IF msg'[n].delivered THEN 1 ELSE 0)
      BY <1>11, <2>2 DEF OutboxInv, AttemptsAreTries
    <3> QED BY <3>6, <3>7 DEF AttemptsAreTries
  <2>5. TypeOK'
    BY <1>1, <1>2, <1>8, <1>9, <1>14, <2>2 DEF OutboxInv, TypeOK
  <2> QED BY <1>8, <1>9, <1>10, <2>3, <2>5 DEF OutboxInv
<1> QED BY <1>13, <1>14

(* A record that is not written changes the work queue only. *)
LEMMA MarkRefusedKeeps ==
  ASSUME OutboxInv, OutboxAssumption, NEW r \in Replicas, MarkRefused(r)
  PROVE  OutboxInv'
<1>1. ctl[r].pc = "mark" /\ ctl[r] \in {IdleCtl} \cup Busy
  BY DEF MarkRefused, OutboxInv, TypeOK
<1>2. ctl[r].m \in Messages
  BY <1>1, BusyFields
<1>3. /\ queue' = [queue EXCEPT ![r] = @ \cup {ctl[r].m}]
      /\ ctl' = [ctl EXCEPT ![r] = IdleCtl]
      /\ UNCHANGED <<msg, cache, hosts, conn, bcast, team, tries>>
  BY DEF MarkRefused
<1>4. faults' \in 0..MaxFaults
  BY DEF MarkRefused, OutboxInv, TypeOK, OutboxAssumption
<1>5. UnusedIsBlank' /\ AttemptsAreTries'
  BY <1>3, NothingRecorded
<1>6. ctl' \in [Replicas -> {IdleCtl} \cup Busy] /\ CopiesAreBehind'
  BY <1>3, NothingChanges, ReconciliationMoves
<1>7. CachesAreBehind'
  BY <1>3 DEF OutboxInv, CachesAreBehind, Behind
<1>8. TypeOK'
  BY <1>2, <1>3, <1>4, <1>6 DEF OutboxInv, TypeOK
<1> QED BY <1>5, <1>6, <1>7, <1>8 DEF OutboxInv

(* The object is not ahead of itself. *)
LEMMA ObjectIsBehind ==
  ASSUME OutboxInv, NEW m \in Messages
  PROVE  Behind(msg[m], m)
<1>1. msg[m] \in Message
  BY DEF OutboxInv, TypeOK
<1>2. msg[m].rv \in Nat
  BY <1>1 DEF Message
<1> QED BY <1>2 DEF Behind

(* An informer event copies an object. *)
LEMMA SyncKeeps ==
  ASSUME OutboxInv, NEW r \in Replicas, NEW m \in Messages, Sync(r, m)
  PROVE  OutboxInv'
<1>1. /\ cache' = [cache EXCEPT ![r] = [cache[r] EXCEPT ![m] = msg[m]]]
      /\ queue' = [queue EXCEPT ![r] = @ \cup {m}]
      /\ UNCHANGED <<msg, ctl, hosts, conn, bcast, team, faults, tries>>
  BY DEF Sync
<1>2. UnusedIsBlank' /\ AttemptsAreTries'
  BY <1>1, NothingRecorded
<1>3. CopiesAreBehind'
  BY <1>1 DEF OutboxInv, CopiesAreBehind, Behind
<1>4. /\ cache \in [Replicas -> [Messages -> Message]] /\ msg[m] \in Message
      /\ queue \in [Replicas -> SUBSET Messages]
  BY DEF OutboxInv, TypeOK
<1>5. /\ cache' \in [Replicas -> [Messages -> Message]]
      /\ queue' \in [Replicas -> SUBSET Messages]
  BY <1>1, <1>4
<1>6. CachesAreBehind'
  <2>1. ASSUME NEW q \in Replicas, NEW n \in Messages
        PROVE  cache'[q][n] = msg[n] \/ cache'[q][n] = cache[q][n]
    BY <1>1, <1>4
  <2>2. ASSUME NEW q \in Replicas, NEW n \in Messages
        PROVE  Behind(cache[q][n], n) /\ Behind(msg[n], n)
    BY ObjectIsBehind DEF OutboxInv, CachesAreBehind
  <2> QED BY <1>1, <2>1, <2>2 DEF CachesAreBehind, Behind
<1>7. TypeOK'
  BY <1>1, <1>5 DEF OutboxInv, TypeOK
<1> QED BY <1>2, <1>3, <1>6, <1>7 DEF OutboxInv

(* A replica that starts again has copies of the objects. *)
LEMMA RestartKeeps ==
  ASSUME OutboxInv, OutboxAssumption, NEW r \in Replicas, Restart(r)
  PROVE  OutboxInv'
<1>1. /\ ctl' = [ctl EXCEPT ![r] = IdleCtl] /\ conn' = [conn EXCEPT ![r] = {}]
      /\ cache' = [cache EXCEPT ![r] = msg]
      /\ queue' = [queue EXCEPT ![r] = {m \in Messages : msg[m].state = "there"}]
      /\ UNCHANGED <<msg, hosts, bcast, team, tries>>
  BY DEF Restart
<1>2. UnusedIsBlank' /\ AttemptsAreTries'
  BY <1>1, NothingRecorded
<1>3. ctl' \in [Replicas -> {IdleCtl} \cup Busy] /\ CopiesAreBehind'
  BY <1>1, NothingChanges, ReconciliationMoves
<1>4. /\ cache \in [Replicas -> [Messages -> Message]] /\ msg \in [Messages -> Message]
  BY DEF OutboxInv, TypeOK
<1>5. CachesAreBehind'
  <2>1. ASSUME NEW q \in Replicas, NEW n \in Messages
        PROVE  cache'[q][n] = msg[n] \/ cache'[q][n] = cache[q][n]
    BY <1>1, <1>4
  <2>2. ASSUME NEW q \in Replicas, NEW n \in Messages
        PROVE  Behind(cache[q][n], n) /\ Behind(msg[n], n)
    BY ObjectIsBehind DEF OutboxInv, CachesAreBehind
  <2> QED BY <1>1, <2>1, <2>2 DEF CachesAreBehind, Behind
<1>6. faults' \in 0..MaxFaults
  BY DEF Restart, OutboxInv, TypeOK, OutboxAssumption
<1>7. /\ queue' \in [Replicas -> SUBSET Messages] /\ conn' \in [Replicas -> SUBSET Instances]
      /\ cache' \in [Replicas -> [Messages -> Message]]
  BY <1>1, <1>4 DEF OutboxInv, TypeOK
<1>8. TypeOK'
  BY <1>1, <1>3, <1>6, <1>7 DEF OutboxInv, TypeOK
<1> QED BY <1>2, <1>3, <1>5, <1>8 DEF OutboxInv

(* A message that was collected keeps its status. *)
LEMMA CollectKeeps ==
  ASSUME OutboxInv, NEW m \in Messages, Collect(m)
  PROVE  OutboxInv'
<1>1. msg \in [Messages -> Message] /\ msg[m].attempts <= MaxAttempts
  BY DEF OutboxInv, TypeOK
<1>2. PICK d \in Message : d = [msg[m] EXCEPT !.state = "gone"]
  BY <1>1, GoneFields
<1>3. /\ d.state = "gone" /\ d.delivered = msg[m].delivered
      /\ d.attempts = msg[m].attempts /\ d.rv = msg[m].rv
  BY <1>1, <1>2, GoneFields
<1>4. /\ msg' = [msg EXCEPT ![m] = d]
      /\ UNCHANGED <<cache, queue, ctl, hosts, conn, bcast, team, faults, tries>>
  BY <1>2 DEF Collect
<1>5. /\ msg' \in [Messages -> Message]
      /\ \A n \in Messages : msg'[n].attempts <= MaxAttempts
      /\ \A e \in Message, n \in Messages : Behind(e, n) => Behind(e, n)'
      /\ UnusedIsBlank'
  BY <1>1, <1>3, <1>4, MessageChanges
<1>6. CachesAreBehind' /\ CopiesAreBehind'
  BY <1>4, <1>5, CopiesStayBehind
<1>7. msg'[m] = d /\ \A n \in Messages \ {m} : msg'[n] = msg[n]
  BY <1>1, <1>4
<1>8. AttemptsAreTries'
  BY <1>3, <1>4, <1>7 DEF OutboxInv, AttemptsAreTries
<1>9. TypeOK'
  BY <1>4, <1>5 DEF OutboxInv, TypeOK
<1> QED BY <1>5, <1>6, <1>8, <1>9 DEF OutboxInv

(* The rest changes streams, sessions, the team and broadcasts only. *)
LEMMA OthersKeep ==
  ASSUME OutboxInv, UNCHANGED <<msg, cache, queue, ctl, faults, tries>>,
         hosts' \in [Replicas -> [Roles -> Agents \cup {None}]], conn' \in [Replicas -> SUBSET Instances],
         bcast' \in SUBSET Roles, team' \in BOOLEAN
  PROVE  OutboxInv'
<1>1. UnusedIsBlank' /\ AttemptsAreTries'
  BY NothingRecorded
<1>2. CachesAreBehind' /\ CopiesAreBehind'
  BY NothingChanges, CopiesStayBehind
<1>3. TypeOK'
  BY DEF OutboxInv, TypeOK
<1> QED BY <1>1, <1>2, <1>3 DEF OutboxInv

-----------------------------------------------------------------------------
(* Every step keeps the invariant. *)
LEMMA NextKeeps ==
  ASSUME OutboxInv, OutboxAssumption, [Next]_vars
  PROVE  OutboxInv'
<1>0. /\ hosts \in [Replicas -> [Roles -> Agents \cup {None}]] /\ conn \in [Replicas -> SUBSET Instances]
      /\ bcast \in SUBSET Roles /\ team \in BOOLEAN
  BY DEF OutboxInv, TypeOK
<1>1. ASSUME NEW m \in Messages, sendTeamMessage(m) PROVE OutboxInv'
  BY <1>0, <1>1, CreateKeeps DEF sendTeamMessage, RouteMessage
<1>2. ASSUME NEW r \in Replicas, NEW from \in Roles \cup {None}, BroadcastMessage(r, from)
      PROVE  OutboxInv'
  BY <1>0, <1>2, OthersKeep DEF BroadcastMessage, teamMemberRoles
<1>3. ASSUME NEW m \in Messages, NEW to \in Roles, BroadcastCreate(m, to) PROVE OutboxInv'
  BY <1>0, <1>3, CreateKeeps DEF BroadcastCreate
<1>4. CASE BroadcastFails
  BY <1>0, <1>4, OthersKeep DEF BroadcastFails
<1>5. ASSUME NEW r \in Replicas, Watch(r) \/ Restart(r) PROVE OutboxInv'
  BY <1>5, ReconcileKeeps, SyncKeeps, DeliverKeeps, MarkKeeps, MarkRefusedKeeps, RestartKeeps
     DEF Watch
<1>6. ASSUME NEW r \in Replicas, NEW i \in Instances, Connect(r, i) \/ Disconnect(r, i)
      PROVE  OutboxInv'
  <2>1. conn' \in [Replicas -> SUBSET Instances]
        /\ UNCHANGED <<msg, cache, queue, ctl, hosts, bcast, team, faults, tries>>
    BY <1>0, <1>6 DEF Connect, Disconnect
  <2> QED BY <1>0, <2>1, OthersKeep
<1>7. ASSUME NEW r \in Replicas, NEW k \in Roles, NEW a \in Agents \cup {None}, Host(r, k, a)
      PROVE  OutboxInv'
  <2>1. hosts' \in [Replicas -> [Roles -> Agents \cup {None}]]
        /\ UNCHANGED <<msg, cache, queue, ctl, conn, bcast, team, faults, tries>>
    BY <1>0, <1>7 DEF Host
  <2> QED BY <1>0, <2>1, OthersKeep
<1>8. CASE DeleteTeam
  BY <1>0, <1>8, OthersKeep DEF DeleteTeam
<1>9. ASSUME NEW m \in Messages, Collect(m) PROVE OutboxInv'
  BY <1>9, CollectKeeps
<1>10. CASE UNCHANGED vars
  BY <1>0, <1>10, OthersKeep DEF vars
<1> QED BY <1>1, <1>2, <1>3, <1>4, <1>5, <1>6, <1>7, <1>8, <1>9, <1>10 DEF Next

(* The invariant holds. *)
LEMMA Invariance == Spec => []OutboxInv
<1>1. Init => OutboxInv
  BY InitKeeps, OutboxAssumption
<1>2. OutboxInv /\ [Next]_vars => OutboxInv'
  BY NextKeeps, OutboxAssumption
<1> QED BY <1>1, <1>2, PTL DEF Spec

(* Every variable keeps its type, and no message is tried more than        *)
(* MaxAttempts times, whichever replicas try it.                           *)
THEOREM OutboxTypeCorrect == Spec => []TypeOK
<1>1. OutboxInv => TypeOK
  BY DEF OutboxInv
<1> QED BY <1>1, Invariance, PTL

(* However many replicas try a message and write what they computed from   *)
(* copies of their own, its status counts the tries that were recorded.    *)
THEOREM TriesAreCounted == Spec => []AttemptsAreTries
<1>1. OutboxInv => AttemptsAreTries
  BY DEF OutboxInv
<1> QED BY <1>1, Invariance, PTL

-----------------------------------------------------------------------------
(* No message is forgotten.                                                *)

(* A change of a message is news to every replica. *)
LEMMA ChangesAreNews ==
  ASSUME NothingForgotten, msg \in [Messages -> Message], NEW m \in Messages, NEW c,
         msg' = [msg EXCEPT ![m] = c], UNCHANGED cache,
         Ignored(c) \/ (\A r \in Replicas : cache[r][m] # c),
         \A r \in Replicas : queue[r] \subseteq queue'[r],
         \A r \in Replicas, n \in Messages : InHand(r, n) /\ n # m => InHand(r, n)'
  PROVE  NothingForgotten'
<1> SUFFICES ASSUME NEW r \in Replicas, NEW n \in Messages,
                    ~Ignored(msg'[n]), cache'[r][n] = msg'[n]
             PROVE  n \in queue'[r] \/ InHand(r, n)'
  BY Zenon DEF NothingForgotten
<1>1. msg'[m] = c /\ (n # m => msg'[n] = msg[n])
  OBVIOUS
<1>2. n # m
  BY <1>1
<1>3. n \in queue[r] \/ InHand(r, n)
  BY <1>1, <1>2 DEF NothingForgotten
<1> QED BY <1>2, <1>3

(* When no message changes, what leaves the queue is in hand or ignored,   *)
(* and what leaves the hands is in the queue.                              *)
LEMMA NothingIsDropped ==
  ASSUME NothingForgotten, UNCHANGED <<msg, cache>>,
         \A r \in Replicas, n \in Messages :
            (n \in queue[r] \/ InHand(r, n)) =>
               n \in queue'[r] \/ InHand(r, n)' \/ Ignored(cache[r][n])
  PROVE  NothingForgotten'
<1> SUFFICES ASSUME NEW r \in Replicas, NEW n \in Messages,
                    ~Ignored(msg[n]), cache[r][n] = msg[n]
             PROVE  n \in queue'[r] \/ InHand(r, n)'
  BY Zenon DEF NothingForgotten
<1> QED BY DEF NothingForgotten

(* A new message is news. *)
LEMMA CreateRemembers ==
  ASSUME OutboxInv, NothingForgotten, NEW m \in Messages, NEW to, Create(m, to),
         UNCHANGED <<cache, queue, ctl>>
  PROVE  NothingForgotten'
<1>1. msg' = [msg EXCEPT ![m] = NewMessage(to)] /\ msg[m].state = "unused"
  BY DEF Create
<1>2. NewMessage(to).state = "there"
  BY DEF NewMessage, Unused
<1>3. \A r \in Replicas : cache[r][m] # NewMessage(to)
  BY <1>1, <1>2 DEF OutboxInv, CachesAreBehind, Behind
<1>4. \A r \in Replicas, n \in Messages : InHand(r, n) => InHand(r, n)'
  BY DEF InHand
<1>5. msg \in [Messages -> Message]
  BY DEF OutboxInv, TypeOK
<1> QED BY <1>1, <1>3, <1>4, <1>5, ChangesAreNews

(* The watcher of a replica drops nothing, *)
LEMMA WatchRemembers ==
  ASSUME OutboxInv, OutboxAssumption, NothingForgotten, NEW r \in Replicas, Watch(r)
  PROVE  NothingForgotten'
<1>0. /\ msg \in [Messages -> Message] /\ cache \in [Replicas -> [Messages -> Message]]
      /\ queue \in [Replicas -> SUBSET Messages] /\ ctl \in [Replicas -> {IdleCtl} \cup Busy]
  BY DEF OutboxInv, TypeOK
<1>1. ASSUME NEW m \in Messages, Reconcile(r, m) PROVE NothingForgotten'
  <2>1. /\ UNCHANGED <<msg, cache>> /\ ctl[r] = IdleCtl
        /\ queue' = [queue EXCEPT ![r] = @ \ {m}]
    BY <1>1 DEF Reconcile, Take
  <2>2. \/ Ignored(cache[r][m]) /\ UNCHANGED ctl
        \/ InHand(r, m)' /\ \A q \in Replicas \ {r} : ctl'[q] = ctl[q]
    <3>1. CASE Ignored(cache[r][m]) /\ UNCHANGED ctl
      BY <3>1
    <3>2. ASSUME NEW i, ctl' = [ctl EXCEPT ![r] = [pc |-> "send", m |-> m,
                                                   copy |-> cache[r][m], inst |-> i]]
          PROVE  InHand(r, m)' /\ \A q \in Replicas \ {r} : ctl'[q] = ctl[q]
      <4> DEFINE b == [pc |-> "send", m |-> m, copy |-> cache[r][m], inst |-> i]
      <4>1. b.m = m /\ b.pc = "send"
        OBVIOUS
      <4>2. b # IdleCtl
        BY DEF IdleCtl
      <4> HIDE DEF b
      <4>3. ctl' = [ctl EXCEPT ![r] = b]
        BY <3>2 DEF b
      <4>4. ctl'[r] = b /\ \A q \in Replicas \ {r} : ctl'[q] = ctl[q]
        BY <1>0, <4>3
      <4> QED BY <4>1, <4>2, <4>4 DEF InHand
    <3> QED BY <1>1, <3>1, <3>2, Zenon DEF Reconcile, Deliver
  <2>3. \A q \in Replicas, n \in Messages : n \in queue[q] => n \in queue'[q] \/ (q = r /\ n = m)
    BY <1>0, <2>1
  <2>4. \A q \in Replicas, n \in Messages : InHand(q, n) => InHand(q, n)'
    BY <2>1, <2>2 DEF InHand
  <2> QED BY <2>1, <2>2, <2>3, <2>4, NothingIsDropped
<1>2. ASSUME NEW m \in Messages, Sync(r, m) PROVE NothingForgotten'
  <2>1. /\ UNCHANGED <<msg, ctl>> /\ cache' = [cache EXCEPT ![r][m] = msg[m]]
        /\ queue' = [queue EXCEPT ![r] = @ \cup {m}]
    BY <1>2 DEF Sync
  <2>2. /\ \A q \in Replicas : queue[q] \subseteq queue'[q]
        /\ m \in queue'[r]
    BY <1>0, <2>1
  <2>3. \A q \in Replicas, n \in Messages : cache'[q][n] = cache[q][n] \/ (q = r /\ n = m)
    BY <1>0, <2>1
  <2>4. \A q \in Replicas, n \in Messages : InHand(q, n) => InHand(q, n)'
    BY <2>1 DEF InHand
  <2>5. SUFFICES ASSUME NEW q \in Replicas, NEW n \in Messages,
                        ~Ignored(msg[n]), cache'[q][n] = msg[n]
                 PROVE  n \in queue'[q] \/ InHand(q, n)'
    BY <2>1, Zenon DEF NothingForgotten
  <2>6. CASE q = r /\ n = m
    BY <2>2, <2>6
  <2>7. CASE ~(q = r /\ n = m)
    <3>1. n \in queue[q] \/ InHand(q, n)
      BY <2>3, <2>5, <2>7 DEF NothingForgotten
    <3> QED BY <2>2, <2>4, <3>1
  <2> QED BY <2>6, <2>7
<1>3. CASE DeliverTeamEvent(r)
  <2>1. UNCHANGED <<msg, cache, queue>> /\ ctl[r].pc = "send"
    BY <1>3 DEF DeliverTeamEvent
  <2>2. PICK o : ctl' = [ctl EXCEPT ![r] = [pc |-> "mark", m |-> ctl[r].m,
                                            copy |-> ctl[r].copy, outcome |-> o]]
    BY <1>3, Zenon DEF DeliverTeamEvent
  <2> DEFINE b == [pc |-> "mark", m |-> ctl[r].m, copy |-> ctl[r].copy, outcome |-> o]
  <2>3. b.m = ctl[r].m /\ b # IdleCtl
    BY DEF IdleCtl
  <2> HIDE DEF b
  <2>4. ctl' = [ctl EXCEPT ![r] = b]
    BY <2>2 DEF b
  <2>5. ctl'[r] = b /\ \A q \in Replicas \ {r} : ctl'[q] = ctl[q]
    BY <1>0, <2>4
  <2>6. \A q \in Replicas, n \in Messages : InHand(q, n) => InHand(q, n)'
    BY <2>3, <2>5 DEF InHand
  <2> QED BY <2>1, <2>6, NothingIsDropped
<1>4. CASE Mark(r)
  <2>1. PICK m \in Messages, c \in Message, o \in Outcomes :
           /\ m = ctl[r].m /\ c.rv = msg[m].rv /\ c.state = "there"
           /\ msg' = [msg EXCEPT ![m] = Marked(c, o)]
           /\ queue' = (IF o = "failed" THEN [queue EXCEPT ![r] = @ \cup {m}] ELSE queue)
    BY <1>4, RecordFits
  <2>2. Marked(c, o).rv = c.rv + 1 /\ Marked(c, o).state = c.state
    BY MarkedFields
  <2>3. msg[m].rv \in Nat
    BY <1>0 DEF Message
  <2>4. ASSUME NEW q \in Replicas PROVE cache[q][m] # Marked(c, o)
    <3>1. CASE cache[q][m].state # "there"
      BY <2>1, <2>2, <3>1
    <3>2. CASE cache[q][m].state = "there"
      <4>1. cache[q][m].rv <= msg[m].rv /\ cache[q][m].rv \in Nat
        BY <1>0, <3>2 DEF OutboxInv, CachesAreBehind, Behind, Message
      <4> QED BY <2>1, <2>2, <2>3, <4>1
    <3> QED BY <3>1, <3>2
  <2>5. \A q \in Replicas : queue[q] \subseteq queue'[q]
    BY <1>0, <2>1
  <2>6. UNCHANGED cache /\ ctl' = [ctl EXCEPT ![r] = IdleCtl]
    BY <1>4 DEF Mark
  <2>7. \A q \in Replicas, n \in Messages : InHand(q, n) /\ n # m => InHand(q, n)'
    BY <1>0, <2>1, <2>6 DEF InHand
  <2> DEFINE d == Marked(c, o)
  <2>8. msg' = [msg EXCEPT ![m] = d] /\ (\A q \in Replicas : cache[q][m] # d)
    BY <2>1, <2>4, Zenon
  <2> HIDE DEF d
  <2>9. msg \in [Messages -> Message] /\ UNCHANGED cache
    BY <1>0, <2>6
  <2> QED BY <2>5, <2>7, <2>8, <2>9, ChangesAreNews
<1>5. CASE MarkRefused(r)
  <2>1. /\ UNCHANGED <<msg, cache>> /\ ctl' = [ctl EXCEPT ![r] = IdleCtl]
        /\ queue' = [queue EXCEPT ![r] = @ \cup {ctl[r].m}]
    BY <1>5 DEF MarkRefused
  <2>2. /\ \A q \in Replicas : queue[q] \subseteq queue'[q]
        /\ ctl[r].m \in queue'[r]
    BY <1>0, <2>1
  <2>3. \A q \in Replicas \ {r} : ctl'[q] = ctl[q]
    BY <1>0, <2>1
  <2>4. \A q \in Replicas, n \in Messages : InHand(q, n) => n \in queue'[q] \/ InHand(q, n)'
    BY <2>2, <2>3 DEF InHand
  <2> QED BY <2>1, <2>2, <2>4, NothingIsDropped
<1> QED BY <1>1, <1>2, <1>3, <1>4, <1>5 DEF Watch

(* nor does anything else. *)
LEMMA NextRemembers ==
  ASSUME OutboxInv, OutboxAssumption, NothingForgotten, [Next]_vars
  PROVE  NothingForgotten'
<1>1. ASSUME UNCHANGED <<msg, cache, queue, ctl>> PROVE NothingForgotten'
  BY <1>1 DEF NothingForgotten, InHand
<1>2. ASSUME NEW m \in Messages, sendTeamMessage(m) PROVE NothingForgotten'
  BY <1>2, CreateRemembers DEF sendTeamMessage, RouteMessage
<1>3. ASSUME NEW m \in Messages, NEW to \in Roles, BroadcastCreate(m, to) PROVE NothingForgotten'
  BY <1>3, CreateRemembers DEF BroadcastCreate
<1>4. ASSUME NEW r \in Replicas, Restart(r) PROVE NothingForgotten'
  <2>1. /\ UNCHANGED msg /\ ctl' = [ctl EXCEPT ![r] = IdleCtl]
        /\ cache' = [cache EXCEPT ![r] = msg]
        /\ queue' = [queue EXCEPT ![r] = {m \in Messages : msg[m].state = "there"}]
    BY <1>4 DEF Restart
  <2>2. /\ ctl \in [Replicas -> {IdleCtl} \cup Busy] /\ queue \in [Replicas -> SUBSET Messages]
        /\ cache \in [Replicas -> [Messages -> Message]]
    BY DEF OutboxInv, TypeOK
  <2>3. SUFFICES ASSUME NEW q \in Replicas, NEW n \in Messages,
                        ~Ignored(msg[n]), cache'[q][n] = msg[n]
                 PROVE  n \in queue'[q] \/ InHand(q, n)'
    BY <2>1, Zenon DEF NothingForgotten
  <2>4. CASE q = r
    <3>1. msg[n].state = "there"
      BY <2>3 DEF Ignored
    <3> QED BY <2>1, <2>2, <2>4, <3>1
  <2>5. CASE q # r
    <3>1. cache'[q] = cache[q] /\ queue'[q] = queue[q] /\ ctl'[q] = ctl[q]
      BY <2>1, <2>2, <2>5
    <3> QED BY <2>3, <3>1 DEF NothingForgotten, InHand
  <2> QED BY <2>4, <2>5
<1>5. ASSUME NEW m \in Messages, Collect(m) PROVE NothingForgotten'
  <2>1. msg' = [msg EXCEPT ![m].state = "gone"] /\ UNCHANGED <<cache, queue, ctl>>
    BY <1>5 DEF Collect
  <2>2. msg \in [Messages -> Message]
    BY DEF OutboxInv, TypeOK
  <2> DEFINE c == [msg[m] EXCEPT !.state = "gone"]
  <2>3. c.state = "gone"
    BY <2>2 DEF Message
  <2>4. msg' = [msg EXCEPT ![m] = c]
    BY <2>1
  <2> HIDE DEF c
  <2>5. Ignored(c)
    BY <2>3 DEF Ignored
  <2>6. \A q \in Replicas, n \in Messages : InHand(q, n) => InHand(q, n)'
    BY <2>1 DEF InHand
  <2> QED BY <2>1, <2>2, <2>4, <2>5, <2>6, ChangesAreNews
<1>6. CASE UNCHANGED vars
  BY <1>1, <1>6 DEF vars
<1>7. ASSUME NEW r, NEW from, BroadcastMessage(r, from) PROVE NothingForgotten'
  BY <1>1, <1>7 DEF BroadcastMessage
<1>8. CASE BroadcastFails \/ DeleteTeam
  BY <1>1, <1>8 DEF BroadcastFails, DeleteTeam
<1>9. ASSUME NEW r, NEW i, Connect(r, i) \/ Disconnect(r, i) PROVE NothingForgotten'
  BY <1>1, <1>9 DEF Connect, Disconnect
<1>10. ASSUME NEW r, NEW k, NEW a, Host(r, k, a) PROVE NothingForgotten'
  BY <1>1, <1>10 DEF Host
<1> QED
  BY <1>2, <1>3, <1>4, <1>5, <1>6, <1>7, <1>8, <1>9, <1>10, WatchRemembers, Zenon DEF Next

(* See NothingForgotten. *)
THEOREM NoMessageIsForgotten == Spec => []NothingForgotten
<1>1. Init => NothingForgotten
  BY DEF Init, NothingForgotten, Ignored, Unused
<1>2. OutboxInv /\ NothingForgotten /\ [Next]_vars => NothingForgotten'
  BY NextRemembers, OutboxAssumption
<1> QED BY <1>1, <1>2, Invariance, PTL DEF Spec
=============================================================================
