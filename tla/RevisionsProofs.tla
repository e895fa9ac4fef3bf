-------------------------- MODULE RevisionsProofs --------------------------
(***************************************************************************)
(* Proofs about the revision history, for any number of requests, specs    *)
(* and revisions and any history and snapshot limits.                      *)
(***************************************************************************)
EXTENDS Revisions, SequenceTheorems, TLAPS

(* The annotation entry of a log entry. *)
EntryOf(e) == [rev |-> e.rev, snap |-> e.snap]

(* A full history is the same function of the log, one entry later.        *)
LEMMA RecentAppend ==
  ASSUME NEW l \in Seq(Logged), NEW e \in Logged
  PROVE  Recent(Append(l, e)) = appendRevision(Recent(l), EntryOf(e))
<1> USE RevisionsAssumption
<1> DEFINE H == MaxRevisionHistory
           S == MaxSnapshotRevisions
           n == Len(l)
           m == IF n > H THEN H ELSE n
           le == Append(l, e)
           k == IF Len(le) > H THEN H ELSE Len(le)
           all == Append(Recent(l), EntryOf(e))
           drop == IF Len(all) > H THEN Len(all) - H ELSE 0
           left(i) == [rev |-> le[Len(le) - k + i].rev,
                       snap |-> IF i <= k - S THEN None ELSE le[Len(le) - k + i].snap]
           right(i) == IF i <= k - S THEN Strip(all[i + drop]) ELSE all[i + drop]
<1>0. H \in Nat \ {0} /\ S \in Nat \ {0}
  OBVIOUS
<1>1. /\ n \in Nat /\ DOMAIN l = 1..n
      /\ m \in Nat /\ k \in Nat
      /\ n <= H => m = n /\ k = (IF n = H THEN n ELSE n + 1)
      /\ n > H => m = H /\ k = H
      /\ k <= n + 1
  BY <1>0
<1>f. /\ m = (IF n > H THEN H ELSE n)
      /\ k = (IF n + 1 > H THEN H ELSE n + 1)
      /\ drop = (IF Len(all) > H THEN Len(all) - H ELSE 0)
      /\ n = Len(l)
      /\ le = Append(l, e)
      /\ all = Append(Recent(l), EntryOf(e))
  OBVIOUS
<1> HIDE DEF H, S, n, m, k, drop, le, all
<1>2. le \in Seq(Logged) /\ Len(le) = n + 1 /\ le[n + 1] = e /\ \A i \in 1..n : le[i] = l[i]
  <2>1. /\ Append(l, e) \in Seq(Logged)
        /\ Len(Append(l, e)) = Len(l) + 1
        /\ Append(l, e)[Len(l) + 1] = e
        /\ \A i \in 1..Len(l) : Append(l, e)[i] = l[i]
    OBVIOUS
  <2>2. QED
    BY <1>f, <2>1
<1> DEFINE old(i) == [rev |-> l[n - m + i].rev,
                      snap |-> IF i <= m - S THEN None ELSE l[n - m + i].snap]
<1>3. Recent(l) = [i \in 1..m |-> old(i)]
  BY DEF Recent, m, n, H, S
<1>4. ASSUME NEW i \in 1..m
      PROVE  old(i) \in Entry
  <2>1. n - m + i \in 1..n
    BY <1>0, <1>1
  <2>2. l[n - m + i] \in Logged
    BY <1>1, <2>1
  <2>3. QED
    BY <2>2 DEF Logged, Entry
<1> HIDE DEF old
<1>5. Recent(l) \in Seq(Entry) /\ Len(Recent(l)) = m
  BY <1>1, <1>3, <1>4
<1>6. EntryOf(e) \in Entry
  BY DEF EntryOf, Logged, Entry
<1>7. /\ Len(all) = m + 1
      /\ all[m + 1] = EntryOf(e)
      /\ \A i \in 1..m : all[i] = old(i)
  <2> DEFINE r == Recent(l)
             x == EntryOf(e)
  <2>1. r \in Seq(Entry) /\ x \in Entry
    BY <1>5, <1>6
  <2> HIDE DEF r, x
  <2>2. /\ Len(Append(r, x)) = Len(r) + 1
        /\ Append(r, x)[Len(r) + 1] = x
        /\ \A i \in 1..Len(r) : Append(r, x)[i] = r[i]
    BY <2>1
  <2>3. Len(r) = m /\ all = Append(r, x) /\ \A i \in 1..m : r[i] = old(i)
    BY <1>3, <1>5, <1>f DEF r, x
  <2>4. QED
    BY <2>2, <2>3 DEF x
<1>8. /\ drop \in Nat /\ k = Len(all) - drop /\ k = m + 1 - drop
      /\ n \in Nat /\ m \in Nat /\ k \in Nat /\ m <= n /\ k <= n + 1
  <2>1. Len(all) = m + 1 /\ n \in Nat
    BY <1>1, <1>7
  <2>2. drop = (IF m + 1 > H THEN m + 1 - H ELSE 0)
    BY <1>0, <1>1, <2>1 DEF drop
  <2>3. m = (IF n > H THEN H ELSE n) /\ k = (IF n + 1 > H THEN H ELSE n + 1)
    BY <1>f
  <2>4. CASE n + 1 > H
    <3>1. m = H /\ k = H
      BY <1>0, <2>1, <2>3, <2>4
    <3>2. drop = 1
      BY <1>0, <2>2, <3>1
    <3>3. QED
      BY <1>0, <2>1, <2>4, <3>1, <3>2
  <2>5. CASE ~(n + 1 > H)
    <3>1. m = n /\ k = n + 1
      BY <1>0, <2>1, <2>3, <2>5
    <3>2. drop = 0
      BY <1>0, <2>1, <2>2, <2>5, <3>1
    <3>3. QED
      BY <1>0, <2>1, <3>1, <3>2
  <2>6. QED
    BY <2>4, <2>5
<1>9. Recent(Append(l, e)) = [i \in 1..k |-> left(i)]
  <2>2. Recent(le) = [i \in 1..k |-> left(i)]
    BY DEF Recent, k, H, S
  <2>3. QED
    BY <1>f, <2>2
<1>10. appendRevision(Recent(l), EntryOf(e)) = [i \in 1..k |-> right(i)]
  <2>1. appendRevision(Recent(l), EntryOf(e)) =
          [i \in 1..(Len(all) - drop) |->
             IF i <= (Len(all) - drop) - S THEN Strip(all[i + drop]) ELSE all[i + drop]]
    BY DEF appendRevision, all, drop, S, H
  <2>2. QED
    BY <1>8, <2>1
<1>11. ASSUME NEW i \in 1..k
       PROVE  left(i) = right(i)
  <2> DEFINE j == i + drop
  <2>1. j \in Nat /\ n + 1 - k + i = n - m + j
    BY <1>8
  <2>2. CASE i = k
    <3>1. j = m + 1 /\ n + 1 - k + i = n + 1 /\ ~(i <= k - S)
      BY <1>0, <1>8, <2>2
    <3> HIDE DEF j
    <3>2. Len(le) = n + 1 /\ le[n + 1] = e
      BY <1>2
    <3>2a. left(i) = [rev |-> e.rev, snap |-> e.snap]
      <4>1. Len(le) - k + i = n + 1
        BY <1>8, <2>2, <3>2
      <4>2. QED
        BY <3>1, <3>2, <4>1
    <3>3. right(i) = EntryOf(e)
      BY <1>7, <3>1 DEF j
    <3>4. QED
      BY <3>2a, <3>3 DEF EntryOf
  <2>3. CASE i < k
    <3>1. /\ j \in 1..m
          /\ n + 1 - k + i \in 1..n
          /\ ~(i <= k - S) => ~(j <= m - S)
      BY <1>0, <1>8, <2>1, <2>3
    <3> HIDE DEF j
    <3>2. le[Len(le) - k + i] = l[n - m + j]
      <4>1. Len(le) = n + 1 /\ \A q \in 1..n : le[q] = l[q]
        BY <1>2
      <4>2. Len(le) - k + i = n - m + j /\ n - m + j \in 1..n
        <5>1. Len(le) = n + 1
          BY <4>1
        <5>2. QED
          BY <1>8, <2>1, <3>1, <5>1
      <4>3. QED
        BY <4>1, <4>2
    <3>3. all[i + drop] = old(j)
      BY <1>7, <3>1 DEF j
    <3>4. CASE i <= k - S
      BY <3>2, <3>3, <3>4 DEF Strip, old
    <3>5. CASE ~(i <= k - S)
      BY <3>1, <3>2, <3>3, <3>5 DEF old
    <3>6. QED
      BY <3>4, <3>5
  <2>4. QED
    BY <1>1, <2>2, <2>3
<1> HIDE DEF left, right
<1>12. QED
  BY <1>9, <1>10, <1>11

\* Nothing made, nothing recent.
LEMMA RecentEmpty == Recent(<<>>) = <<>>
BY RevisionsAssumption DEF Recent

\* appendRevision returns a history.
LEMMA AppendRevisionType ==
  ASSUME NEW entries \in Seq(Entry), NEW e \in Entry
  PROVE  appendRevision(entries, e) \in Seq(Entry)
<1> DEFINE all == Append(entries, e)
           drop == IF Len(all) > MaxRevisionHistory THEN Len(all) - MaxRevisionHistory ELSE 0
           n == Len(all) - drop
           f(i) == IF i <= n - MaxSnapshotRevisions THEN Strip(all[i + drop]) ELSE all[i + drop]
<1>1. all \in Seq(Entry) /\ Len(all) \in Nat
  OBVIOUS
<1>2. MaxRevisionHistory \in Nat
  BY RevisionsAssumption
<1> HIDE DEF all
<1>3. drop \in Nat /\ n \in Nat
  BY <1>1, <1>2
<1>4. appendRevision(entries, e) = [i \in 1..n |-> f(i)]
  BY DEF appendRevision, all
<1>5. ASSUME NEW i \in 1..n
      PROVE  f(i) \in Entry
  <2>1. i + drop \in 1..Len(all)
    BY <1>1, <1>3
  <2>2. all[i + drop] \in Entry
    BY <1>1, <2>1
  <2>3. Strip(all[i + drop]) \in Entry
    BY <2>2 DEF Strip, Entry
  <2>4. QED
    BY <2>2, <2>3
<1> HIDE DEF f, n
<1>6. QED
  BY <1>3, <1>4, <1>5

-----------------------------------------------------------------------------
(* The inductive invariant.                                                *)

(* What a handler is about to write fits the object, as long as nobody     *)
(* wrote the object since the handler read it.                             *)
Pending(h) ==
    /\ req[h].pc = "create" =>
        /\ req[h].rev \in Revs /\ req[h].spec \in Specs /\ req[h].snap \in Specs
        /\ req[h].revisions = appendRevision(<<>>, [rev |-> req[h].rev, snap |-> req[h].snap])
    /\ req[h].pc = "update" =>
        /\ req[h].spec \in Specs
        /\ req[h].rev # None => req[h].snap \in Specs
        /\ exists /\ version = req[h].version =>
            req[h].revisions = IF req[h].rev = None THEN revisions
                               ELSE appendRevision(revisions, [rev |-> req[h].rev,
                                                               snap |-> req[h].snap])
    /\ req[h].pc = "status" =>
        /\ req[h].rev \in Revs
        /\ exists /\ version = req[h].version => log # <<>> /\ log[Len(log)].rev = req[h].rev

(* Every write gets a resourceVersion that no reader can hold yet. *)
VersionsAreOld == version <= clock /\ \A h \in Handlers : req[h].version <= clock

RevInv ==
    /\ TypeOK
    /\ HistoryIsRecentLog
    /\ VersionsAreOld
    /\ \A h \in Handlers : Pending(h)

\* The record of an idle handler is a request record.
LEMMA IdleIsRequest == Idle \in Request
<1>1. <<>> \in Seq(Entry)
  OBVIOUS
<1>2. 0 \in 0..MaxVersion
  BY RevisionsAssumption
<1>3. QED
  BY <1>1, <1>2 DEF Idle, Request

(* The invariant holds initially. *)
LEMMA RevInit == Init => RevInv
<1> SUFFICES ASSUME Init PROVE RevInv
  OBVIOUS
<1>0. Idle \in Request
  BY IdleIsRequest
<1>1. TypeOK
  <2>1. req \in [Handlers -> Request]
    BY <1>0 DEF Init
  <2>2. revisions \in Seq(Entry) /\ log \in Seq(Logged)
    BY DEF Init
  <2>3. 0 \in 0..MaxVersion
    BY RevisionsAssumption
  <2>4. QED
    BY <2>1, <2>2, <2>3 DEF Init, TypeOK
<1>2. HistoryIsRecentLog
  BY RecentEmpty DEF Init, HistoryIsRecentLog
<1>3. VersionsAreOld /\ \A h \in Handlers : Pending(h)
  BY DEF Init, VersionsAreOld, Pending, Idle
<1>4. QED
  BY <1>1, <1>2, <1>3 DEF RevInv

(* A handler that changes nothing but its own request. *)
LEMMA OwnStep ==
  ASSUME RevInv, NEW h \in Handlers, NEW r \in Request, req' = [req EXCEPT ![h] = r],
         used' \subseteq Revs, r.version <= clock,
         modelConfig' \in Specs \cup {None},
         UNCHANGED <<exists, version, spec, revisions, status, clock, log>>,
         Pending(h)'
  PROVE  RevInv'
<1>1. TypeOK'
  BY DEF RevInv, TypeOK
<1>2. HistoryIsRecentLog'
  BY DEF RevInv, HistoryIsRecentLog
<1>3. VersionsAreOld'
  BY DEF RevInv, TypeOK, VersionsAreOld
<1>4. ASSUME NEW g \in Handlers
      PROVE  Pending(g)'
  <2>1. CASE g = h
    BY <2>1
  <2>2. CASE g # h
    <3>1. req'[g] = req[g] /\ Pending(g)
      BY <2>2 DEF RevInv, TypeOK
    <3>2. QED
      BY <3>1 DEF Pending
  <2>3. QED
    BY <2>1, <2>2
<1>5. QED
  BY <1>1, <1>2, <1>3, <1>4 DEF RevInv

(* A write to the object: every other handler's version is old by now. *)
LEMMA WriteStep ==
  ASSUME RevInv, TypeOK', HistoryIsRecentLog', Bump,
         NEW h \in Handlers, NEW r \in Request,
         req' = [req EXCEPT ![h] = r] \/ UNCHANGED req,
         r.version <= clock + 1,
         req' = [req EXCEPT ![h] = r] => Pending(h)'
  PROVE  RevInv'
<1>1. version' = clock' /\ clock' = clock + 1 /\ clock \in Nat
  BY DEF RevInv, TypeOK, Bump
<1>2. VersionsAreOld'
  <2>1. ASSUME NEW g \in Handlers
        PROVE  req'[g].version <= clock'
    <3>1. req[g].version \in Int /\ req[g].version <= clock
      BY DEF RevInv, TypeOK, VersionsAreOld, Request
    <3>2. r.version \in Int
      BY DEF Request
    <3>3. req'[g] = req[g] \/ req'[g] = r
      BY DEF RevInv, TypeOK
    <3>4. CASE req'[g] = req[g]
      BY <1>1, <3>1, <3>4
    <3>5. CASE req'[g] = r
      BY <1>1, <3>2, <3>5
    <3>6. QED
      BY <3>3, <3>4, <3>5
  <2>2. QED
    BY <1>1, <2>1 DEF VersionsAreOld
<1>3. ASSUME NEW g \in Handlers, req'[g] = req[g]
      PROVE  Pending(g)'
  <2>1. req[g].version \in Nat /\ req[g].version <= clock /\ Pending(g)
    BY DEF RevInv, TypeOK, VersionsAreOld, Request
  <2>2. version' # req'[g].version
    BY <1>1, <1>3, <2>1
  <2>3. QED
    BY <1>3, <2>1, <2>2 DEF Pending
<1>4. ASSUME NEW g \in Handlers
      PROVE  Pending(g)'
  <2>1. CASE UNCHANGED req
    BY <1>3, <2>1
  <2>2. CASE req' = [req EXCEPT ![h] = r] /\ g # h
    BY <1>3, <2>2 DEF RevInv, TypeOK
  <2>3. CASE req' = [req EXCEPT ![h] = r] /\ g = h
    BY <2>3
  <2>4. QED
    BY <2>1, <2>2, <2>3
<1>5. QED
  BY <1>2, <1>4 DEF RevInv

-----------------------------------------------------------------------------
(* One step per action.                                                    *)

\* The fields of a request record have their types.
LEMMA RequestFields ==
  ASSUME NEW q \in Request
  PROVE  /\ q.pc \in {"idle", "create", "update", "status", "resources"}
         /\ q.push \in BOOLEAN
         /\ q.rev \in Revs \cup {None}
         /\ q.version \in 0..MaxVersion
         /\ q.spec \in Specs \cup {None}
         /\ q.snap \in Specs \cup {None}
         /\ q.revisions \in Seq(Entry)
BY DEF Request

(* A handler that returns to idle without having written. *)
LEMMA FinishStep ==
  ASSUME RevInv, NEW h \in Handlers, Finish(h), UNCHANGED used,
         modelConfig' \in Specs \cup {None},
         UNCHANGED <<exists, version, spec, revisions, status, clock, log>>
  PROVE  RevInv'
<1>1. Idle \in Request
  BY IdleIsRequest
<1>2. Idle.version <= clock
  BY DEF Idle, RevInv, TypeOK
<1>3. req'[h] = Idle
  BY DEF Finish, RevInv, TypeOK
<1>4. Pending(h)'
  BY <1>3 DEF Pending, Idle
<1>5. used' \subseteq Revs
  BY DEF RevInv, TypeOK
<1>6. QED
  BY <1>1, <1>2, <1>4, <1>5, OwnStep DEF Finish

\* Reading the agent for a push keeps the invariant.
LEMMA PushReadStep ==
  ASSUME RevInv, NEW h \in Handlers, NEW x \in Specs, NEW r \in Revs, PushRead(h, x, r)
  PROVE  RevInv'
<1> DEFINE entry == [rev |-> r, snap |-> x]
           base == IF exists THEN revisions ELSE <<>>
           q == [pc |-> IF exists THEN "update" ELSE "create", push |-> TRUE, rev |-> r,
                 version |-> version, spec |-> x, snap |-> x,
                 revisions |-> appendRevision(base, entry)]
<1>1. appendRevision(base, entry) \in Seq(Entry)
  <2>1. entry \in Entry
    BY DEF Entry
  <2>2. base \in Seq(Entry)
    BY DEF RevInv, TypeOK
  <2>3. QED
    BY <2>1, <2>2, AppendRevisionType
<1>2. q \in Request
  BY <1>1 DEF Request, RevInv, TypeOK
<1>3. req' = [req EXCEPT ![h] = q]
  BY DEF PushRead
<1>4. req'[h] = q
  BY <1>3 DEF RevInv, TypeOK
<1>5. /\ UNCHANGED <<exists, version, spec, revisions, status, clock, log>>
      /\ modelConfig' \in Specs \cup {None}
      /\ used' \subseteq Revs
  BY DEF PushRead, RevInv, TypeOK
<1>6. Pending(h)'
  BY <1>4, <1>5, RevisionsAssumption DEF Pending
<1>7. q.version <= clock
  BY DEF RevInv, VersionsAreOld
<1>8. QED
  BY <1>2, <1>3, <1>5, <1>6, <1>7, OwnStep

\* Reading the agent for a rollback keeps the invariant.
LEMMA RollbackReadStep ==
  ASSUME RevInv, NEW h \in Handlers, NEW target \in Revs, NEW r \in Revs,
         RollbackRead(h, target, r)
  PROVE  RevInv'
<1>1. PICK i \in DOMAIN revisions :
        /\ revisions[i].snap # None
        /\ req' = [req EXCEPT ![h] =
            [pc |-> "update", push |-> FALSE, rev |-> r, version |-> version,
             spec |-> revisions[i].snap, snap |-> spec,
             revisions |-> appendRevision(revisions, [rev |-> r, snap |-> spec])]]
  BY DEF RollbackRead
<1> DEFINE q == [pc |-> "update", push |-> FALSE, rev |-> r, version |-> version,
                 spec |-> revisions[i].snap, snap |-> spec,
                 revisions |-> appendRevision(revisions, [rev |-> r, snap |-> spec])]
<1>2. spec \in Specs /\ revisions[i].snap \in Specs
  <2>1. revisions[i] \in Entry
    BY DEF RevInv, TypeOK
  <2>2. spec \in Specs
    BY DEF RollbackRead, RevInv, TypeOK
  <2>3. QED
    BY <1>1, <2>1, <2>2 DEF Entry
<1>3. appendRevision(revisions, [rev |-> r, snap |-> spec]) \in Seq(Entry)
  <2>1. [rev |-> r, snap |-> spec] \in Entry
    BY <1>2 DEF Entry
  <2>2. QED
    BY <2>1, AppendRevisionType DEF RevInv, TypeOK
<1>4. q \in Request
  BY <1>2, <1>3 DEF Request, RevInv, TypeOK
<1>5. req'[h] = q
  BY <1>1 DEF RevInv, TypeOK
<1>6. /\ UNCHANGED <<exists, version, spec, revisions, status, clock, log>>
      /\ modelConfig' \in Specs \cup {None}
      /\ used' \subseteq Revs
  BY DEF RollbackRead, RevInv, TypeOK
<1>7. Pending(h)'
  BY <1>2, <1>5, <1>6, RevisionsAssumption DEF Pending
<1>8. q.version <= clock
  BY DEF RevInv, VersionsAreOld
<1>9. QED
  BY <1>1, <1>4, <1>6, <1>7, <1>8, OwnStep

\* Reading the agent for a patch keeps the invariant.
LEMMA PatchReadStep ==
  ASSUME RevInv, NEW h \in Handlers, NEW x \in Specs, PatchRead(h, x)
  PROVE  RevInv'
<1> DEFINE q == [pc |-> "update", push |-> FALSE, rev |-> None, version |-> version, spec |-> x,
                 snap |-> None, revisions |-> revisions]
<1>1. q \in Request
  BY DEF Request, RevInv, TypeOK
<1>2. req' = [req EXCEPT ![h] = q]
  BY DEF PatchRead
<1>3. req'[h] = q
  BY <1>2 DEF RevInv, TypeOK
<1>4. /\ UNCHANGED <<exists, version, spec, revisions, status, clock, log>>
      /\ modelConfig' \in Specs \cup {None}
      /\ used' \subseteq Revs
  BY DEF PatchRead, RevInv, TypeOK
<1>5. Pending(h)'
  BY <1>3, <1>4 DEF Pending
<1>6. q.version <= clock
  BY DEF RevInv, VersionsAreOld
<1>7. QED
  BY <1>1, <1>2, <1>4, <1>5, <1>6, OwnStep

\* A failed status write keeps the invariant.
LEMMA StatusFailsStep ==
  ASSUME RevInv, NEW h \in Handlers, StatusFails(h)
  PROVE  RevInv'
<1>1. CASE req[h].push
  <2> DEFINE q == GoTo(h, "resources", req[h].version)
  <2>1. req[h] \in Request
    BY DEF RevInv, TypeOK
  <2>2. q \in Request
    BY <2>1, RequestFields DEF GoTo, Request
  <2>3. req' = [req EXCEPT ![h] = q]
    BY <1>1 DEF StatusFails
  <2>4. req'[h] = q
    BY <2>3 DEF RevInv, TypeOK
  <2>5. Pending(h)'
    BY <2>4 DEF Pending, GoTo
  <2>6. q.version <= clock
    BY DEF GoTo, RevInv, VersionsAreOld
  <2>7. QED
    BY <2>2, <2>3, <2>5, <2>6, OwnStep DEF StatusFails, RevInv, TypeOK
<1>2. CASE ~req[h].push
  <2>1. Finish(h)
    BY <1>2 DEF StatusFails, Finish
  <2>2. QED
    BY <2>1, FinishStep DEF StatusFails, RevInv, TypeOK
<1>3. QED
  BY <1>1, <1>2

\* A request that ends in an error keeps the invariant.
LEMMA AbortStep ==
  ASSUME RevInv, NEW h \in Handlers, Abort(h)
  PROVE  RevInv'
BY FinishStep DEF Abort, RevInv, TypeOK

\* Writing the model after a push keeps the invariant.
LEMMA UpsertStep ==
  ASSUME RevInv, NEW h \in Handlers, UpsertResources(h)
  PROVE  RevInv'
<1>1. req[h] \in Request
  BY DEF RevInv, TypeOK
<1>2. modelConfig' \in Specs \cup {None}
  BY <1>1, RequestFields DEF UpsertResources, RevInv, TypeOK
<1>3. QED
  BY <1>2, FinishStep DEF UpsertResources

(* The log entry of a handler, and the history after it is written. *)
LEMMA GhostEntry ==
  ASSUME NEW h \in Handlers, req[h].rev \in Revs, req[h].spec \in Specs, req[h].snap \in Specs
  PROVE  /\ ghostEntry(h) \in Logged
         /\ EntryOf(ghostEntry(h)) = [rev |-> req[h].rev, snap |-> req[h].snap]
BY DEF ghostEntry, Logged, EntryOf

\* Creating the agent keeps the invariant: the history is the one entry made.
LEMMA CreateStep ==
  ASSUME RevInv, NEW h \in Handlers, CreateAgent(h)
  PROVE  RevInv'
<1> DEFINE q == GoTo(h, "resources", clock + 1)
           g == ghostEntry(h)
<1>0. req[h] \in Request /\ clock + 1 \in 0..MaxVersion /\ clock + 1 <= MaxVersion
  BY RevisionsAssumption DEF RevInv, TypeOK, CreateAgent, Bump
<1>1. q \in Request
  BY <1>0, RequestFields DEF GoTo, Request
<1>2. req' = [req EXCEPT ![h] = q]
  BY DEF CreateAgent
<1>3. /\ req[h].rev \in Revs /\ req[h].spec \in Specs /\ req[h].snap \in Specs
      /\ req[h].revisions = appendRevision(<<>>, [rev |-> req[h].rev, snap |-> req[h].snap])
  BY DEF CreateAgent, RevInv, Pending
<1>4. g \in Logged /\ EntryOf(g) = [rev |-> req[h].rev, snap |-> req[h].snap]
  BY <1>3, GhostEntry
<1>5. TypeOK'
  <2>1. req' \in [Handlers -> Request]
    BY <1>1, <1>2 DEF RevInv, TypeOK
  <2>2. log' \in Seq(Logged)
    BY <1>4 DEF CreateAgent
  <2>3. revisions' \in Seq(Entry)
    BY <1>0, RequestFields DEF CreateAgent
  <2>4. version' \in 0..MaxVersion /\ clock' \in 0..MaxVersion
    BY <1>0 DEF CreateAgent, Bump
  <2>5. exists' = TRUE /\ spec' \in Specs /\ status' \in Revs \cup {None}
    BY <1>3 DEF CreateAgent
  <2>6. modelConfig' \in Specs \cup {None} /\ used' \subseteq Revs
    BY DEF CreateAgent, RevInv, TypeOK
  <2>7. QED
    BY <2>1, <2>2, <2>3, <2>4, <2>5, <2>6 DEF TypeOK
<1>6. HistoryIsRecentLog'
  <2>1. log' = Append(<<>>, g)
    BY DEF CreateAgent
  <2>2. <<>> \in Seq(Logged)
    OBVIOUS
  <2>3. Recent(Append(<<>>, g)) = appendRevision(Recent(<<>>), EntryOf(g))
    BY <1>4, <2>2, RecentAppend
  <2>4. Recent(log') = appendRevision(<<>>, EntryOf(g))
    BY <2>1, <2>3, RecentEmpty
  <2>5. revisions' = Recent(log')
    BY <1>3, <1>4, <2>4 DEF CreateAgent
  <2>6. QED
    BY <2>5 DEF HistoryIsRecentLog, Recent
<1>7. Pending(h)'
  <2>1. req'[h] = q
    BY <1>2 DEF RevInv, TypeOK
  <2>2. QED
    BY <2>1 DEF Pending, GoTo
<1>8. q.version <= clock + 1
  BY <1>0 DEF GoTo, RevInv, TypeOK
<1>9. QED
  BY <1>1, <1>2, <1>5, <1>6, <1>7, <1>8, WriteStep DEF CreateAgent

\* The conditional update keeps the invariant: nothing was made since the read.
LEMMA UpdateStep ==
  ASSUME RevInv, NEW h \in Handlers, UpdateAgent(h)
  PROVE  RevInv'
<1> DEFINE q == IF req[h].rev = None THEN Idle ELSE GoTo(h, "status", clock + 1)
           g == ghostEntry(h)
<1>0. req[h] \in Request /\ clock + 1 \in 0..MaxVersion
  BY RevisionsAssumption DEF RevInv, TypeOK, UpdateAgent, Bump
<1>1. q \in Request
  BY <1>0, RequestFields, IdleIsRequest DEF GoTo, Request
<1>2. req' = [req EXCEPT ![h] = q]
  BY DEF UpdateAgent
<1>3. /\ req[h].spec \in Specs
      /\ req[h].rev # None => req[h].snap \in Specs /\ req[h].rev \in Revs
      /\ req[h].revisions = IF req[h].rev = None THEN revisions
                            ELSE appendRevision(revisions, [rev |-> req[h].rev,
                                                            snap |-> req[h].snap])
  BY <1>0, RequestFields DEF UpdateAgent, RevInv, Pending
<1>4. log' \in Seq(Logged) /\ revisions' = Recent(log')
  <2>0. log \in Seq(Logged) /\ revisions = Recent(log)
    BY DEF RevInv, TypeOK, HistoryIsRecentLog
  <2>1. CASE req[h].rev = None
    BY <1>3, <2>0, <2>1 DEF UpdateAgent
  <2>2. CASE req[h].rev # None
    <3>1. g \in Logged /\ EntryOf(g) = [rev |-> req[h].rev, snap |-> req[h].snap]
      BY <1>3, <2>2, GhostEntry
    <3>2. log' = Append(log, g) /\ revisions' = req[h].revisions
      BY <2>2 DEF UpdateAgent
    <3>3. Recent(Append(log, g)) = appendRevision(Recent(log), EntryOf(g))
      BY <2>0, <3>1, RecentAppend
    <3>4. revisions' = appendRevision(revisions, EntryOf(g))
      BY <1>3, <2>2, <3>1, <3>2
    <3>5. Append(log, g) \in Seq(Logged)
      BY <2>0, <3>1
    <3>6. QED
      BY <2>0, <3>2, <3>3, <3>4, <3>5
  <2>3. QED
    BY <2>1, <2>2
<1>5. TypeOK'
  <2>1. req' \in [Handlers -> Request]
    BY <1>1, <1>2 DEF RevInv, TypeOK
  <2>3. revisions' \in Seq(Entry)
    BY <1>0, RequestFields DEF UpdateAgent
  <2>4. version' \in 0..MaxVersion /\ clock' \in 0..MaxVersion
    BY <1>0 DEF UpdateAgent, Bump
  <2>5. exists' = TRUE /\ spec' \in Specs
    BY <1>3 DEF UpdateAgent, RevInv, TypeOK
  <2>6. status' \in Revs \cup {None} /\ modelConfig' \in Specs \cup {None} /\ used' \subseteq Revs
    BY DEF UpdateAgent, RevInv, TypeOK
  <2>7. QED
    BY <1>4, <2>1, <2>3, <2>4, <2>5, <2>6 DEF TypeOK
<1>6. HistoryIsRecentLog'
  BY <1>4 DEF HistoryIsRecentLog, Recent
<1>7. Pending(h)'
  <2>1. req'[h] = q
    BY <1>2 DEF RevInv, TypeOK
  <2>2. CASE req[h].rev = None
    BY <2>1, <2>2 DEF Pending, Idle
  <2>3. CASE req[h].rev # None
    <3>1. log' = Append(log, g) /\ log \in Seq(Logged) /\ g \in Logged
      BY <1>3, <2>3, GhostEntry DEF UpdateAgent, RevInv, TypeOK
    <3>2. log' # <<>> /\ log'[Len(log')] = g
      BY <3>1
    <3>3. log'[Len(log')].rev = req[h].rev
      BY <3>2 DEF ghostEntry
    <3>4. req'[h].pc = "status" /\ req'[h].rev = req[h].rev
      BY <2>1, <2>3 DEF GoTo
    <3>5. QED
      BY <1>3, <2>3, <3>2, <3>3, <3>4 DEF Pending
  <2>4. QED
    BY <2>2, <2>3
<1>8. q.version <= clock + 1
  BY <1>0 DEF GoTo, Idle, RevInv, TypeOK
<1>9. QED
  BY <1>1, <1>2, <1>5, <1>6, <1>7, <1>8, WriteStep DEF UpdateAgent

\* The conditional status write keeps the invariant.
LEMMA UpdateStatusStep ==
  ASSUME RevInv, NEW h \in Handlers, UpdateStatus(h)
  PROVE  RevInv'
<1> DEFINE q == IF req[h].push THEN GoTo(h, "resources", clock + 1) ELSE Idle
<1>0. req[h] \in Request /\ clock + 1 \in 0..MaxVersion
  BY RevisionsAssumption DEF RevInv, TypeOK, UpdateStatus, Bump
<1>1. q \in Request
  BY <1>0, RequestFields, IdleIsRequest DEF GoTo, Request
<1>2. req' = [req EXCEPT ![h] = q]
  BY DEF UpdateStatus
<1>3. TypeOK'
  <2>1. req' \in [Handlers -> Request]
    BY <1>1, <1>2 DEF RevInv, TypeOK
  <2>2. version' \in 0..MaxVersion /\ clock' \in 0..MaxVersion
    BY <1>0 DEF UpdateStatus, Bump
  <2>3. status' \in Revs \cup {None}
    BY <1>0, RequestFields DEF UpdateStatus
  <2>4. QED
    BY <2>1, <2>2, <2>3 DEF UpdateStatus, RevInv, TypeOK
<1>4. HistoryIsRecentLog'
  BY DEF UpdateStatus, RevInv, HistoryIsRecentLog, Recent
<1>5. Pending(h)'
  <2>1. req'[h] = q
    BY <1>2 DEF RevInv, TypeOK
  <2>2. QED
    BY <2>1 DEF Pending, GoTo, Idle
<1>6. q.version <= clock + 1
  BY <1>0 DEF GoTo, Idle, RevInv, TypeOK
<1>7. QED
  BY <1>1, <1>2, <1>3, <1>4, <1>5, <1>6, WriteStep DEF UpdateStatus

\* A controller's write keeps the invariant.
LEMMA ControllerStep ==
  ASSUME RevInv, ControllerWrites
  PROVE  RevInv'
<1>1. clock + 1 \in 0..MaxVersion
  BY RevisionsAssumption DEF RevInv, TypeOK, ControllerWrites, Bump
<1>2. TypeOK'
  BY <1>1 DEF ControllerWrites, Bump, RevInv, TypeOK
<1>3. HistoryIsRecentLog'
  BY DEF ControllerWrites, RevInv, HistoryIsRecentLog, Recent
<1>4. VersionsAreOld'
  <2>1. ASSUME NEW g \in Handlers
        PROVE  req[g].version <= clock + 1
    BY DEF RevInv, TypeOK, VersionsAreOld, Request
  <2>2. QED
    BY <1>1, <2>1 DEF ControllerWrites, Bump, VersionsAreOld
<1>5. ASSUME NEW g \in Handlers
      PROVE  Pending(g)'
  <2>1. req[g].version \in Int /\ req[g].version <= clock /\ clock \in Int
    BY DEF RevInv, TypeOK, VersionsAreOld, Request
  <2>2. version' # req'[g].version
    BY <2>1 DEF ControllerWrites, Bump
  <2>3. req'[g] = req[g] /\ Pending(g)
    BY DEF ControllerWrites, RevInv
  <2>4. QED
    BY <2>2, <2>3 DEF Pending
<1>6. QED
  BY <1>2, <1>3, <1>4, <1>5 DEF RevInv

\* Deleting the agent keeps the invariant.
LEMMA DeleteStep ==
  ASSUME RevInv, DeleteAgent
  PROVE  RevInv'
<1>1. TypeOK'
  <2>1. 0 \in 0..MaxVersion
    BY RevisionsAssumption
  <2>2. revisions' \in Seq(Entry) /\ log' \in Seq(Logged)
    BY DEF DeleteAgent
  <2>3. QED
    BY <2>1, <2>2 DEF DeleteAgent, RevInv, TypeOK
<1>2. HistoryIsRecentLog'
  <2>1. log' = <<>> /\ revisions' = <<>>
    BY DEF DeleteAgent
  <2>2. revisions' = Recent(log')
    BY <2>1, RecentEmpty
  <2>3. QED
    BY <2>2 DEF HistoryIsRecentLog, Recent
<1>3. VersionsAreOld'
  BY DEF DeleteAgent, RevInv, TypeOK, VersionsAreOld
<1>4. \A g \in Handlers : Pending(g)'
  BY DEF DeleteAgent, RevInv, Pending
<1>5. QED
  BY <1>1, <1>2, <1>3, <1>4 DEF RevInv

\* The invariant is inductive.
LEMMA RevNext == RevInv /\ [Next]_vars => RevInv'
<1> SUFFICES ASSUME RevInv, [Next]_vars PROVE RevInv'
  OBVIOUS
<1>1. ASSUME NEW h \in Handlers, NEW x \in Specs, NEW r \in Revs, PushRead(h, x, r)
      PROVE  RevInv'
  BY <1>1, PushReadStep
<1>2. ASSUME NEW h \in Handlers, NEW target \in Revs, NEW r \in Revs, RollbackRead(h, target, r)
      PROVE  RevInv'
  BY <1>2, RollbackReadStep
<1>3. ASSUME NEW h \in Handlers, NEW x \in Specs, PatchRead(h, x)
      PROVE  RevInv'
  BY <1>3, PatchReadStep
<1>4. ASSUME NEW h \in Handlers,
             CreateAgent(h) \/ UpdateAgent(h) \/ UpdateStatus(h) \/ StatusFails(h)
               \/ Abort(h) \/ UpsertResources(h)
      PROVE  RevInv'
  BY <1>4, CreateStep, UpdateStep, UpdateStatusStep, StatusFailsStep, AbortStep, UpsertStep
<1>5. CASE ControllerWrites \/ DeleteAgent
  BY <1>5, ControllerStep, DeleteStep
<1>6. CASE UNCHANGED vars
  <2>1. TypeOK' /\ HistoryIsRecentLog' /\ VersionsAreOld'
    BY <1>6 DEF vars, RevInv, TypeOK, HistoryIsRecentLog, Recent, VersionsAreOld
  <2>2. \A h \in Handlers : Pending(h)'
    BY <1>6 DEF vars, RevInv, Pending
  <2>3. QED
    BY <2>1, <2>2 DEF RevInv
<1>7. QED
  BY <1>1, <1>2, <1>3, <1>4, <1>5, <1>6 DEF Next

-----------------------------------------------------------------------------
(* The theorems.                                                           *)

\* The invariant holds in every behaviour.
LEMMA RevAlways == Spec => []RevInv
BY RevInit, RevNext, PTL DEF Spec

(* Under any number of concurrent pushes, patches, rollbacks and deletes   *)
(* every variable keeps its type, and an Agent that exists has a spec.     *)
THEOREM RevisionsTypeCorrect == Spec => []TypeOK
<1>1. RevInv => TypeOK
  BY DEF RevInv
<1>2. QED
  BY <1>1, RevAlways, PTL

(* For any history and snapshot limit, the revision-history annotation is  *)
(* the newest successful pushes and rollbacks, none lost to a concurrent   *)
(* request, with the snapshots of the newest ones.                         *)
THEOREM HistoryIsComplete == Spec => []HistoryIsRecentLog
<1>1. RevInv => HistoryIsRecentLog
  BY DEF RevInv
<1>2. QED
  BY <1>1, RevAlways, PTL

(* The status write of a push or rollback that another one overtook never  *)
(* lands: status.revision only moves to the newest revision.               *)
THEOREM StatusFollowsHistory == Spec => StatusOnlyToNewest
<1> DEFINE Step == exists /\ exists' /\ status' # status =>
                     log # <<>> /\ status' = log[Len(log)].rev
<1>1. RevInv /\ [Next]_vars => [Step]_vars
  <2> SUFFICES ASSUME RevInv, Next, exists, exists', status' # status
               PROVE  log # <<>> /\ status' = log[Len(log)].rev
    OBVIOUS
  <2>1. PICK h \in Handlers : UpdateStatus(h)
    BY DEF Next, PushRead, RollbackRead, PatchRead, CreateAgent, UpdateAgent, StatusFails, Abort,
           UpsertResources, ControllerWrites, DeleteAgent
  <2>2. QED
    BY <2>1 DEF UpdateStatus, RevInv, Pending
<1>2. QED
  BY <1>1, RevAlways, PTL DEF Spec, StatusOnlyToNewest
=============================================================================
