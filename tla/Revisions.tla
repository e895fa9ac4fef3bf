----------------------------- MODULE Revisions -----------------------------
(***************************************************************************)
(* The revision history of one Agent: the REST handlers pushAgent,         *)
(* patchAgent, rollbackAgent and deleteAgent, run concurrently by any      *)
(* number of request goroutines and replicas against the API server.       *)
(*                                                                         *)
(* A handler reads the object, computes the new one locally and writes it  *)
(* back; the API server accepts a write only if the resourceVersion it     *)
(* carries is the current one, and gives the object a new one.  Spec and   *)
(* annotations are one write, the status subresource is another.  A read   *)
(* from a lagging informer cache is a read made earlier, so the delay      *)
(* between the steps of a handler covers it.                               *)
(***************************************************************************)
EXTENDS Integers, Sequences

CONSTANTS
    Handlers,              \* concurrent requests
    Specs,                 \* agent specs
    Revs,                  \* revision IDs that requests may generate
    MaxRevisionHistory,    \* entries kept (20 in the code)
    MaxSnapshotRevisions,  \* newest entries that keep their snapshot (5 in the code)
    MaxVersion,            \* bound on resourceVersions, so that runs are finite
    None

ASSUME RevisionsAssumption ==
    /\ MaxRevisionHistory \in Nat \ {0}
    /\ MaxSnapshotRevisions \in Nat \ {0}
    /\ MaxVersion \in Nat
    /\ None \notin Specs
    /\ None \notin Revs

VARIABLES
    exists,       \* the Agent object is there
    version,      \* its resourceVersion
    spec,         \* its spec
    revisions,    \* its revision-history annotation
    status,       \* its status.revision
    clock,        \* the last resourceVersion the API server gave out
    modelConfig,  \* the spec whose model the owned ModelConfig holds
    req,          \* req[h]: progress of handler h and the object it is to write
    used,         \* revision IDs generated so far
    log           \* history: every revision written to this object, with its snapshot

vars == <<exists, version, spec, revisions, status, clock, modelConfig, req, used, log>>

Entry == [rev : Revs, snap : Specs \cup {None}]
Logged == [rev : Revs, snap : Specs]

Request == [pc : {"idle", "create", "update", "status", "resources"},
            push : BOOLEAN,
            rev : Revs \cup {None},
            version : 0..MaxVersion,
            spec : Specs \cup {None},
            snap : Specs \cup {None},
            revisions : Seq(Entry)]

Idle == [pc |-> "idle", push |-> FALSE, rev |-> None, version |-> 0, spec |-> None,
         snap |-> None, revisions |-> <<>>]

(* Every variable has its type, and an Agent that exists has a spec: no    *)
(* rollback restores a snapshot that was stripped from the history.        *)
TypeOK ==
    /\ exists \in BOOLEAN
    /\ version \in 0..MaxVersion
    /\ spec \in IF exists THEN Specs ELSE {None}
    /\ revisions \in Seq(Entry)
    /\ status \in Revs \cup {None}
    /\ clock \in 0..MaxVersion
    /\ modelConfig \in Specs \cup {None}
    /\ req \in [Handlers -> Request]
    /\ used \subseteq Revs
    /\ log \in Seq(Logged)

Init ==
    /\ exists = FALSE
    /\ version = 0
    /\ spec = None
    /\ revisions = <<>>
    /\ status = None
    /\ clock = 0
    /\ modelConfig = None
    /\ req = [h \in Handlers |-> Idle]
    /\ used = {}
    /\ log = <<>>

-----------------------------------------------------------------------------
(* The history annotation.                                                 *)

Strip(e) == [rev |-> e.rev, snap |-> None]

(* Append an entry, keep the newest MaxRevisionHistory of them, and the    *)
(* snapshots of the newest MaxSnapshotRevisions only.                      *)
appendRevision(entries, e) ==
    LET all  == Append(entries, e)
        drop == IF Len(all) > MaxRevisionHistory THEN Len(all) - MaxRevisionHistory ELSE 0
        n    == Len(all) - drop
    IN [i \in 1..n |-> IF i <= n - MaxSnapshotRevisions THEN Strip(all[i + drop])
                                                        ELSE all[i + drop]]

-----------------------------------------------------------------------------
(* The handlers: what each reads, and what it is going to write.           *)

(* pushAgent with spec x and generated revision r.                         *)
PushRead(h, x, r) ==
    LET entry == [rev |-> r, snap |-> x]
    IN /\ req[h].pc = "idle"
       /\ r \notin used
       /\ used' = used \cup {r}
       /\ req' = [req EXCEPT ![h] =
            [pc |-> IF exists THEN "update" ELSE "create", push |-> TRUE, rev |-> r,
             version |-> version, spec |-> x, snap |-> x,
             revisions |-> appendRevision(IF exists THEN revisions ELSE <<>>, entry)]]
       /\ UNCHANGED <<exists, version, spec, revisions, status, clock, modelConfig, log>>

(* Mutant of RollbackRead: the stripped snapshot is not refused. *)
RollbackReadUnchecked(h, target, r) ==
    /\ req[h].pc = "idle"
    /\ exists
    /\ r \notin used
    /\ used' = used \cup {r}
    /\ \E i \in DOMAIN revisions :
        /\ revisions[i].rev = target
        /\ req' = [req EXCEPT ![h] =
            [pc |-> "update", push |-> FALSE, rev |-> r, version |-> version,
             spec |-> revisions[i].snap, snap |-> spec,
             revisions |-> appendRevision(revisions, [rev |-> r, snap |-> spec])]]
    /\ UNCHANGED <<exists, version, spec, revisions, status, clock, modelConfig, log>>

(* rollbackAgent to target, generating revision r: the new entry keeps the *)
(* spec that is about to be replaced.                                      *)
RollbackRead(h, target, r) ==
    /\ req[h].pc = "idle"
    /\ exists
    /\ r \notin used
    /\ used' = used \cup {r}
    /\ \E i \in DOMAIN revisions :
        /\ revisions[i].rev = target
        /\ revisions[i].snap # None
        /\ req' = [req EXCEPT ![h] =
            [pc |-> "update", push |-> FALSE, rev |-> r, version |-> version,
             spec |-> revisions[i].snap, snap |-> spec,
             revisions |-> appendRevision(revisions, [rev |-> r, snap |-> spec])]]
    /\ UNCHANGED <<exists, version, spec, revisions, status, clock, modelConfig, log>>

(* patchAgent: display name and description, and no revision.              *)
PatchRead(h, x) ==
    /\ req[h].pc = "idle"
    /\ exists
    /\ req' = [req EXCEPT ![h] =
        [pc |-> "update", push |-> FALSE, rev |-> None, version |-> version, spec |-> x,
         snap |-> None, revisions |-> revisions]]
    /\ UNCHANGED <<exists, version, spec, revisions, status, clock, modelConfig, used, log>>

-----------------------------------------------------------------------------
(* The writes.                                                             *)

(* What handler h still has to do, having written the object as version v. *)
GoTo(h, l, v) ==
    [pc |-> l, push |-> req[h].push, rev |-> req[h].rev, version |-> v,
     spec |-> req[h].spec, snap |-> req[h].snap, revisions |-> req[h].revisions]

Finish(h) == req' = [req EXCEPT ![h] = Idle]

(* The API server gives the object a new resourceVersion. *)
Bump ==
    /\ clock < MaxVersion
    /\ clock' = clock + 1
    /\ version' = clock + 1

ghostEntry(h) == [rev |-> req[h].rev, snap |-> req[h].snap]

(* Create succeeds if there still is no object of that name.  The status   *)
(* of the new object is empty.                                             *)
CreateAgent(h) ==
    /\ req[h].pc = "create"
    /\ ~exists
    /\ Bump
    /\ exists' = TRUE
    /\ spec' = req[h].spec
    /\ revisions' = req[h].revisions
    /\ status' = None
    /\ log' = <<ghostEntry(h)>>
    /\ req' = [req EXCEPT ![h] = GoTo(h, "resources", clock + 1)]
    /\ UNCHANGED <<modelConfig, used>>

(* Mutant of UpdateAgent: the write carries no resourceVersion. *)
UpdateUnconditionally(h) ==
    LET r == req[h].rev
    IN /\ req[h].pc = "update"
       /\ exists
       /\ Bump
       /\ spec' = req[h].spec
       /\ revisions' = req[h].revisions
       /\ log' = IF r = None THEN log ELSE Append(log, ghostEntry(h))
       /\ req' = [req EXCEPT ![h] = IF r = None THEN Idle ELSE GoTo(h, "status", clock + 1)]
       /\ UNCHANGED <<exists, status, modelConfig, used>>

(* Update succeeds if nobody wrote the object since it was read.           *)
UpdateAgent(h) ==
    LET r == req[h].rev
    IN /\ req[h].pc = "update"
       /\ exists
       /\ version = req[h].version
       /\ Bump
       /\ spec' = req[h].spec
       /\ revisions' = req[h].revisions
       /\ log' = IF r = None THEN log ELSE Append(log, ghostEntry(h))
       /\ req' = [req EXCEPT ![h] = IF r = None THEN Idle ELSE GoTo(h, "status", clock + 1)]
       /\ UNCHANGED <<exists, status, modelConfig, used>>

(* Mutant of UpdateStatus: the write carries no resourceVersion. *)
UpdateStatusUnconditionally(h) ==
    /\ req[h].pc = "status"
    /\ exists
    /\ Bump
    /\ status' = req[h].rev
    /\ req' = [req EXCEPT ![h] = IF req[h].push THEN GoTo(h, "resources", clock + 1) ELSE Idle]
    /\ UNCHANGED <<exists, spec, revisions, modelConfig, used, log>>

(* Status().Update, likewise. *)
UpdateStatus(h) ==
    /\ req[h].pc = "status"
    /\ exists
    /\ version = req[h].version
    /\ Bump
    /\ status' = req[h].rev
    /\ req' = [req EXCEPT ![h] = IF req[h].push THEN GoTo(h, "resources", clock + 1) ELSE Idle]
    /\ UNCHANGED <<exists, spec, revisions, modelConfig, used, log>>

(* Status().Update fails, on a conflict or otherwise: the error is ignored *)
(* and the handler goes on.                                                *)
StatusFails(h) ==
    /\ req[h].pc = "status"
    /\ req' = [req EXCEPT ![h] = IF req[h].push THEN GoTo(h, "resources", req[h].version) ELSE Idle]
    /\ UNCHANGED <<exists, version, spec, revisions, status, clock, modelConfig, used, log>>

(* Create or Update fails, on a conflict or otherwise, or the replica dies *)
(* at any point of the request.                                            *)
Abort(h) ==
    /\ req[h].pc # "idle"
    /\ Finish(h)
    /\ UNCHANGED <<exists, version, spec, revisions, status, clock, modelConfig, used, log>>

(* The ModelConfig, its Secret and the MCPServers of a push are created or *)
(* updated after the Agent, each with its own read and conditional write;  *)
(* errors are ignored, so the write happened or it did not.                *)
UpsertResources(h) ==
    /\ req[h].pc = "resources"
    /\ modelConfig' \in {modelConfig, req[h].spec}
    /\ Finish(h)
    /\ UNCHANGED <<exists, version, spec, revisions, status, clock, used, log>>

-----------------------------------------------------------------------------
(* Everyone else.                                                          *)

(* A controller writes the object: status conditions, replicas, finalizer. *)
ControllerWrites ==
    /\ exists
    /\ Bump
    /\ UNCHANGED <<exists, spec, revisions, status, modelConfig, req, used, log>>

(* deleteAgent, once the finalizer is removed; the owned ModelConfig goes  *)
(* with the Agent.                                                         *)
DeleteAgent ==
    /\ exists
    /\ exists' = FALSE
    /\ version' = 0
    /\ spec' = None
    /\ revisions' = <<>>
    /\ status' = None
    /\ modelConfig' = None
    /\ log' = <<>>
    /\ UNCHANGED <<clock, req, used>>

Next ==
    \/ \E h \in Handlers :
        \/ \E x \in Specs, r \in Revs : PushRead(h, x, r)
        \/ \E target \in Revs, r \in Revs : RollbackRead(h, target, r)
        \/ \E x \in Specs : PatchRead(h, x)
        \/ CreateAgent(h)
        \/ UpdateAgent(h)
        \/ UpdateStatus(h)
        \/ StatusFails(h)
        \/ Abort(h)
        \/ UpsertResources(h)
    \/ ControllerWrites
    \/ DeleteAgent

Spec == Init /\ [][Next]_vars

-----------------------------------------------------------------------------
(* Correctness.                                                            *)

(* What the history should show: the newest writes of the log. *)
Recent(l) ==
    LET n == Len(l)
        m == IF n > MaxRevisionHistory THEN MaxRevisionHistory ELSE n
    IN [i \in 1..m |-> [rev |-> l[n - m + i].rev,
                        snap |-> IF i <= m - MaxSnapshotRevisions THEN None
                                 ELSE l[n - m + i].snap]]

(* No revision is lost to a concurrent request: the history is exactly the *)
(* newest MaxRevisionHistory successful pushes and rollbacks, in order,    *)
(* and exactly the newest MaxSnapshotRevisions can be rolled back to.      *)
HistoryIsRecentLog == revisions = Recent(log)

(* status.revision only ever moves to the newest revision: a status write  *)
(* that was overtaken by another push or rollback is dropped.              *)
StatusOnlyToNewest ==
    [][exists /\ exists' /\ status' # status => log # <<>> /\ status' = log[Len(log)].rev]_vars
=============================================================================
