------------------------- MODULE DRNamespaceController -------------------------
(***************************************************************************)
(* The reconciler of one DRNamespace object (pkg/controller/drnamespace)   *)
(* with the StatusUpdater goroutine (pkg/namespacecrstatusupdater), the    *)
(* API server that stores the object, the informer cache through which     *)
(* both read it, and the namespace workers the reconciler starts and stops.*)
(*                                                                         *)
(* The versions of the object at the API server are a sequence: the cache  *)
(* shows the first one, the last one is the latest, and the cache moves on.*)
(* TransportAdapter and CollectorType are handled alike and are one field, *)
(* "adapter".  Of the configuration container it has the two entries that  *)
(* the reconciler writes; how workers hear of them is in ConfigContainer.  *)
(***************************************************************************)
EXTENDS Naturals, Sequences, FiniteSets

CONSTANTS
    Roles, NoRole,          \* roles, and the empty string
    Adapters, NoAdapter,
    ClusterNames, NoName,
    FilterConfigs, NoFilter,
    MaxEdits,               \* bounds: edits by users,
    MaxReports,             \*   conditions reported by workers,
    MaxRestarts             \*   restarts of the manager process

ASSUME BoundAssumption == MaxEdits \in Nat /\ MaxReports \in Nat /\ MaxRestarts \in Nat
ASSUME NoneAssumption ==
    /\ NoRole \notin Roles /\ NoAdapter \notin Adapters
    /\ NoName \notin ClusterNames /\ NoFilter \notin FilterConfigs

VARIABLES
    versions,       \* of the object: from the one in the cache to the latest
    request,        \* a reconcile request is queued
    previous,       \* previousNamespaceCR has an entry
    tracked,        \* the worker in drNamespaceCtxCancelFunc; 0 if there is none
    running,        \* worker -> adapter, for every worker not cancelled
    queue,          \* StatusUpdater.queue
    mapping,        \* the namespace's cluster in the configuration container
    filterConfig,   \* the namespace's filter configuration there
    edits, reported, restarts,  \* history: edits, conditions and restarts so far
    hasty           \* history: somebody did not wait for the reconciler

container == <<mapping, filterConfig>>
counters  == <<edits, reported, restarts>>
vars == <<versions, request, previous, tracked, running, queue, container, counters, hasty>>

Spec_ == [role : Roles, active : BOOLEAN, adapter : Adapters,
          cluster : ClusterNames \cup {NoName}, filter : FilterConfigs]
Status == [role : Roles \cup {NoRole}, active : BOOLEAN,
           adapter : Adapters \cup {NoAdapter}, cluster : ClusterNames \cup {NoName},
           conditions : SUBSET (1..MaxReports)]
Version == [exists : BOOLEAN, spec : Spec_, status : Status]

TypeOK ==
    /\ versions \in Seq(Version) /\ versions # <<>>
    /\ request \in BOOLEAN /\ previous \in BOOLEAN
    /\ tracked \in DOMAIN running \cup {0}
    /\ IsFiniteSet(DOMAIN running)
    /\ \A w \in DOMAIN running : w \in Nat \ {0} /\ running[w] \in Adapters
    /\ queue \in Seq(Status)
    /\ mapping \in ClusterNames \cup {NoName}
    /\ filterConfig \in FilterConfigs \cup {NoFilter}
    /\ edits \in 0..MaxEdits /\ restarts \in 0..MaxRestarts
    /\ reported \subseteq 1..MaxReports
    /\ hasty \in BOOLEAN

EmptyStatus == [role |-> NoRole, active |-> FALSE, adapter |-> NoAdapter,
                cluster |-> NoName, conditions |-> {}]

\* The object has been created and the cache is still empty.
Init ==
    /\ \E s \in Spec_ :
         versions = <<[exists |-> FALSE, spec |-> s, status |-> EmptyStatus],
                      [exists |-> TRUE,  spec |-> s, status |-> EmptyStatus]>>
    /\ request = FALSE
    /\ previous = FALSE
    /\ tracked = 0
    /\ running = <<>>
    /\ queue = <<>>
    /\ mapping = NoName /\ filterConfig = NoFilter
    /\ edits = 0 /\ reported = {} /\ restarts = 0
    /\ hasty = FALSE

seen   == Head(versions)
latest == versions[Len(versions)]
upToDate == Len(versions) = 1

\* The cache is up to date and both goroutines have nothing left to do.
AtRest == upToDate /\ ~request /\ queue = <<>>

clusterChanged == ~previous \/ seen.status.cluster # seen.spec.cluster

\* Reconcile cannot get past an empty cluster name: the request is retried in
\* vain until somebody edits the object.
unmappable == clusterChanged /\ seen.spec.cluster = NoName

Blocked == upToDate /\ queue = <<>> /\ seen.exists /\ unmappable

-----------------------------------------------------------------------------
(* The API server, its users, and the cache.                               *)

Edit ==
    /\ edits < MaxEdits
    /\ \/ /\ latest.exists
          /\ \E s \in Spec_ : s # latest.spec /\
               versions' = Append(versions, [latest EXCEPT !.spec = s])
       \/ /\ latest.exists
          /\ versions' = Append(versions, [latest EXCEPT !.exists = FALSE])
       \/ /\ ~latest.exists
          /\ \E s \in Spec_ : versions' =
               Append(versions, [exists |-> TRUE, spec |-> s, status |-> EmptyStatus])
    /\ edits' = edits + 1
    /\ hasty' = (hasty \/ ~(AtRest \/ Blocked))
    /\ UNCHANGED <<request, previous, tracked, running, queue, container,
                   reported, restarts>>

\* Mutant: a change of the status alone does not enqueue a request.
M_IgnoreStatusChanges ==
    /\ ~upToDate
    /\ versions' = Tail(versions)
    /\ request' = (request \/ [Head(versions') EXCEPT !.status = seen.status] # seen)
    /\ UNCHANGED <<previous, tracked, running, queue, container, counters, hasty>>

\* Every version that reaches the cache enqueues a request.
CacheAdvances ==
    /\ ~upToDate
    /\ versions' = Tail(versions)
    /\ request' = TRUE
    /\ UNCHANGED <<previous, tracked, running, queue, container, counters, hasty>>

\* A new process has empty maps and queues, and no worker.
Restart ==
    /\ restarts < MaxRestarts
    /\ restarts' = restarts + 1
    /\ versions' = <<latest>> /\ request' = latest.exists
    /\ previous' = FALSE /\ tracked' = 0 /\ running' = <<>> /\ queue' = <<>>
    /\ mapping' = NoName /\ filterConfig' = NoFilter
    /\ UNCHANGED <<edits, reported, hasty>>

-----------------------------------------------------------------------------
(* Reconcile.                                                              *)

Without(f, w) == [x \in DOMAIN f \ {w} |-> f[x]]

With(f, w, a) == [x \in DOMAIN f \cup {w} |-> IF x = w THEN a ELSE f[x]]

\* The number of the next worker.
Unused(f) == CHOOSE w \in 1..(Cardinality(DOMAIN f) + 1) : w \notin DOMAIN f

\* Mutants: the maps keep a cancelled worker; nothing is done about a deletion.
M_KeepCancelled ==
    /\ request /\ ~seen.exists
    /\ request' = FALSE
    /\ running' = Without(running, tracked)
    /\ UNCHANGED <<versions, previous, tracked, queue, container, counters, hasty>>

M_IgnoreDeletion ==
    /\ request /\ ~seen.exists
    /\ request' = FALSE
    /\ UNCHANGED <<versions, previous, tracked, running, queue, container, counters, hasty>>

\* The object is gone: its worker is cancelled.
ReconcileMissing ==
    /\ request /\ ~seen.exists
    /\ request' = FALSE
    /\ running' = Without(running, tracked)
    /\ tracked' = 0
    /\ UNCHANGED <<versions, previous, queue, container, counters, hasty>>

\* Without previous state, or when a field differs, a restart is asked for ...
restartRequire == clusterChanged \/ seen.status.adapter # seen.spec.adapter

\* Mutant: whether a worker exists does not matter.
M_OnlyWhenChanged == seen.spec.active # seen.status.active

\* Mutant: each Reconcile of an active namespace starts a worker.
M_AlwaysSync == TRUE

\* ... which only has an effect where Active is synchronised.
syncsActive == tracked = 0 \/ seen.spec.active # seen.status.active

newStatus ==
    [role       |-> IF seen.status.role = NoRole THEN seen.spec.role ELSE seen.status.role,
     active     |-> seen.spec.active,
     adapter    |-> seen.spec.adapter,
     cluster    |-> seen.spec.cluster,
     conditions |-> seen.status.conditions]

\* The filter configuration is the first one that this process sees.
UpdateFilterConfigToContainer ==
    filterConfig' = IF previous THEN filterConfig ELSE seen.spec.filter

\* An empty cluster name is an error: the request stays queued, the filter
\* configuration has been set.
ReconcileFails ==
    /\ request /\ seen.exists /\ unmappable
    /\ UpdateFilterConfigToContainer
    /\ UNCHANGED <<versions, request, previous, tracked, running, queue, mapping,
                   counters, hasty>>

\* Configuration, cancel of the tracked worker, start of a new one (which
\* replaces the tracked one in the maps), and the status for the updater.
ReconcilePresent ==
    /\ request /\ seen.exists /\ ~unmappable
    /\ UpdateFilterConfigToContainer
    /\ mapping' = IF clusterChanged THEN seen.spec.cluster ELSE mapping
    /\ LET stops  == syncsActive /\ (restartRequire \/ ~seen.spec.active)
           starts == syncsActive /\ seen.spec.active
           left   == IF stops THEN Without(running, tracked) ELSE running
           w      == Unused(left)
       IN /\ running' = IF starts THEN With(left, w, seen.spec.adapter) ELSE left
          /\ tracked' = IF starts THEN w ELSE IF stops THEN 0 ELSE tracked
    /\ previous' = TRUE
    /\ queue' = Append(queue, newStatus)
    /\ request' = FALSE
    /\ UNCHANGED <<versions, counters, hasty>>

-----------------------------------------------------------------------------
(* The status updater.                                                     *)

\* UpdateCondition, called by a worker: the whole status as the cache shows it,
\* with one condition added, is queued.
UpdateCondition(k) ==
    /\ DOMAIN running # {} /\ k \notin reported
    /\ reported' = reported \cup {k}
    /\ queue' = IF seen.exists
                THEN Append(queue, [seen.status EXCEPT !.conditions = @ \cup {k}])
                ELSE queue
    /\ hasty' = (hasty \/ ~(AtRest \/ Blocked))
    /\ UNCHANGED <<versions, request, previous, tracked, running, container,
                   edits, restarts>>

\* run: the object is read from the cache again, its status replaced, and the
\* update sent.  It conflicts when the cache is behind, and is then dropped.
\* An update that changes nothing makes no new version.
runUpdate ==
    /\ queue # <<>>
    /\ queue' = Tail(queue)
    /\ versions' = IF seen.exists /\ upToDate /\ latest.status # Head(queue)
                   THEN Append(versions, [latest EXCEPT !.status = Head(queue)])
                   ELSE versions
    /\ UNCHANGED <<request, previous, tracked, running, container, counters, hasty>>

Reconcile == ReconcileMissing \/ ReconcileFails \/ ReconcilePresent

Next ==
    \/ Edit \/ CacheAdvances \/ Restart \/ Reconcile \/ runUpdate
    \/ \E k \in 1..MaxReports : UpdateCondition(k)

Spec == Init /\ [][Next]_vars

\* The informer, the reconciler and the updater are goroutines of their own.
FairSpec == Spec /\ WF_vars(CacheAdvances) /\ WF_vars(Reconcile) /\ WF_vars(runUpdate)

-----------------------------------------------------------------------------
(* Properties.                                                             *)

\* At rest an active namespace has a worker, also after a restart of the
\* process that finds Active in the status already.
ActiveHasWorker ==
    AtRest /\ latest.exists /\ latest.spec.active => tracked # 0

\* At rest a deleted namespace has no worker that the reconciler still knows.
DeletedHasNoWorker == AtRest /\ ~latest.exists => tracked = 0

\* When everybody waits for the reconciler before the next edit or condition,
\* and whenever the process restarts, then at rest the namespace is mapped to
\* the cluster it names, and the tracked worker of an active namespace is the
\* only one that runs: no worker is left behind by a change, a deletion or a new
\* object of the same name.  (A new object that names no cluster keeps the
\* cluster of the old one.)
InStep ==
    AtRest /\ ~hasty =>
      /\ latest.exists /\ latest.spec.cluster # NoName => mapping = latest.spec.cluster
      /\ latest.exists /\ edits = 0 => filterConfig = latest.spec.filter
      /\ DOMAIN running = IF latest.exists /\ latest.spec.active THEN {tracked} ELSE {}

\* When users stop editing, the status takes over the fields of the
\* specification for good, whatever stale statuses were queued and whichever
\* updates were dropped by conflicts.
StatusConverges ==
    <>[](latest.exists /\ latest.spec.cluster # NoName =>
           /\ latest.status.active = latest.spec.active
           /\ latest.status.adapter = latest.spec.adapter
           /\ latest.status.cluster = latest.spec.cluster)

\* Conditions are updated in one place only "to avoid race conditions": those
\* reported for an object that nobody edits are in its status at rest.
ConditionsKept ==
    AtRest /\ edits = 0 /\ restarts = 0
      => latest.status.conditions = reported
=============================================================================
