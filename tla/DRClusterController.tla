-------------------------- MODULE DRClusterController --------------------------
(***************************************************************************)
(* The reconciler of one DRCluster object (pkg/controller/drcluster): it   *)
(* copies Active and the adapter into DRNamespace objects one update at a  *)
(* time, pushes the pair cluster settings, and writes its status last.     *)
(*                                                                         *)
(* The versions of the object are a sequence from the one in the informer  *)
(* cache to the latest one.  Of a DRNamespace, only whether the cache and  *)
(* a listed copy are up to date is kept, since an update of an outdated    *)
(* copy conflicts.  TransportAdapter and CollectorType are handled alike   *)
(* and are one field, "adapter".  Namespaces are not created, deleted or   *)
(* moved to another cluster here.                                          *)
(***************************************************************************)
EXTENDS Naturals, Sequences

CONSTANTS
    Namespaces,             \* the DRNamespace objects
    Relative,               \* those whose DRPairClusterName is this cluster
    Roles, NoRole, Adapters, NoAdapter, Settings, NoSettings,
    MaxEdits,               \* bounds: changes of the specification,
    MaxNamespaceEdits,      \*   edits of namespace objects by users,
    MaxFailures,            \*   requests that fail without a conflict,
    MaxRestarts             \*   restarts of the manager process

ASSUME RelativeAssumption == Relative \subseteq Namespaces
ASSUME NoneAssumption ==
    NoRole \notin Roles /\ NoAdapter \notin Adapters /\ NoSettings \notin Settings
ASSUME BoundAssumption ==
    MaxEdits \in Nat /\ MaxNamespaceEdits \in Nat /\ MaxFailures \in Nat /\ MaxRestarts \in Nat

VARIABLES
    versions,       \* of the DRCluster object
    request,        \* a reconcile request is queued
    pc,             \* what Reconcile is doing
    instance,       \* the version it has read
    overtaken,      \* that is no longer the latest version
    todo,           \* namespaces of the current list still to be updated
    namespaces,     \* the DRNamespace objects at the API server
    behind,         \* those the cache shows an older version of
    outdated,       \* those the current list has an older version of
    settings,       \* the settings pushed to the configuration container
    edits, namespaceEdits, failures, restarts,  \* history: how many so far,
    hasty,          \*   whether an edit did not wait for the reconciler,
    touched         \*   and the namespaces users edited during this Reconcile

objectVars == <<versions, overtaken, edits, restarts, hasty>>
nsVars     == <<namespaces, behind, outdated, namespaceEdits, touched>>
vars == <<objectVars, nsVars, request, pc, instance, todo, settings, failures>>

ClusterSpec   == [role : Roles, active : BOOLEAN, adapter : Adapters, settings : Settings]
ClusterStatus == [role : Roles \cup {NoRole}, active : BOOLEAN, adapter : Adapters \cup {NoAdapter}]
Version       == [exists : BOOLEAN, spec : ClusterSpec, status : ClusterStatus]
Loops         == {"active", "adapter", "deactivate"}

TypeOK ==
    /\ versions \in Seq(Version) /\ versions # <<>>
    /\ request \in BOOLEAN /\ overtaken \in BOOLEAN
    /\ pc \in {"idle", "status"} \cup Loops
    /\ pc = "deactivate" <=> pc # "idle" /\ ~instance.exists
    /\ instance \in Version
    /\ todo \subseteq Namespaces /\ (todo # {} => pc \in Loops)
    /\ namespaces \in [Namespaces -> [active : BOOLEAN, adapter : Adapters]]
    /\ behind \subseteq Namespaces
    /\ outdated \subseteq Namespaces /\ touched \subseteq Namespaces
    /\ settings \in Settings \cup {NoSettings}
    /\ edits \in 0..MaxEdits /\ namespaceEdits \in 0..MaxNamespaceEdits
    /\ failures \in 0..MaxFailures /\ restarts \in 0..MaxRestarts
    /\ hasty \in BOOLEAN

EmptyStatus == [role |-> NoRole, active |-> FALSE, adapter |-> NoAdapter]

\* The object has been created, the cache does not show it yet; Active is false
\* in a DRNamespace until someone sets it.
Init ==
    /\ \E s \in ClusterSpec :
         LET v == [exists |-> FALSE, spec |-> s, status |-> EmptyStatus]
         IN versions = <<v, [v EXCEPT !.exists = TRUE]>> /\ instance = v
    /\ request = FALSE
    /\ pc = "idle"
    /\ overtaken = FALSE
    /\ todo = {}
    /\ \E x \in Adapters :
         namespaces = [n \in Namespaces |-> [active |-> FALSE, adapter |-> x]]
    /\ behind = {} /\ outdated = {} /\ touched = {}
    /\ settings = NoSettings
    /\ edits = 0 /\ namespaceEdits = 0 /\ failures = 0 /\ restarts = 0
    /\ hasty = FALSE

seen     == Head(versions)
latest   == versions[Len(versions)]
upToDate == Len(versions) = 1

AtRest == upToDate /\ ~request /\ pc = "idle"

-----------------------------------------------------------------------------
(* Users, the API server and the caches.                                   *)

NewVersion(v) == versions' = Append(versions, v) /\ overtaken' = TRUE

EditCluster ==
    /\ latest.exists
    /\ \/ /\ edits < MaxEdits /\ edits' = edits + 1
          /\ \E s \in ClusterSpec : s # latest.spec /\ NewVersion([latest EXCEPT !.spec = s])
       \/ /\ NewVersion([latest EXCEPT !.exists = FALSE])
          /\ UNCHANGED edits
    /\ hasty' = (hasty \/ ~AtRest)
    /\ UNCHANGED <<restarts, nsVars, request, pc, instance, todo, settings, failures>>

EditNamespace(n) ==
    /\ namespaceEdits < MaxNamespaceEdits
    /\ namespaceEdits' = namespaceEdits + 1
    /\ namespaces' = [namespaces EXCEPT ![n].active = ~@]
    /\ behind' = behind \cup {n} /\ outdated' = outdated \cup {n}
    /\ touched' = touched \cup {n}
    /\ UNCHANGED <<objectVars, request, pc, instance, todo, settings, failures>>

ClusterCacheAdvances ==
    /\ ~upToDate
    /\ versions' = Tail(versions)
    /\ request' = TRUE
    /\ UNCHANGED <<overtaken, edits, restarts, hasty, nsVars, pc, instance, todo, settings, failures>>

NamespaceCacheAdvances(n) ==
    /\ n \in behind
    /\ behind' = behind \ {n}
    /\ UNCHANGED <<objectVars, namespaces, outdated, namespaceEdits, touched,
                   request, pc, instance, todo, settings, failures>>

\* The process ends wherever Reconcile is.  The new one has empty maps, and its
\* first list enqueues a request for the object if there is one.
Restart ==
    /\ restarts < MaxRestarts
    /\ restarts' = restarts + 1
    /\ versions' = <<latest>> /\ request' = latest.exists /\ overtaken' = FALSE
    /\ behind' = {} /\ outdated' = {} /\ touched' = {}
    /\ pc' = "idle" /\ todo' = {} /\ settings' = NoSettings
    /\ UNCHANGED <<edits, hasty, namespaces, namespaceEdits, instance, failures>>

-----------------------------------------------------------------------------
(* Reconcile.                                                              *)

\* r.client.List: the copies are as old as the cache.
List(loop, names) ==
    /\ pc' = loop /\ todo' = names
    /\ outdated' = behind

\* Mutant: settings are pushed only once.
M_PushOnce(v) ==
    /\ settings' = IF settings = NoSettings THEN v.spec.settings ELSE settings
    /\ pc' = "status" /\ todo' = {}
    /\ UNCHANGED outdated

\* After the loops: the settings are pushed, the status is written next.
PushSettings(v) ==
    /\ settings' = v.spec.settings
    /\ pc' = "status" /\ todo' = {}
    /\ UNCHANGED outdated

SyncAdapter(v) ==
    IF v.spec.adapter # v.status.adapter
      THEN List("adapter", Namespaces) /\ UNCHANGED settings
      ELSE PushSettings(v)

\* When the object is gone, its cluster name is "", and so is the ClusterName
\* of every DRNamespace: they all count as relative.
BeginReconcile ==
    /\ request /\ pc = "idle"
    /\ request' = FALSE
    /\ instance' = seen /\ overtaken' = ~upToDate /\ touched' = {}
    /\ IF ~seen.exists
         THEN List("deactivate", Namespaces) /\ UNCHANGED settings
         ELSE IF seen.spec.active # seen.status.active
           THEN List("active", Relative) /\ UNCHANGED settings
           ELSE SyncAdapter(seen)
    /\ UNCHANGED <<versions, edits, restarts, hasty, namespaces, behind,
                   namespaceEdits, failures>>

Written(n) ==
    CASE pc = "active"     -> [namespaces[n] EXCEPT !.active = instance.spec.active]
      [] pc = "adapter"    -> [namespaces[n] EXCEPT !.adapter = instance.spec.adapter]
      [] pc = "deactivate" -> [namespaces[n] EXCEPT !.active = FALSE]

\* An update that changes nothing makes no new version.
UpdateNamespace(n) ==
    /\ pc \in Loops /\ n \in todo
    /\ n \notin outdated
    /\ namespaces' = [namespaces EXCEPT ![n] = Written(n)]
    /\ LET changed == IF Written(n) # namespaces[n] THEN {n} ELSE {}
       IN behind' = behind \cup changed /\ outdated' = outdated \cup changed
    /\ todo' = todo \ {n}
    /\ UNCHANGED <<objectVars, namespaceEdits, touched, request, pc, instance,
                   settings, failures>>

\* Any error ends Reconcile; the request is queued again.
Abort ==
    /\ pc' = "idle" /\ request' = TRUE /\ todo' = {}
    /\ UNCHANGED <<objectVars, nsVars, instance, settings>>

\* Mutants: the loop goes on after an error; the request is not queued again.
M_SkipFailure(n) ==
    /\ pc \in Loops /\ n \in todo
    /\ n \in outdated
    /\ todo' = todo \ {n}
    /\ UNCHANGED <<objectVars, nsVars, request, pc, instance, settings, failures>>

M_NoRequeue(n) ==
    /\ pc \in Loops /\ n \in todo
    /\ n \in outdated
    /\ pc' = "idle" /\ todo' = {}
    /\ UNCHANGED <<objectVars, nsVars, request, instance, settings, failures>>

\* A conflict, or a request that fails.
UpdateFails(n) ==
    /\ pc \in Loops /\ n \in todo
    /\ \/ n \in outdated /\ UNCHANGED failures
       \/ failures < MaxFailures /\ failures' = failures + 1
    /\ Abort

\* Mutant: Reconcile does not return after the deactivation.
M_NoReturn ==
    /\ pc \in Loops /\ todo = {}
    /\ IF pc = "active" THEN SyncAdapter(instance) ELSE PushSettings(instance)
    /\ UNCHANGED <<objectVars, namespaces, behind, namespaceEdits, touched,
                   request, instance, failures>>

EndLoop ==
    /\ pc \in Loops /\ todo = {}
    /\ CASE pc = "active"     -> SyncAdapter(instance)
         [] pc = "adapter"    -> PushSettings(instance)
         [] pc = "deactivate" -> pc' = "idle" /\ UNCHANGED <<settings, todo, outdated>>
    /\ UNCHANGED <<objectVars, namespaces, behind, namespaceEdits, touched,
                   request, instance, failures>>

newStatus ==
    [role    |-> IF instance.status.role = NoRole THEN instance.spec.role
                 ELSE instance.status.role,
     active  |-> instance.spec.active,
     adapter |-> instance.spec.adapter]

\* Mutant: the status is written without regard to newer versions.
M_Overwrite ==
    /\ pc = "status"
    /\ NewVersion([latest EXCEPT !.status = newStatus])
    /\ pc' = "idle"
    /\ UNCHANGED <<edits, restarts, hasty, nsVars, request, instance, todo, settings,
                   failures>>

WriteStatus ==
    /\ pc = "status" /\ ~overtaken
    /\ IF newStatus # latest.status THEN NewVersion([latest EXCEPT !.status = newStatus])
       ELSE UNCHANGED <<versions, overtaken>>
    /\ pc' = "idle"
    /\ UNCHANGED <<edits, restarts, hasty, nsVars, request, instance, todo, settings,
                   failures>>

StatusFails ==
    /\ pc = "status"
    /\ \/ overtaken /\ UNCHANGED failures
       \/ failures < MaxFailures /\ failures' = failures + 1
    /\ Abort

Reconcile ==
    \/ BeginReconcile \/ EndLoop \/ WriteStatus \/ StatusFails
    \/ \E n \in Namespaces : UpdateNamespace(n) \/ UpdateFails(n)

Next ==
    \/ EditCluster \/ ClusterCacheAdvances \/ Restart \/ Reconcile
    \/ \E n \in Namespaces : EditNamespace(n) \/ NamespaceCacheAdvances(n)

Spec == Init /\ [][Next]_vars

\* The informers keep the caches moving, the controller runs its worker.
Fairness ==
    /\ WF_vars(ClusterCacheAdvances) /\ WF_vars(Reconcile)
    /\ \A n \in Namespaces : WF_vars(NamespaceCacheAdvances(n))

FairSpec == Spec /\ Fairness

-----------------------------------------------------------------------------
(* Properties.                                                             *)

\* "`Role` is immutable": the role in the status never changes, whatever stale
\* versions Reconcile works on.
RoleImmutable ==
    [][latest.status.role # NoRole => latest'.status.role = latest.status.role]_versions

\* When the status takes over a new Active, each namespace of the cluster has
\* it, except those a user edited meanwhile: a failed loop is never skipped.
ActiveReachedNamespaces ==
    [][latest'.status.active # latest.status.active =>
         \A n \in Relative \ touched : namespaces[n].active = latest'.status.active]_versions

\* At rest the workers' settings are those of the latest specification.
SettingsPushed == AtRest /\ latest.exists => settings = latest.spec.settings

\* When each change of the object waits for the reconciler, then at rest the
\* namespaces that users leave alone are as it says, whichever updates conflicted
\* or failed and wherever the process was restarted.  (A change that is taken
\* back between the update of a namespace and that of the status is not undone.)
NamespacesFollow ==
    AtRest /\ latest.exists /\ ~hasty /\ namespaceEdits = 0 =>
      /\ \A n \in Relative : namespaces[n].active = latest.spec.active
      /\ \A n \in Namespaces : namespaces[n].adapter = latest.spec.adapter

\* When users stop editing, the status follows the specification for good;
\* after a deletion the namespaces nobody activates are inactive for good, unless
\* a restart comes between the deletion and its request.
ClusterConverges ==
    <>[](IF latest.exists
           THEN /\ latest.status.active = latest.spec.active
                /\ latest.status.adapter = latest.spec.adapter
           ELSE namespaceEdits = 0 /\ restarts = 0 => \A n \in Relative : ~namespaces[n].active)

\* "Deactived relative drNamespaces": only those are deactivated.
OnlyRelativeDeactivated ==
    [][pc = "deactivate" => \A n \in Namespaces \ Relative :
         namespaces'[n].active = namespaces[n].active]_namespaces
=============================================================================
