----------------------- MODULE DRClusterControllerProofs -----------------------
(***************************************************************************)
(* Theorems about DRClusterController for all values of its constants.     *)
(***************************************************************************)
EXTENDS DRClusterController, VersionSequences, TLAPS

(* The inductive invariant, in named parts.                                *)

\* Reconcile works on the latest version, unless a newer one was written.
InstanceIsLatest == pc # "idle" /\ ~overtaken => instance = latest

\* Whatever the cache has shown since Reconcile read it has queued a request.
InstanceIsSeen == pc # "idle" /\ ~request => instance = seen

\* The settings in force are those of the version last dealt with.
PushedByReconcile ==
    /\ pc = "status" => settings = instance.spec.settings
    /\ pc = "idle" /\ ~request /\ seen.exists => settings = seen.spec.settings

\* After its turn in the loop a namespace has the new Active.
ReachedByLoop ==
    pc # "idle" /\ instance.exists /\ instance.spec.active # instance.status.active =>
      \A n \in Relative \ touched :
        \/ pc = "active" /\ n \in todo
        \/ namespaces[n].active = instance.spec.active

IInv == TypeOK /\ InstanceIsLatest /\ InstanceIsSeen /\ PushedByReconcile /\ ReachedByLoop

-----------------------------------------------------------------------------
(* Versions of the object.                                                 *)

\* The versions never run out; the first and the last of them are versions.
LEMMA SeenAndLatest ==
    ASSUME TypeOK
    PROVE  seen \in Version /\ latest \in Version /\ (upToDate => seen = latest)
BY DEF TypeOK, seen, latest, upToDate

\* A new version becomes the latest one, and the cache shows what it showed.
LEMMA Appended ==
    ASSUME TypeOK, NEW v \in Version, NewVersion(v)
    PROVE  /\ versions' \in Seq(Version) /\ versions' # <<>>
           /\ latest' = v /\ seen' = seen /\ overtaken' = TRUE
BY DEF TypeOK, NewVersion, seen, latest

\* The cache shows a newer version, the latest one stays the latest.
LEMMA Advanced ==
    ASSUME TypeOK, ~upToDate, versions' = Tail(versions)
    PROVE  versions' \in Seq(Version) /\ versions' # <<>> /\ latest' = latest
BY TailKeepsLast DEF TypeOK, upToDate, latest

\* The status that Reconcile writes is a status.
LEMMA StatusTyped == TypeOK => newStatus \in ClusterStatus
BY DEF TypeOK, newStatus, Version, ClusterSpec, ClusterStatus

-----------------------------------------------------------------------------
(* Type correctness.                                                       *)

\* The object exists and no reconcile has begun.
LEMMA InitTyped == Init => TypeOK
<1> SUFFICES ASSUME Init PROVE TypeOK
  OBVIOUS
<1>1. versions \in Seq(Version) /\ versions # <<>> /\ instance \in Version
  <2>1. PICK s \in ClusterSpec :
          LET v == [exists |-> FALSE, spec |-> s, status |-> EmptyStatus]
          IN versions = <<v, [v EXCEPT !.exists = TRUE]>> /\ instance = v
    BY DEF Init
  <2>2. EmptyStatus \in ClusterStatus
    BY DEF EmptyStatus, ClusterStatus
  <2> DEFINE v == [exists |-> FALSE, spec |-> s, status |-> EmptyStatus]
  <2>3. v \in Version /\ [v EXCEPT !.exists = TRUE] \in Version
    BY <2>2 DEF Version
  <2>4. versions = <<v, [v EXCEPT !.exists = TRUE]>> /\ instance = v
    BY <2>1
  <2> HIDE DEF v
  <2> QED
    BY <2>3, <2>4
<1>2. namespaces \in [Namespaces -> [active : BOOLEAN, adapter : Adapters]]
  BY DEF Init
<1>3. edits \in 0..MaxEdits /\ namespaceEdits \in 0..MaxNamespaceEdits
      /\ failures \in 0..MaxFailures /\ restarts \in 0..MaxRestarts
  BY BoundAssumption DEF Init
<1> QED
  BY <1>1, <1>2, <1>3 DEF Init, TypeOK

\* Users and the API server make versions, the caches drop them.
LEMMA EnvironmentTyped ==
    ASSUME TypeOK,
           \/ EditCluster \/ ClusterCacheAdvances \/ Restart
           \/ \E n \in Namespaces : EditNamespace(n) \/ NamespaceCacheAdvances(n)
    PROVE  TypeOK'
<1> USE BoundAssumption
<1>1. CASE EditCluster
  <2>1. PICK v \in Version : NewVersion(v)
    BY <1>1, SeenAndLatest DEF EditCluster, Version
  <2>2. edits' \in 0..MaxEdits /\ hasty' \in BOOLEAN
    BY <1>1 DEF EditCluster, TypeOK
  <2> QED
    BY <1>1, <2>1, <2>2, Appended DEF EditCluster, TypeOK, nsVars
<1>2. CASE ClusterCacheAdvances
  BY <1>2, Advanced DEF ClusterCacheAdvances, TypeOK, nsVars
<1>3. ASSUME NEW n \in Namespaces, EditNamespace(n)
      PROVE  TypeOK'
  <2>1. namespaces' \in [Namespaces -> [active : BOOLEAN, adapter : Adapters]]
    <3>1. namespaces[n] \in [active : BOOLEAN, adapter : Adapters]
      BY DEF TypeOK
    <3>2. [namespaces[n] EXCEPT !.active = ~@] \in [active : BOOLEAN, adapter : Adapters]
      BY <3>1
    <3> QED
      BY <1>3, <3>2 DEF EditNamespace, TypeOK
  <2>2. namespaceEdits' \in 0..MaxNamespaceEdits
    BY <1>3 DEF EditNamespace, TypeOK
  <2> QED
    BY <1>3, <2>1, <2>2 DEF EditNamespace, TypeOK, objectVars
<1>4. ASSUME NEW n \in Namespaces, NamespaceCacheAdvances(n)
      PROVE  TypeOK'
  BY <1>4 DEF NamespaceCacheAdvances, TypeOK, objectVars
<1>5. CASE Restart
  <2>1. versions' \in Seq(Version) /\ versions' # <<>> /\ request' \in BOOLEAN
    BY <1>5, SeenAndLatest DEF Restart, Version
  <2>2. restarts' \in 0..MaxRestarts
    BY <1>5 DEF Restart, TypeOK
  <2> QED
    BY <1>5, <2>1, <2>2 DEF Restart, TypeOK, Loops
<1> QED
  BY <1>1, <1>2, <1>3, <1>4, <1>5

\* Each step of Reconcile keeps every variable in its type.
LEMMA ReconcileTyped == TypeOK /\ Reconcile => TypeOK'
<1> SUFFICES ASSUME TypeOK, Reconcile PROVE TypeOK'
  OBVIOUS
<1> USE BoundAssumption, RelativeAssumption DEF TypeOK, Loops
<1>1. CASE BeginReconcile
  <2>1. seen \in Version
    BY SeenAndLatest
  <2> QED
    BY <1>1, <2>1 DEF BeginReconcile, List, SyncAdapter, PushSettings, Version, ClusterSpec
<1>2. CASE EndLoop
  BY <1>2 DEF EndLoop, List, SyncAdapter, PushSettings, Version, ClusterSpec, objectVars
<1>3. CASE WriteStatus
  <2>1. CASE newStatus # latest.status
    <3>1. PICK v \in Version : NewVersion(v)
      BY <1>3, <2>1, SeenAndLatest, StatusTyped DEF WriteStatus, Version
    <3> QED
      BY <1>3, <3>1, Appended DEF WriteStatus, nsVars
  <2>2. CASE newStatus = latest.status
    BY <1>3, <2>2 DEF WriteStatus, nsVars
  <2> QED
    BY <2>1, <2>2
<1>4. CASE StatusFails
  BY <1>4 DEF StatusFails, Abort, objectVars, nsVars
<1>5. ASSUME NEW n \in Namespaces, UpdateNamespace(n)
      PROVE  TypeOK'
  <2>1. Written(n) \in [active : BOOLEAN, adapter : Adapters]
    BY <1>5 DEF UpdateNamespace, Written, Version, ClusterSpec
  <2> QED
    BY <1>5, <2>1 DEF UpdateNamespace, objectVars
<1>6. ASSUME NEW n \in Namespaces, UpdateFails(n)
      PROVE  TypeOK'
  BY <1>6 DEF UpdateFails, Abort, objectVars, nsVars
<1> QED
  BY <1>1, <1>2, <1>3, <1>4, <1>5, <1>6 DEF Reconcile

\* A step keeps every variable in its type.
LEMMA NextTyped == TypeOK /\ [Next]_vars => TypeOK'
<1>1. TypeOK /\ UNCHANGED vars => TypeOK'
  BY DEF TypeOK, vars, objectVars, nsVars
<1> QED
  BY <1>1, EnvironmentTyped, ReconcileTyped DEF Next

\* The type invariant holds at every state: in particular the deactivating loop
\* is exactly what Reconcile does with an object that is gone.
THEOREM Typed == Spec => []TypeOK
BY InitTyped, NextTyped, PTL DEF Spec

-----------------------------------------------------------------------------
(* What Reconcile knows of the version it works on.                        *)

\* A status is written over the version that Reconcile read, or the write fails.
LEMMA NextInstance ==
    TypeOK /\ InstanceIsLatest /\ InstanceIsSeen /\ [Next]_vars
      => (InstanceIsLatest /\ InstanceIsSeen)'
<1> SUFFICES ASSUME TypeOK, InstanceIsLatest, InstanceIsSeen, [Next]_vars
             PROVE  (InstanceIsLatest /\ InstanceIsSeen)'
  OBVIOUS
<1> USE DEF InstanceIsLatest, InstanceIsSeen
<1>0. ASSUME UNCHANGED versions PROVE latest' = latest /\ seen' = seen /\ upToDate' = upToDate
  BY <1>0 DEF latest, seen, upToDate
<1>1. CASE EditCluster
  <2>1. PICK v \in Version : NewVersion(v)
    BY <1>1, SeenAndLatest DEF EditCluster, Version
  <2> QED
    BY <1>1, <2>1, Appended DEF EditCluster
<1>2. CASE ClusterCacheAdvances
  BY <1>2, Advanced DEF ClusterCacheAdvances
<1>3. ASSUME NEW n \in Namespaces, EditNamespace(n) \/ NamespaceCacheAdvances(n)
      PROVE  (InstanceIsLatest /\ InstanceIsSeen)'
  BY <1>0, <1>3 DEF EditNamespace, NamespaceCacheAdvances, objectVars
<1>4. CASE BeginReconcile
  BY <1>0, <1>4, SeenAndLatest DEF BeginReconcile
<1>5. CASE EndLoop
  BY <1>0, <1>5 DEF EndLoop, objectVars, Loops
<1>6. CASE WriteStatus
  BY <1>6 DEF WriteStatus
<1>7. CASE StatusFails
  BY <1>7 DEF StatusFails, Abort
<1>8. ASSUME NEW n \in Namespaces, UpdateNamespace(n)
      PROVE  (InstanceIsLatest /\ InstanceIsSeen)'
  BY <1>0, <1>8 DEF UpdateNamespace, objectVars
<1>9. ASSUME NEW n \in Namespaces, UpdateFails(n)
      PROVE  (InstanceIsLatest /\ InstanceIsSeen)'
  BY <1>9 DEF UpdateFails, Abort
<1>10. CASE Restart
  BY <1>10 DEF Restart
<1>11. CASE UNCHANGED vars
  BY <1>0, <1>11 DEF vars, objectVars
<1> QED
  BY <1>1, <1>2, <1>3, <1>4, <1>5, <1>6, <1>7, <1>8, <1>9, <1>10, <1>11 DEF Next, Reconcile

\* The settings are pushed before the status, and every change of what the cache
\* shows is followed by another Reconcile.
LEMMA NextPushed == IInv /\ [Next]_vars => PushedByReconcile'
<1> SUFFICES ASSUME IInv, [Next]_vars PROVE PushedByReconcile'
  OBVIOUS
<1> USE DEF PushedByReconcile
<1>i. TypeOK /\ InstanceIsSeen /\ PushedByReconcile
  BY DEF IInv
<1>0. ASSUME UNCHANGED versions PROVE seen' = seen
  BY <1>0 DEF seen
<1>1. CASE EditCluster
  <2>1. PICK v \in Version : NewVersion(v)
    BY <1>1, <1>i, SeenAndLatest DEF EditCluster, Version
  <2> QED
    BY <1>1, <1>i, <2>1, Appended DEF EditCluster
<1>2. CASE ClusterCacheAdvances
  BY <1>2, <1>i DEF ClusterCacheAdvances
<1>3. ASSUME NEW n \in Namespaces, EditNamespace(n) \/ NamespaceCacheAdvances(n)
      PROVE  PushedByReconcile'
  BY <1>0, <1>3, <1>i DEF EditNamespace, NamespaceCacheAdvances, objectVars
<1>4. CASE BeginReconcile
  BY <1>4 DEF BeginReconcile, List, SyncAdapter, PushSettings
<1>5. CASE EndLoop
  BY <1>0, <1>5, <1>i DEF EndLoop, List, SyncAdapter, PushSettings, objectVars, TypeOK,
                          Loops, InstanceIsSeen
<1>6. CASE WriteStatus
  <2>1. seen' = seen
    BY <1>6, <1>i, SeenAndLatest, StatusTyped, Appended, <1>0 DEF WriteStatus, Version
  <2> QED
    BY <1>6, <1>i, <2>1 DEF WriteStatus, InstanceIsSeen
<1>7. CASE StatusFails
  BY <1>7 DEF StatusFails, Abort
<1>8. ASSUME NEW n \in Namespaces, UpdateNamespace(n)
      PROVE  PushedByReconcile'
  BY <1>0, <1>8, <1>i DEF UpdateNamespace, objectVars, Loops
<1>9. ASSUME NEW n \in Namespaces, UpdateFails(n)
      PROVE  PushedByReconcile'
  BY <1>9 DEF UpdateFails, Abort
<1>10. CASE Restart
  <2>1. seen' = latest /\ request' = latest.exists /\ pc' = "idle"
    BY <1>10 DEF Restart, seen
  <2> QED
    BY <2>1
<1>11. CASE UNCHANGED vars
  BY <1>0, <1>11, <1>i DEF vars, objectVars
<1> QED
  BY <1>1, <1>2, <1>3, <1>4, <1>5, <1>6, <1>7, <1>8, <1>9, <1>10, <1>11 DEF Next, Reconcile

\* A namespace leaves the work list of the loop only with the new Active, and
\* the adapter loop does not take it back.
LEMMA NextReached == IInv /\ [Next]_vars => ReachedByLoop'
<1> SUFFICES ASSUME IInv, [Next]_vars PROVE ReachedByLoop'
  OBVIOUS
<1> USE DEF ReachedByLoop
<1>i. TypeOK /\ ReachedByLoop
  BY DEF IInv
<1>1. CASE EditCluster
  BY <1>1, <1>i DEF EditCluster, nsVars
<1>2. CASE ClusterCacheAdvances
  BY <1>2, <1>i DEF ClusterCacheAdvances, nsVars
<1>3. ASSUME NEW n \in Namespaces, EditNamespace(n)
      PROVE  ReachedByLoop'
  BY <1>3, <1>i DEF EditNamespace, TypeOK
<1>4. ASSUME NEW n \in Namespaces, NamespaceCacheAdvances(n)
      PROVE  ReachedByLoop'
  BY <1>4, <1>i DEF NamespaceCacheAdvances
<1>5. CASE BeginReconcile
  BY <1>5 DEF BeginReconcile, List, SyncAdapter, PushSettings
<1>6. CASE EndLoop
  <2>1. pc' # "active" /\ UNCHANGED <<instance, touched, namespaces>>
    BY <1>6 DEF EndLoop, List, SyncAdapter, PushSettings, Loops
  <2>2. \A n \in Relative \ touched :
          pc' # "idle" /\ instance.exists /\ instance.spec.active # instance.status.active
            => namespaces[n].active = instance.spec.active
    BY <1>6, <1>i DEF EndLoop, Loops
  <2> QED
    BY <2>1, <2>2
<1>7. CASE WriteStatus
  BY <1>7 DEF WriteStatus
<1>8. CASE StatusFails
  BY <1>8 DEF StatusFails, Abort
<1>9. ASSUME NEW n \in Namespaces, UpdateNamespace(n)
      PROVE  ReachedByLoop'
  <2>1. namespaces' = [namespaces EXCEPT ![n] = Written(n)] /\ todo' = todo \ {n}
        /\ UNCHANGED <<pc, instance, touched>> /\ pc \in Loops
    BY <1>9 DEF UpdateNamespace
  <2>2. namespaces[n] \in [active : BOOLEAN, adapter : Adapters]
    BY <1>i DEF TypeOK
  <2>3. /\ pc = "active" => Written(n).active = instance.spec.active
        /\ pc = "adapter" => Written(n).active = namespaces[n].active
    BY <2>2 DEF Written
  <2>4. instance.exists => pc \in {"active", "adapter"}
    BY <1>i, <2>1 DEF TypeOK, Loops
  <2> QED
    BY <1>i, <2>1, <2>3, <2>4 DEF TypeOK
<1>10. ASSUME NEW n \in Namespaces, UpdateFails(n)
      PROVE  ReachedByLoop'
  BY <1>10 DEF UpdateFails, Abort
<1>11. CASE Restart
  BY <1>11 DEF Restart
<1>12. CASE UNCHANGED vars
  BY <1>12, <1>i DEF vars, nsVars
<1> QED
  BY <1>1, <1>2, <1>3, <1>4, <1>5, <1>6, <1>7, <1>8, <1>9, <1>10, <1>11, <1>12
     DEF Next, Reconcile

\* The inductive invariant holds at every state.
LEMMA Inductive == Spec => []IInv
<1>1. Init => IInv
  <2> SUFFICES ASSUME Init PROVE IInv
    OBVIOUS
  <2>1. ~seen.exists
    BY DEF Init, seen
  <2> QED
    BY <2>1, InitTyped DEF Init, IInv, InstanceIsLatest, InstanceIsSeen, PushedByReconcile,
                           ReachedByLoop
<1>2. IInv /\ [Next]_vars => IInv'
  BY NextTyped, NextInstance, NextPushed, NextReached DEF IInv
<1> QED
  BY <1>1, <1>2, PTL DEF Spec

-----------------------------------------------------------------------------
(* The properties.                                                         *)

\* Only the status of the version that Reconcile read is ever replaced.
LEMMA StatusStep ==
    ASSUME IInv, [Next]_vars, latest'.status # latest.status
    PROVE  pc = "status" /\ instance = latest /\ latest'.status = newStatus
           /\ UNCHANGED namespaces
<1>i. TypeOK /\ InstanceIsLatest
  BY DEF IInv
<1>0. ~UNCHANGED versions
  BY DEF latest
<1>1. CASE EditCluster
  <2>1. ASSUME NEW s \in ClusterSpec, NewVersion([latest EXCEPT !.spec = s])
        PROVE  latest'.status = latest.status
    <3>1. [latest EXCEPT !.spec = s] \in Version
          /\ [latest EXCEPT !.spec = s].status = latest.status
      BY <1>i, SeenAndLatest DEF Version
    <3> QED
      BY <1>i, <2>1, <3>1, Appended
  <2>2. ASSUME NewVersion([latest EXCEPT !.exists = FALSE])
        PROVE  latest'.status = latest.status
    <3>1. [latest EXCEPT !.exists = FALSE] \in Version
          /\ [latest EXCEPT !.exists = FALSE].status = latest.status
      BY <1>i, SeenAndLatest DEF Version
    <3> QED
      BY <1>i, <2>2, <3>1, Appended
  <2> QED
    BY <1>1, <2>1, <2>2 DEF EditCluster
<1>2. CASE ClusterCacheAdvances
  BY <1>2, <1>i, Advanced DEF ClusterCacheAdvances
<1>3. CASE WriteStatus
  <2>1. newStatus # latest.status
    BY <1>0, <1>3 DEF WriteStatus
  <2>2. [latest EXCEPT !.status = newStatus] \in Version
    BY <1>i, SeenAndLatest, StatusTyped DEF Version
  <2>3. latest' = [latest EXCEPT !.status = newStatus]
    BY <1>3, <1>i, <2>1, <2>2, Appended DEF WriteStatus
  <2> QED
    BY <1>3, <1>i, <2>3, SeenAndLatest DEF WriteStatus, InstanceIsLatest, nsVars, Version
<1>4. CASE Restart
  <2>1. latest' = latest
    BY <1>4 DEF Restart, latest
  <2> QED
    BY <2>1
<1> QED
  BY <1>0, <1>1, <1>2, <1>3, <1>4
     DEF Next, Reconcile, EditNamespace, NamespaceCacheAdvances, BeginReconcile, EndLoop,
         StatusFails, UpdateNamespace, UpdateFails, Abort, vars, objectVars

\* "`Role` is immutable": the role in the status never changes once it is there,
\* although Reconcile takes it from a version that may be outdated.
THEOREM RoleStays == Spec => RoleImmutable
<1>1. IInv /\ [Next]_vars
        => (latest.status.role # NoRole => latest'.status.role = latest.status.role)
  BY StatusStep DEF newStatus
<1>2. IInv /\ [Next]_vars
        => [latest.status.role # NoRole => latest'.status.role = latest.status.role]_versions
  BY <1>1
<1> QED
  BY <1>2, Inductive, PTL DEF Spec, RoleImmutable

\* When the status takes over a new Active, each namespace of the cluster has it,
\* except those a user edited meanwhile.
THEOREM ActiveReached == Spec => ActiveReachedNamespaces
<1> DEFINE A == latest'.status.active # latest.status.active =>
                  \A n \in Relative \ touched : namespaces[n].active = latest'.status.active
<1>1. IInv /\ [Next]_vars => A
  <2> SUFFICES ASSUME IInv, [Next]_vars, latest'.status.active # latest.status.active,
                      NEW n \in Relative \ touched
               PROVE  namespaces[n].active = latest'.status.active
    OBVIOUS
  <2>1. pc = "status" /\ instance = latest /\ latest'.status = newStatus
    BY StatusStep
  <2>2. latest'.status.active = instance.spec.active
        /\ instance.spec.active # instance.status.active
    BY <2>1 DEF newStatus
  <2>3. instance.exists
    BY <2>1 DEF IInv, TypeOK, Version
  <2> QED
    BY <2>1, <2>2, <2>3 DEF IInv, ReachedByLoop
<1>2. IInv /\ [Next]_vars => [A]_versions
  BY <1>1
<1> QED
  BY <1>2, Inductive, PTL DEF Spec, ActiveReachedNamespaces

\* At rest the workers' settings are those of the latest specification.
THEOREM Pushed == Spec => []SettingsPushed
<1>1. IInv => SettingsPushed
  BY SeenAndLatest DEF IInv, PushedByReconcile, SettingsPushed, AtRest
<1> QED
  BY <1>1, Inductive, PTL

-----------------------------------------------------------------------------
(* The namespaces follow, as long as changes wait for the reconciler.      *)

\* Nothing is under way but one version the cache does not show yet, a request,
\* or Reconcile on the latest version; a field that the status has taken over is
\* that of the namespaces.
Following ==
    /\ touched = {}
    /\ ~upToDate => Len(versions) = 2 /\ ~request /\ pc = "idle"
    /\ pc # "idle" => ~request /\ ~overtaken
    /\ latest.exists /\ AtRest => /\ latest.status.active = latest.spec.active
                                  /\ latest.status.adapter = latest.spec.adapter
    /\ latest.exists /\ latest.status.active = latest.spec.active =>
         \A n \in Relative : namespaces[n].active = latest.spec.active
    /\ latest.exists /\ latest.status.adapter = latest.spec.adapter =>
         \A n \in Namespaces : namespaces[n].adapter = latest.spec.adapter

\* What the loops have done so far.
LoopsAtWork ==
    /\ pc = "active" => instance.spec.active # instance.status.active
    /\ pc = "adapter" => instance.spec.adapter # instance.status.adapter
    /\ pc \in {"adapter", "status"} /\ instance.spec.adapter # instance.status.adapter =>
         \A n \in Namespaces : \/ pc = "adapter" /\ n \in todo
                               \/ namespaces[n].adapter = instance.spec.adapter

FInv == IInv /\ LoopsAtWork /\ (~hasty /\ namespaceEdits = 0 => Following)

\* Once a namespace is updated, the adapter loop leaves it as it is.
LEMMA NextAtWork == TypeOK /\ LoopsAtWork /\ [Next]_vars => LoopsAtWork'
<1> SUFFICES ASSUME TypeOK, LoopsAtWork, [Next]_vars PROVE LoopsAtWork'
  OBVIOUS
<1> USE DEF LoopsAtWork
<1>1. ASSUME UNCHANGED <<pc, instance, todo, namespaces>> PROVE LoopsAtWork'
  BY <1>1
<1>2. ASSUME pc' = "idle" PROVE LoopsAtWork'
  BY <1>2
<1>3. CASE BeginReconcile
  BY <1>3 DEF BeginReconcile, List, SyncAdapter, PushSettings
<1>4. CASE EndLoop
  <2>1. UNCHANGED <<instance, namespaces>> /\ pc \in Loops /\ todo = {}
    BY <1>4 DEF EndLoop
  <2>2. CASE pc = "active"
    BY <1>4, <2>1, <2>2 DEF EndLoop, SyncAdapter, List, PushSettings
  <2>3. CASE pc = "adapter"
    BY <1>4, <2>1, <2>3 DEF EndLoop, PushSettings
  <2>4. CASE pc = "deactivate"
    BY <1>4, <2>4, <1>2 DEF EndLoop
  <2> QED
    BY <2>1, <2>2, <2>3, <2>4 DEF Loops
<1>5. ASSUME NEW n \in Namespaces, UpdateNamespace(n)
      PROVE  LoopsAtWork'
  <2>1. namespaces' = [namespaces EXCEPT ![n] = Written(n)] /\ todo' = todo \ {n}
        /\ UNCHANGED <<pc, instance>> /\ pc \in Loops
    BY <1>5 DEF UpdateNamespace
  <2>2. namespaces[n] \in [active : BOOLEAN, adapter : Adapters]
    BY DEF TypeOK
  <2>3. pc = "adapter" => Written(n).adapter = instance.spec.adapter
    BY <2>2 DEF Written
  <2> QED
    BY <2>1, <2>3 DEF TypeOK, Loops
<1>6. ASSUME NEW n \in Namespaces, EditNamespace(n)
      PROVE  LoopsAtWork'
  <2>1. \A m \in Namespaces : namespaces'[m].adapter = namespaces[m].adapter
    BY <1>6 DEF EditNamespace, TypeOK
  <2> QED
    BY <1>6, <2>1 DEF EditNamespace
<1>7. ASSUME NEW n \in Namespaces, UpdateFails(n) PROVE pc' = "idle"
  BY <1>7 DEF UpdateFails, Abort
<1> QED
  BY <1>1, <1>2, <1>3, <1>4, <1>5, <1>6, <1>7
     DEF Next, Reconcile, EditCluster, ClusterCacheAdvances, Restart, NamespaceCacheAdvances,
         WriteStatus, StatusFails, Abort, vars, objectVars, nsVars

\* The status that Reconcile writes is true of the namespaces.
LEMMA StatusIsTrue ==
    ASSUME IInv, LoopsAtWork, Following, pc = "status", ~overtaken, latest.exists
    PROVE  /\ instance = latest
           /\ newStatus.active = latest.spec.active /\ newStatus.adapter = latest.spec.adapter
           /\ \A n \in Relative : namespaces[n].active = latest.spec.active
           /\ \A n \in Namespaces : namespaces[n].adapter = latest.spec.adapter
<1>1. instance = latest /\ touched = {}
  BY DEF IInv, InstanceIsLatest, Following
<1>2. \A n \in Relative : namespaces[n].active = latest.spec.active
  <2>1. CASE latest.spec.active = latest.status.active
    BY <2>1 DEF Following
  <2>2. CASE latest.spec.active # latest.status.active
    BY <1>1, <2>2 DEF IInv, ReachedByLoop
  <2> QED
    BY <2>1, <2>2
<1>3. \A n \in Namespaces : namespaces[n].adapter = latest.spec.adapter
  <2>1. CASE latest.spec.adapter = latest.status.adapter
    BY <2>1 DEF Following
  <2>2. CASE latest.spec.adapter # latest.status.adapter
    BY <1>1, <2>2 DEF LoopsAtWork
  <2> QED
    BY <2>1, <2>2
<1> QED
  BY <1>1, <1>2, <1>3 DEF newStatus

\* Reconcile, the caches, restarts and changes that wait keep the namespaces
\* following.
LEMMA NextFollowing ==
    ASSUME FInv, [Next]_vars, ~hasty', namespaceEdits' = 0
    PROVE  Following'
<1>i. IInv /\ TypeOK /\ LoopsAtWork
  BY DEF FInv, IInv
<1>h. ~hasty /\ namespaceEdits = 0
  <2>1. namespaceEdits \in Nat /\ namespaceEdits' # namespaceEdits + 1
    BY <1>i DEF TypeOK
  <2>2. ASSUME NEW n \in Namespaces PROVE ~EditNamespace(n)
    BY <2>1 DEF EditNamespace
  <2>3. CASE EditCluster
    BY <1>i, <2>3 DEF EditCluster, nsVars, TypeOK
  <2>4. CASE BeginReconcile
    BY <2>4 DEF BeginReconcile
  <2>5. CASE EndLoop
    BY <2>5 DEF EndLoop, objectVars
  <2>6. CASE WriteStatus
    BY <2>6 DEF WriteStatus, nsVars
  <2>7. CASE \E n \in Namespaces : UpdateNamespace(n) \/ NamespaceCacheAdvances(n)
    BY <2>7 DEF UpdateNamespace, NamespaceCacheAdvances, objectVars
  <2>8. CASE StatusFails \/ \E n \in Namespaces : UpdateFails(n)
    BY <2>8 DEF StatusFails, UpdateFails, Abort, objectVars, nsVars
  <2>9. CASE ClusterCacheAdvances \/ Restart \/ UNCHANGED vars
    BY <2>9 DEF ClusterCacheAdvances, Restart, vars, objectVars, nsVars
  <2> QED
    BY <2>2, <2>3, <2>4, <2>5, <2>6, <2>7, <2>8, <2>9 DEF Next, Reconcile
<1>f. Following /\ (upToDate => seen = latest) /\ seen \in Version /\ latest \in Version
  BY <1>h, <1>i, SeenAndLatest DEF FInv
<1>0. ASSUME UNCHANGED versions PROVE latest' = latest /\ (upToDate' = upToDate)
  BY <1>0 DEF latest, upToDate
<1>1. CASE EditCluster
  <2>1. AtRest /\ UNCHANGED <<nsVars, request, pc>>
    BY <1>1 DEF EditCluster
  <2>2. upToDate /\ latest.exists
    BY <1>1, <2>1 DEF EditCluster, AtRest
  <2>3. PICK v \in Version :
          /\ versions' = Append(versions, v) /\ v.status = latest.status
    <3>1. \A w \in ClusterSpec : [latest EXCEPT !.spec = w] \in Version
                                 /\ [latest EXCEPT !.spec = w].status = latest.status
      BY <1>f DEF Version
    <3>2. [latest EXCEPT !.exists = FALSE] \in Version
          /\ [latest EXCEPT !.exists = FALSE].status = latest.status
      BY <1>f DEF Version
    <3> QED
      BY <1>1, <3>1, <3>2 DEF EditCluster, NewVersion
  <2>4. latest' = v /\ Len(versions') = 2
    <3>1. versions \in Seq(Version) /\ versions # <<>> /\ Len(versions) = 1
      BY <1>i, <2>2 DEF TypeOK, upToDate
    <3>2. Len(Append(versions, v)) = Len(versions) + 1
      BY <3>1, AppendProperties
    <3>3. Append(versions, v)[Len(Append(versions, v))] = v
      BY <3>1, AppendIsLast
    <3> QED
      BY <2>3, <3>1, <3>2, <3>3 DEF latest
  <2>5. /\ latest.status.active = latest.spec.active
        /\ latest.status.adapter = latest.spec.adapter
    BY <1>f, <2>1, <2>2 DEF Following
  <2>6. /\ \A n \in Relative : namespaces[n].active = latest.status.active
        /\ \A n \in Namespaces : namespaces[n].adapter = latest.status.adapter
    BY <1>f, <2>2, <2>5 DEF Following
  <2>7. ~upToDate' /\ pc' = "idle" /\ ~request' /\ touched' = {}
    BY <1>f, <2>1, <2>4 DEF upToDate, AtRest, Following, nsVars
  <2>8. UNCHANGED namespaces
    BY <2>1 DEF nsVars
  <2> QED
    BY <2>3, <2>4, <2>6, <2>7, <2>8 DEF Following, AtRest
<1>2. CASE ClusterCacheAdvances
  <2>1. Len(versions) = 2 /\ ~request /\ pc = "idle" /\ request' /\ UNCHANGED <<nsVars, pc>>
    BY <1>2, <1>f DEF ClusterCacheAdvances, Following
  <2>2. latest' = latest
    BY <1>2, <1>i, Advanced DEF ClusterCacheAdvances
  <2>3. upToDate'
    <3>1. versions \in Seq(Version) /\ versions # <<>> /\ versions' = Tail(versions)
      BY <1>2, <1>i DEF ClusterCacheAdvances, TypeOK
    <3> QED
      BY <2>1, <3>1, HeadTailProperties DEF upToDate
  <2> QED
    BY <1>f, <2>1, <2>2, <2>3 DEF Following, AtRest, nsVars
<1>3. CASE Restart
  <2>1. versions' = <<latest>> /\ request' = latest.exists /\ pc' = "idle" /\ touched' = {}
        /\ UNCHANGED namespaces
    BY <1>3 DEF Restart
  <2>2. latest' = latest /\ upToDate'
    BY <2>1 DEF latest, upToDate
  <2> QED
    BY <1>f, <2>1, <2>2 DEF Following, AtRest
<1>4. CASE BeginReconcile
  <2>1. upToDate /\ request /\ ~request' /\ touched' = {} /\ ~overtaken'
        /\ UNCHANGED <<versions, namespaces>> /\ pc' # "idle"
    BY <1>4, <1>f DEF BeginReconcile, Following, List, SyncAdapter, PushSettings
  <2> QED
    BY <1>0, <1>f, <2>1 DEF Following, AtRest
<1>5. CASE EndLoop
  <2>1. pc # "idle" /\ UNCHANGED <<versions, overtaken, request, namespaces, touched>>
    BY <1>5 DEF EndLoop, objectVars, Loops
  <2>2. pc' = "idle" => pc = "deactivate"
    BY <1>5 DEF EndLoop, SyncAdapter, List, PushSettings, Loops
  <2>3. pc = "deactivate" => ~latest.exists
    BY <1>i, <1>f DEF TypeOK, IInv, InstanceIsLatest, Following
  <2> QED
    BY <1>0, <1>f, <2>1, <2>2, <2>3 DEF Following, AtRest
<1>6. CASE WriteStatus
  <2>1. pc = "status" /\ ~overtaken /\ upToDate /\ ~request /\ touched = {}
        /\ pc' = "idle" /\ ~request' /\ touched' = {} /\ UNCHANGED namespaces
    BY <1>6, <1>f DEF WriteStatus, Following, nsVars
  <2>2. CASE newStatus # latest.status
    <3> DEFINE v == [latest EXCEPT !.status = newStatus]
    <3>1. v \in Version /\ v.spec = latest.spec /\ v.status = newStatus /\ v.exists = latest.exists
          /\ versions' = Append(versions, v)
      BY <1>6, <1>f, <1>i, <2>2, StatusTyped DEF WriteStatus, NewVersion, Version
    <3> HIDE DEF v
    <3>2. latest' = v /\ Len(versions') = 2
      <4>1. versions \in Seq(Version) /\ versions # <<>> /\ Len(versions) = 1
        BY <1>i, <2>1 DEF TypeOK, upToDate
      <4>2. Len(Append(versions, v)) = Len(versions) + 1
        BY <3>1, <4>1, AppendProperties
      <4>3. Append(versions, v)[Len(Append(versions, v))] = v
        BY <3>1, <4>1, AppendIsLast
      <4> QED
        BY <3>1, <4>1, <4>2, <4>3 DEF latest
    <3>3. ~upToDate'
      BY <3>2 DEF upToDate
    <3> QED
      BY <1>i, <1>f, <2>1, <3>1, <3>2, <3>3, StatusIsTrue DEF Following, AtRest
  <2>3. CASE newStatus = latest.status
    <3>1. UNCHANGED <<versions, overtaken>>
      BY <1>6, <2>3 DEF WriteStatus
    <3>2. latest' = latest /\ upToDate'
      BY <1>0, <2>1, <3>1
    <3> QED
      BY <1>i, <1>f, <2>1, <2>3, <3>1, <3>2, StatusIsTrue DEF Following, AtRest
  <2> QED
    BY <2>2, <2>3
<1>7. ASSUME Abort, pc # "idle" PROVE Following'
  <2>1. pc' = "idle" /\ request' /\ UNCHANGED <<versions, namespaces, touched>> /\ upToDate
    BY <1>7, <1>f DEF Abort, objectVars, nsVars, Following
  <2> QED
    BY <1>0, <1>f, <2>1 DEF Following, AtRest
<1>8. ASSUME NEW n \in Namespaces, UpdateNamespace(n)
      PROVE  Following'
  <2>1. namespaces' = [namespaces EXCEPT ![n] = Written(n)] /\ pc \in Loops
        /\ UNCHANGED <<versions, overtaken, request, pc, touched, instance>>
    BY <1>8 DEF UpdateNamespace, objectVars
  <2>2. pc # "idle" /\ instance = latest
    BY <1>i, <1>f, <2>1 DEF Loops, Following, IInv, InstanceIsLatest
  <2>3. namespaces[n] \in [active : BOOLEAN, adapter : Adapters]
    BY <1>i DEF TypeOK
  <2>4. latest.exists => pc \in {"active", "adapter"}
    BY <1>i, <2>1, <2>2 DEF TypeOK, Loops
  <2>5. pc = "active" => /\ latest.spec.active # latest.status.active
                         /\ Written(n).adapter = namespaces[n].adapter
    BY <1>i, <2>2, <2>3 DEF LoopsAtWork, Written
  <2>6. pc = "adapter" => /\ latest.spec.adapter # latest.status.adapter
                          /\ Written(n).active = namespaces[n].active
    BY <1>i, <2>2, <2>3 DEF LoopsAtWork, Written
  <2>7. /\ pc = "active" => \A m \in Namespaces : namespaces'[m].adapter = namespaces[m].adapter
        /\ pc = "adapter" => \A m \in Namespaces : namespaces'[m].active = namespaces[m].active
    BY <1>i, <2>1, <2>5, <2>6 DEF TypeOK
  <2>8. latest' = latest /\ (upToDate' = upToDate)
    BY <1>0, <2>1
  <2> QED
    BY <1>f, <2>1, <2>2, <2>4, <2>5, <2>6, <2>7, <2>8, RelativeAssumption DEF Following, AtRest
<1>9. ASSUME NEW n \in Namespaces, NamespaceCacheAdvances(n)
      PROVE  Following'
  BY <1>0, <1>9, <1>f DEF NamespaceCacheAdvances, Following, AtRest, objectVars
<1>10. CASE UNCHANGED vars
  BY <1>0, <1>10, <1>f DEF vars, objectVars, nsVars, Following, AtRest
<1>11. ~ \E n \in Namespaces : EditNamespace(n)
  BY <1>h DEF EditNamespace
<1>12. StatusFails \/ (\E n \in Namespaces : UpdateFails(n)) => Abort /\ pc # "idle"
  BY DEF StatusFails, UpdateFails, Loops
<1> QED
  BY <1>1, <1>2, <1>3, <1>4, <1>5, <1>6, <1>7, <1>8, <1>9, <1>10, <1>11, <1>12
     DEF Next, Reconcile

\* When each change of the object waits for the reconciler, then at rest the
\* namespaces that users leave alone are as it says, whichever updates failed and
\* wherever the process was restarted.
THEOREM Follow == Spec => []NamespacesFollow
<1>1. Init => LoopsAtWork /\ Following
  <2> SUFFICES ASSUME Init PROVE LoopsAtWork /\ Following
    OBVIOUS
  <2>1. PICK w \in ClusterSpec :
          LET v == [exists |-> FALSE, spec |-> w, status |-> EmptyStatus]
          IN versions = <<v, [v EXCEPT !.exists = TRUE]>> /\ instance = v
    BY DEF Init
  <2>2. Len(versions) = 2 /\ latest.spec = w /\ latest.status = EmptyStatus
    BY <2>1 DEF latest
  <2>3. ~upToDate /\ pc = "idle" /\ ~request /\ touched = {}
    BY <2>2 DEF Init, upToDate
  <2>4. \A n \in Namespaces : namespaces[n].active = FALSE
    <3>1. PICK x \in Adapters :
            namespaces = [n \in Namespaces |-> [active |-> FALSE, adapter |-> x]]
      BY DEF Init
    <3> QED
      BY <3>1
  <2>5. latest.status.adapter # latest.spec.adapter /\ latest.status.active = FALSE
    BY <2>2, NoneAssumption DEF EmptyStatus, ClusterSpec
  <2> QED
    BY <2>2, <2>3, <2>4, <2>5, RelativeAssumption DEF LoopsAtWork, Following, AtRest
<1>2. FInv /\ [Next]_vars => LoopsAtWork' /\ (~hasty' /\ namespaceEdits' = 0 => Following')
  BY NextAtWork, NextFollowing DEF FInv, IInv
<1>3. FInv => NamespacesFollow
  BY DEF FInv, Following, NamespacesFollow
<1> QED
  <2>1. FInv /\ [Next]_vars /\ IInv' => FInv'
    BY <1>2 DEF FInv
  <2>2. Init /\ IInv => FInv
    BY <1>1 DEF FInv
  <2> QED
    BY <1>3, <2>1, <2>2, Inductive, PTL DEF Spec
=============================================================================
