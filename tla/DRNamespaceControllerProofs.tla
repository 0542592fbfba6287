---------------------- MODULE DRNamespaceControllerProofs ----------------------
(***************************************************************************)
(* Theorems about DRNamespaceController for all values of its constants.   *)
(***************************************************************************)
EXTENDS DRNamespaceController, VersionSequences, FiniteSetTheorems, TLAPS

\* A version that the cache shows without a queued request has been reconciled:
\* a worker is tracked if it is active, and none if the object is gone.
SeenIsReconciled ==
    ~request =>
      /\ seen.exists /\ seen.spec.active => tracked # 0
      /\ ~seen.exists => tracked = 0

IInv == TypeOK /\ SeenIsReconciled

-----------------------------------------------------------------------------
(* Type correctness.                                                       *)

\* The first and the last version are versions.
LEMMA SeenAndLatest ==
    ASSUME TypeOK
    PROVE  seen \in Version /\ latest \in Version /\ (upToDate => seen = latest)
BY DEF TypeOK, seen, latest, upToDate

\* There is always a number for the next worker.
LEMMA UnusedWorker ==
    ASSUME NEW f, IsFiniteSet(DOMAIN f)
    PROVE  Unused(f) \in Nat \ {0} /\ Unused(f) \notin DOMAIN f
<1> DEFINE n == Cardinality(DOMAIN f)
<1>1. n \in Nat
  BY FS_CardinalityType
<1>2. \E w \in 1..(n + 1) : w \notin DOMAIN f
  <2> SUFFICES ASSUME 1..(n + 1) \subseteq DOMAIN f PROVE FALSE
    OBVIOUS
  <2>1. Cardinality(1..(n + 1)) = n + 1
    <3>1. 1 \in Int /\ n + 1 \in Int /\ ~(1 > n + 1) /\ (n + 1) - 1 + 1 = n + 1
      BY <1>1
    <3> HIDE DEF n
    <3> QED
      BY <3>1, FS_Interval
  <2>2. Cardinality(1..(n + 1)) <= n
    BY FS_Subset
  <2> QED
    BY <1>1, <2>1, <2>2
<1>3. Unused(f) \in 1..(n + 1) /\ Unused(f) \notin DOMAIN f
  BY <1>2, Zenon DEF Unused
<1> QED
  BY <1>1, <1>3

\* The object exists at the API server, and there is no worker.
LEMMA InitTyped == Init => TypeOK
<1> SUFFICES ASSUME Init PROVE TypeOK
  OBVIOUS
<1>1. versions \in Seq(Version) /\ versions # <<>>
  <2>1. PICK s \in Spec_ :
          versions = <<[exists |-> FALSE, spec |-> s, status |-> EmptyStatus],
                       [exists |-> TRUE,  spec |-> s, status |-> EmptyStatus]>>
    BY DEF Init
  <2>2. EmptyStatus \in Status
    BY DEF EmptyStatus, Status
  <2> DEFINE u == [exists |-> FALSE, spec |-> s, status |-> EmptyStatus]
             v == [exists |-> TRUE,  spec |-> s, status |-> EmptyStatus]
  <2>3. u \in Version /\ v \in Version /\ versions = <<u, v>>
    BY <2>1, <2>2 DEF Version
  <2> HIDE DEF u, v
  <2> QED
    BY <2>3
<1>2. DOMAIN running = {} /\ IsFiniteSet(DOMAIN running)
  <2>1. DOMAIN running = {}
    BY DEF Init
  <2> QED
    BY <2>1, FS_EmptySet
<1>3. /\ queue \in Seq(Status) /\ edits \in 0..MaxEdits /\ restarts \in 0..MaxRestarts
      /\ mapping \in ClusterNames \cup {NoName} /\ filterConfig \in FilterConfigs \cup {NoFilter}
  BY BoundAssumption DEF Init
<1> QED
  BY <1>1, <1>2, <1>3 DEF Init, TypeOK

\* The status that Reconcile queues is a status.
LEMMA StatusTyped == TypeOK => newStatus \in Status
<1> SUFFICES ASSUME TypeOK PROVE newStatus \in Status
  OBVIOUS
<1>1. seen.spec \in Spec_ /\ seen.status \in Status
  BY SeenAndLatest DEF Version
<1> QED
  BY <1>1 DEF newStatus, Spec_, Status

\* Starting and stopping workers keeps the numbers and adapters of workers.
LEMMA WorkersTyped ==
    ASSUME NEW f, IsFiniteSet(DOMAIN f),
           \A w \in DOMAIN f : w \in Nat \ {0} /\ f[w] \in Adapters,
           NEW w \in Nat, NEW a \in Adapters
    PROVE  /\ LET g == Without(f, w)
              IN /\ IsFiniteSet(DOMAIN g)
                 /\ \A x \in DOMAIN g : x \in Nat \ {0} /\ g[x] \in Adapters
           /\ w # 0 => LET g == With(f, w, a)
                       IN /\ IsFiniteSet(DOMAIN g) /\ w \in DOMAIN g
                          /\ \A x \in DOMAIN g : x \in Nat \ {0} /\ g[x] \in Adapters
<1>1. DOMAIN Without(f, w) = DOMAIN f \ {w} /\ DOMAIN With(f, w, a) = DOMAIN f \cup {w}
  BY DEF Without, With
<1>2. IsFiniteSet(DOMAIN f \ {w}) /\ IsFiniteSet(DOMAIN f \cup {w})
  BY FS_RemoveElement, FS_AddElement
<1> QED
  BY <1>1, <1>2 DEF Without, With

\* The workers after a Reconcile of an object that is there.
LEMMA PresentStep ==
    ASSUME TypeOK, ReconcilePresent
    PROVE  /\ IsFiniteSet(DOMAIN running') /\ tracked' \in DOMAIN running' \cup {0}
           /\ \A w \in DOMAIN running' : w \in Nat \ {0} /\ running'[w] \in Adapters
           /\ seen.spec.active => tracked' # 0
<1> DEFINE stops  == syncsActive /\ (restartRequire \/ ~seen.spec.active)
           starts == syncsActive /\ seen.spec.active
           left   == IF stops THEN Without(running, tracked) ELSE running
           w      == Unused(left)
<1>1. /\ running' = IF starts THEN With(left, w, seen.spec.adapter) ELSE left
      /\ tracked' = IF starts THEN w ELSE IF stops THEN 0 ELSE tracked
  BY DEF ReconcilePresent
<1>2. tracked \in Nat /\ seen.spec.adapter \in Adapters
  BY SeenAndLatest DEF TypeOK, Version, Spec_
<1>3. IsFiniteSet(DOMAIN left) /\ \A x \in DOMAIN left : x \in Nat \ {0} /\ left[x] \in Adapters
  BY <1>2, WorkersTyped DEF TypeOK
<1>4. w \in Nat \ {0} /\ w \notin DOMAIN left
  BY <1>3, UnusedWorker
<1>5. ~stops => left = running
  OBVIOUS
<1>6. seen.spec.active => starts \/ tracked # 0
  BY DEF syncsActive
<1> HIDE DEF left, w
<1>7. CASE starts
  <2> DEFINE g == With(left, w, seen.spec.adapter)
  <2>1. /\ IsFiniteSet(DOMAIN g) /\ w \in DOMAIN g
        /\ \A x \in DOMAIN g : x \in Nat \ {0} /\ g[x] \in Adapters
    BY <1>2, <1>3, <1>4, WorkersTyped
  <2>2. running' = g /\ tracked' = w
    BY <1>1, <1>7
  <2> HIDE DEF g
  <2> QED
    BY <1>4, <2>1, <2>2
<1>8. CASE ~starts
  <2>1. running' = left /\ tracked' = IF stops THEN 0 ELSE tracked
    BY <1>1, <1>8
  <2>2. seen.spec.active => ~stops
    BY <1>8
  <2> HIDE DEF starts, stops
  <2> QED
    BY <1>3, <1>5, <1>6, <1>8, <2>1, <2>2 DEF TypeOK
<1> QED
  BY <1>7, <1>8

\* A step keeps every variable in its type.
LEMMA NextTyped == TypeOK /\ [Next]_vars => TypeOK'
<1> SUFFICES ASSUME TypeOK, [Next]_vars PROVE TypeOK'
  OBVIOUS
<1> USE BoundAssumption
<1>0. /\ seen \in Version /\ latest \in Version
      /\ \A v \in Version : Append(versions, v) \in Seq(Version) /\ Append(versions, v) # <<>>
      /\ ~upToDate => Tail(versions) \in Seq(Version) /\ Tail(versions) # <<>>
  BY SeenAndLatest, AppendIsLast, TailKeepsLast DEF TypeOK, upToDate
<1>1. CASE Edit
  <2>1. PICK v \in Version : versions' = Append(versions, v)
    <3>1. \A s \in Spec_ : [latest EXCEPT !.spec = s] \in Version
      BY <1>0 DEF Version
    <3>2. [latest EXCEPT !.exists = FALSE] \in Version
      BY <1>0 DEF Version
    <3>3. EmptyStatus \in Status
      BY DEF EmptyStatus, Status
    <3>4. \A s \in Spec_ : [exists |-> TRUE, spec |-> s, status |-> EmptyStatus] \in Version
      BY <3>3 DEF Version
    <3> QED
      BY <1>1, <3>1, <3>2, <3>4 DEF Edit
  <2>2. edits' \in 0..MaxEdits /\ hasty' \in BOOLEAN
    BY <1>1 DEF Edit, TypeOK
  <2> QED
    BY <1>0, <1>1, <2>1, <2>2 DEF Edit, TypeOK, container
<1>2. CASE CacheAdvances
  BY <1>0, <1>2 DEF CacheAdvances, TypeOK, container, counters
<1>3. CASE Restart
  <2>1. versions' \in Seq(Version) /\ versions' # <<>> /\ request' \in BOOLEAN
    BY <1>0, <1>3 DEF Restart, Version
  <2>2. DOMAIN running' = {} /\ IsFiniteSet(DOMAIN running')
    <3>1. DOMAIN running' = {}
      BY <1>3 DEF Restart
    <3> QED
      BY <3>1, FS_EmptySet
  <2>3. restarts' \in 0..MaxRestarts
    BY <1>3 DEF Restart, TypeOK
  <2>4. queue' \in Seq(Status) /\ tracked' = 0 /\ previous' \in BOOLEAN
        /\ edits' \in 0..MaxEdits /\ reported' \subseteq 1..MaxReports
        /\ mapping' \in ClusterNames \cup {NoName} /\ filterConfig' \in FilterConfigs \cup {NoFilter}
        /\ hasty' \in BOOLEAN
    BY <1>3, EmptySeq DEF Restart, TypeOK
  <2> QED
    BY <2>1, <2>2, <2>3, <2>4 DEF TypeOK
<1>4. CASE ReconcileMissing
  <2>1. tracked \in Nat
    BY DEF TypeOK
  <2>2. IsFiniteSet(DOMAIN Without(running, tracked))
    BY FS_RemoveElement DEF Without, TypeOK
  <2>3. \A w \in DOMAIN Without(running, tracked) :
          w \in Nat \ {0} /\ Without(running, tracked)[w] \in Adapters
    BY DEF Without, TypeOK
  <2> QED
    BY <1>4, <2>2, <2>3 DEF ReconcileMissing, TypeOK, container, counters
<1>5. CASE ReconcilePresent
  <2>1. queue' \in Seq(Status)
    BY <1>5, StatusTyped DEF ReconcilePresent, TypeOK
  <2>2. mapping' \in ClusterNames \cup {NoName} /\ filterConfig' \in FilterConfigs \cup {NoFilter}
    BY <1>0, <1>5 DEF ReconcilePresent, UpdateFilterConfigToContainer, TypeOK, Version, Spec_
  <2> QED
    BY <1>5, <2>1, <2>2, PresentStep DEF ReconcilePresent, TypeOK, counters
<1>6. ASSUME NEW k \in 1..MaxReports, UpdateCondition(k)
      PROVE  TypeOK'
  <2>1. [seen.status EXCEPT !.conditions = @ \cup {k}] \in Status
    BY <1>0 DEF Version, Status
  <2>2. queue' \in Seq(Status)
    BY <1>6, <2>1 DEF UpdateCondition, TypeOK
  <2> QED
    BY <1>6, <2>2 DEF UpdateCondition, TypeOK, container
<1>7. CASE runUpdate
  <2>1. queue \in Seq(Status) /\ Head(queue) \in Status /\ Tail(queue) \in Seq(Status)
    BY <1>7, HeadTailProperties DEF runUpdate, TypeOK
  <2>2. [latest EXCEPT !.status = Head(queue)] \in Version
    BY <1>0, <2>1 DEF Version
  <2> QED
    BY <1>0, <1>7, <2>1, <2>2 DEF runUpdate, TypeOK, container, counters
<1>8. CASE ReconcileFails
  <2>1. filterConfig' \in FilterConfigs \cup {NoFilter}
    BY <1>0, <1>8 DEF ReconcileFails, UpdateFilterConfigToContainer, TypeOK, Version, Spec_
  <2> QED
    BY <1>8, <2>1 DEF ReconcileFails, TypeOK, counters
<1>9. CASE UNCHANGED vars
  BY <1>9 DEF vars, TypeOK, container, counters
<1> QED
  BY <1>1, <1>2, <1>3, <1>4, <1>5, <1>6, <1>7, <1>8, <1>9 DEF Next, Reconcile

\* The type invariant holds at every state: the tracked worker is running.
THEOREM Typed == Spec => []TypeOK
BY InitTyped, NextTyped, PTL DEF Spec

-----------------------------------------------------------------------------
(* Workers at rest.                                                        *)

\* Only Reconcile makes the cache agree with the workers, and every change of
\* what the cache shows asks for another Reconcile.
LEMMA NextReconciled == TypeOK /\ SeenIsReconciled /\ [Next]_vars => SeenIsReconciled'
<1> SUFFICES ASSUME TypeOK, SeenIsReconciled, [Next]_vars PROVE SeenIsReconciled'
  OBVIOUS
<1> USE DEF SeenIsReconciled
<1>0. ASSUME UNCHANGED versions \/ \E v : versions' = Append(versions, v)
      PROVE  seen' = seen
  BY <1>0 DEF TypeOK, seen
<1>1. CASE Edit
  BY <1>0, <1>1 DEF Edit
<1>2. CASE CacheAdvances
  BY <1>2 DEF CacheAdvances
<1>3. CASE Restart
  BY <1>3 DEF Restart, seen
<1>4. CASE ReconcileMissing
  BY <1>0, <1>4 DEF ReconcileMissing
<1>5. CASE ReconcilePresent
  BY <1>0, <1>5, PresentStep DEF ReconcilePresent
<1>6. ASSUME NEW k \in 1..MaxReports, UpdateCondition(k)
      PROVE  SeenIsReconciled'
  BY <1>0, <1>6 DEF UpdateCondition
<1>7. CASE runUpdate
  BY <1>0, <1>7 DEF runUpdate
<1>8. CASE ReconcileFails
  BY <1>0, <1>8 DEF ReconcileFails
<1>9. CASE UNCHANGED vars
  BY <1>0, <1>9 DEF vars
<1> QED
  BY <1>1, <1>2, <1>3, <1>4, <1>5, <1>6, <1>7, <1>8, <1>9 DEF Next, Reconcile

\* The inductive invariant holds at every state.
LEMMA Inductive == Spec => []IInv
<1>1. Init => SeenIsReconciled
  BY DEF Init, SeenIsReconciled, seen
<1> QED
  BY <1>1, InitTyped, NextTyped, NextReconciled, PTL DEF Spec, IInv

\* At rest an active namespace has a worker, also after a restart of the process
\* that finds Active in the status already.
THEOREM ActiveWorks == Spec => []ActiveHasWorker
<1>1. IInv => ActiveHasWorker
  BY SeenAndLatest DEF IInv, SeenIsReconciled, ActiveHasWorker, AtRest
<1> QED
  BY <1>1, Inductive, PTL

\* At rest a deleted namespace has no worker that the reconciler still knows.
THEOREM DeletedStops == Spec => []DeletedHasNoWorker
<1>1. IInv => DeletedHasNoWorker
  BY SeenAndLatest DEF IInv, SeenIsReconciled, DeletedHasNoWorker, AtRest
<1> QED
  BY <1>1, Inductive, PTL

-----------------------------------------------------------------------------
(* In step: everybody waits for the reconciler.                            *)

\* A status from which Reconcile draws the right conclusions: it calls the
\* namespace active if a worker is tracked, and names the mapped cluster (a new
\* object names none).
Agrees(st) ==
    /\ tracked # 0 => st.active
    /\ previous => st.cluster \in {mapping, NoName}

\* What the reconciler has done with version v.
Done(v) ==
    /\ v.exists => /\ previous
                   /\ v.spec.cluster # NoName => mapping = v.spec.cluster
                   /\ v.spec.active => tracked # 0
    /\ (v.exists /\ v.spec.active) \/ tracked = 0

\* Reconcile can do nothing about a request but fail.
FailsOnly == request => seen.exists /\ unmappable

\* At most one change is under way: a version that the cache does not show, a
\* request, or a status to write; the latest status, or the one that is about to
\* be written, agrees with the workers and the container.
OneChange ==
    /\ DOMAIN running \subseteq {tracked}
    /\ ~upToDate => Len(versions) = 2 /\ queue = <<>> /\ FailsOnly
    /\ queue # <<>> => Len(queue) = 1 /\ upToDate /\ seen.exists /\ FailsOnly /\ Agrees(Head(queue))
    /\ queue = <<>> /\ latest.exists => Agrees(latest.status)
    /\ upToDate /\ ~request => Done(seen)
    /\ edits = 0 /\ previous => filterConfig = latest.spec.filter

StepInv == ~hasty => OneChange

\* Nothing changes for the first version when one is appended.
LEMMA AppendedVersion ==
    ASSUME TypeOK, upToDate, NEW v \in Version, versions' = Append(versions, v)
    PROVE  seen' = seen /\ latest' = v /\ ~upToDate' /\ Len(versions') = 2 /\ seen = latest
<1>1. Len(Append(versions, v)) = 2
  <2>1. versions \in Seq(Version) /\ Len(versions) = 1
    BY DEF TypeOK, upToDate
  <2>2. Len(Append(versions, v)) = Len(versions) + 1
    BY <2>1, AppendProperties
  <2> QED
    BY <2>1, <2>2
<1>2. /\ Head(Append(versions, v)) = Head(versions)
      /\ Append(versions, v)[Len(Append(versions, v))] = v
  BY AppendIsLast DEF TypeOK
<1>3. seen = latest
  BY SeenAndLatest
<1> QED
  BY <1>1, <1>2, <1>3 DEF seen, latest, upToDate

\* Reconcile of an object that is there, with the request as the only change.
LEMMA PresentInStep ==
    ASSUME TypeOK, OneChange, ReconcilePresent
    PROVE  OneChange'
<1>1. request /\ seen.exists /\ ~unmappable
  BY DEF ReconcilePresent
<1>2. upToDate /\ queue = <<>> /\ seen = latest /\ seen \in Version
  BY <1>1, SeenAndLatest DEF OneChange, FailsOnly
<1>3. Agrees(seen.status) /\ DOMAIN running \subseteq {tracked}
  BY <1>1, <1>2 DEF OneChange
<1>4. seen' = seen /\ latest' = latest /\ upToDate' /\ ~request' /\ previous'
  BY <1>2 DEF ReconcilePresent, seen, latest, upToDate
<1>5. /\ mapping' = IF clusterChanged THEN seen.spec.cluster ELSE mapping
      /\ queue' = <<newStatus>>
  BY <1>2 DEF ReconcilePresent
<1> DEFINE stops  == syncsActive /\ (restartRequire \/ ~seen.spec.active)
           starts == syncsActive /\ seen.spec.active
           left   == IF stops THEN Without(running, tracked) ELSE running
           w      == Unused(left)
<1>6. /\ running' = IF starts THEN With(left, w, seen.spec.adapter) ELSE left
      /\ tracked' = IF starts THEN w ELSE IF stops THEN 0 ELSE tracked
  BY DEF ReconcilePresent
<1>7. seen.spec.active => tracked' # 0
  BY PresentStep
<1>8. seen.spec.active \/ tracked' = 0
  <2> SUFFICES ASSUME ~seen.spec.active PROVE tracked' = 0
    OBVIOUS
  <2>1. ~starts /\ (tracked # 0 => stops)
    BY <1>2, <1>3 DEF syncsActive, Agrees, Version, Status, Spec_
  <2> HIDE DEF starts, stops
  <2> QED
    BY <1>6, <2>1
<1>9. DOMAIN running' \subseteq {tracked'}
  <2>1. stops => DOMAIN left = {}
    BY <1>3 DEF Without
  <2>2. starts /\ ~stops => tracked = 0
    BY <1>2, <1>3 DEF syncsActive, Agrees, Version, Status, Spec_
  <2>3. tracked = 0 => DOMAIN running = {}
    BY <1>3 DEF TypeOK
  <2>4. starts => DOMAIN left = {}
    BY <2>1, <2>2, <2>3
  <2>5. ~stops => left = running
    OBVIOUS
  <2>6. DOMAIN With(left, w, seen.spec.adapter) = DOMAIN left \cup {w}
    BY DEF With
  <2> HIDE DEF starts, stops, left, w
  <2>7. CASE starts
    BY <1>6, <2>4, <2>6, <2>7
  <2>8. CASE ~starts
    BY <1>3, <1>6, <2>1, <2>5, <2>8
  <2> QED
    BY <2>7, <2>8
<1>10. seen.spec.cluster # NoName => mapping' = seen.spec.cluster
  BY <1>3, <1>5 DEF clusterChanged, Agrees
<1>11. newStatus.active = seen.spec.active /\ newStatus.cluster = seen.spec.cluster
  BY DEF newStatus
<1>12. Agrees(newStatus)'
  <2>1. newStatus' = newStatus
    BY <1>4 DEF newStatus
  <2> QED
    BY <1>8, <1>10, <1>11, <2>1 DEF Agrees
<1>13. edits' = 0 => filterConfig' = latest'.spec.filter
  BY <1>2, <1>4 DEF ReconcilePresent, UpdateFilterConfigToContainer, OneChange, counters
<1>14. Done(seen)'
  BY <1>1, <1>4, <1>7, <1>8, <1>10 DEF Done
<1>15. Len(queue') = 1 /\ queue' # <<>> /\ Head(queue') = newStatus
  BY <1>5
<1>16. Agrees(Head(queue))'
  BY <1>4, <1>12, <1>15 DEF newStatus
<1> QED
  BY <1>1, <1>4, <1>9, <1>13, <1>14, <1>15, <1>16 DEF OneChange, FailsOnly

\* Users and workers that wait: a new version, or a condition to write.
LEMMA EditInStep ==
    ASSUME TypeOK, OneChange, Edit, AtRest \/ Blocked
    PROVE  OneChange'
<1>1. /\ upToDate /\ queue = <<>> /\ queue' = <<>> /\ seen = latest /\ latest \in Version
      /\ FailsOnly
  BY SeenAndLatest DEF AtRest, Blocked, FailsOnly, Edit
<1>2. UNCHANGED <<request, previous, tracked, running, mapping, filterConfig>>
  BY DEF Edit, container
<1>3. PICK v \in Version :
        /\ versions' = Append(versions, v)
        /\ v.exists => \/ latest.exists /\ v.status = latest.status
                       \/ ~latest.exists /\ v.status = EmptyStatus
  <2>1. \A s \in Spec_ :
          LET v == [latest EXCEPT !.spec = s]
          IN  v \in Version /\ v.status = latest.status
    BY <1>1 DEF Version
  <2>2. LET v == [latest EXCEPT !.exists = FALSE] IN v \in Version /\ ~v.exists
    BY <1>1 DEF Version
  <2>3. EmptyStatus \in Status
    BY DEF EmptyStatus, Status
  <2>4. \A s \in Spec_ :
          LET v == [exists |-> TRUE, spec |-> s, status |-> EmptyStatus]
          IN  v \in Version /\ v.status = EmptyStatus
    BY <2>3 DEF Version
  <2>5. CASE latest.exists /\ \E s \in Spec_ :
               versions' = Append(versions, [latest EXCEPT !.spec = s])
    BY <2>1, <2>5
  <2>6. CASE versions' = Append(versions, [latest EXCEPT !.exists = FALSE])
    BY <2>2, <2>6
  <2>7. CASE ~latest.exists /\ \E s \in Spec_ : versions' =
               Append(versions, [exists |-> TRUE, spec |-> s, status |-> EmptyStatus])
    BY <2>4, <2>7
  <2> QED
    BY <2>5, <2>6, <2>7 DEF Edit
<1>4. seen' = seen /\ latest' = v /\ ~upToDate' /\ Len(versions') = 2
  BY <1>1, <1>3, AppendedVersion
<1>5. latest'.exists => Agrees(latest.status)'
  <2>1. CASE latest.exists /\ v.status = latest.status
    <3>1. Agrees(latest.status)
      BY <1>1, <2>1 DEF OneChange
    <3> QED
      BY <1>2, <1>4, <2>1, <3>1 DEF Agrees
  <2>2. CASE ~latest.exists /\ v.status = EmptyStatus
    <3>1. tracked = 0
      BY <1>1, <2>2 DEF OneChange, AtRest, Blocked, Done
    <3> QED
      BY <1>2, <1>4, <2>2, <3>1 DEF Agrees, EmptyStatus
  <2> QED
    BY <1>3, <1>4, <2>1, <2>2
<1>6. FailsOnly'
  BY <1>1, <1>2, <1>4 DEF FailsOnly, unmappable, clusterChanged
<1>7. edits' # 0
  BY DEF Edit, TypeOK
<1>8. (DOMAIN running \subseteq {tracked})'
  BY <1>2 DEF OneChange
<1> QED
  BY <1>1, <1>4, <1>5, <1>6, <1>7, <1>8 DEF OneChange

LEMMA ConditionInStep ==
    ASSUME TypeOK, OneChange, NEW k, UpdateCondition(k), AtRest \/ Blocked
    PROVE  OneChange'
<1>1. upToDate /\ queue = <<>> /\ seen = latest /\ seen \in Version /\ FailsOnly
  BY SeenAndLatest DEF AtRest, Blocked, FailsOnly
<1>2. /\ UNCHANGED <<versions, request, previous, tracked, running, mapping, filterConfig, edits>>
      /\ seen' = seen /\ latest' = latest /\ upToDate'
  BY <1>1 DEF UpdateCondition, container, seen, latest, upToDate
<1>3. FailsOnly'
  BY <1>1, <1>2 DEF FailsOnly, unmappable, clusterChanged
<1>4. CASE seen.exists
  <2> DEFINE st == [seen.status EXCEPT !.conditions = @ \cup {k}]
  <2>0. queue' = Append(queue, st)
    BY <1>4 DEF UpdateCondition
  <2>2. st.active = seen.status.active /\ st.cluster = seen.status.cluster
    BY <1>1 DEF Version, Status
  <2>3. Agrees(seen.status)
    BY <1>1, <1>4 DEF OneChange
  <2> HIDE DEF st
  <2>1. queue' = <<st>>
    BY <1>1, <2>0
  <2>4. Len(queue') = 1 /\ queue' # <<>> /\ Head(queue') = st
    BY <2>1
  <2>5. Agrees(Head(queue))'
    BY <1>2, <2>2, <2>3, <2>4 DEF Agrees
  <2>6. Done(seen) => Done(seen)'
    BY <1>2 DEF Done
  <2> QED
    BY <1>1, <1>2, <1>3, <1>4, <2>4, <2>5, <2>6 DEF OneChange
<1>5. CASE ~seen.exists
  <2>1. queue' = queue
    BY <1>5 DEF UpdateCondition
  <2> QED
    BY <1>1, <1>2, <1>3, <1>5, <2>1 DEF OneChange, Done
<1> QED
  BY <1>4, <1>5

\* The updater writes the one status that is queued.
LEMMA UpdateInStep ==
    ASSUME TypeOK, OneChange, runUpdate
    PROVE  OneChange'
<1>1. /\ queue # <<>> /\ Len(queue) = 1 /\ upToDate /\ seen.exists /\ FailsOnly
      /\ Agrees(Head(queue)) /\ seen = latest /\ latest \in Version
  BY SeenAndLatest DEF runUpdate, OneChange
<1>2. UNCHANGED <<request, previous, tracked, running, mapping, filterConfig, edits>>
  BY DEF runUpdate, container, counters
<1>3. queue' = <<>> /\ Head(queue) \in Status
  BY <1>1, HeadTailProperties, EmptySeq DEF runUpdate, TypeOK
<1>4. Agrees(Head(queue))' = Agrees(Head(queue))' /\ \A st : Agrees(st)' = Agrees(st)
  BY <1>2 DEF Agrees
<1>5. CASE latest.status # Head(queue)
  <2> DEFINE v == [latest EXCEPT !.status = Head(queue)]
  <2>1. v \in Version /\ v.status = Head(queue) /\ v.spec = latest.spec /\ versions' = Append(versions, v)
    BY <1>1, <1>3, <1>5 DEF runUpdate, Version
  <2> HIDE DEF v
  <2>2. seen' = seen /\ latest' = v /\ ~upToDate' /\ Len(versions') = 2
    BY <1>1, <2>1, AppendedVersion
  <2>3. FailsOnly'
    BY <1>1, <1>2, <2>2 DEF FailsOnly, unmappable, clusterChanged
  <2>4. Agrees(latest.status)'
    BY <1>1, <1>2, <2>1, <2>2 DEF Agrees
  <2> QED
    BY <1>2, <1>3, <2>1, <2>2, <2>3, <2>4 DEF OneChange
<1>6. CASE latest.status = Head(queue)
  <2>1. versions' = versions /\ seen' = seen /\ latest' = latest /\ upToDate'
    BY <1>1, <1>6 DEF runUpdate, seen, latest, upToDate
  <2>2. Agrees(latest.status)'
    BY <1>1, <1>2, <1>6, <2>1 DEF Agrees
  <2>3. Done(seen) => Done(seen)'
    BY <1>2, <2>1 DEF Done
  <2> QED
    BY <1>1, <1>2, <1>3, <2>1, <2>2, <2>3 DEF OneChange
<1> QED
  BY <1>5, <1>6

\* A step of a system in step leaves it so, or somebody was hasty.
LEMMA NextInStep == TypeOK /\ StepInv /\ [Next]_vars => StepInv'
<1> SUFFICES ASSUME TypeOK, StepInv, [Next]_vars, ~hasty' PROVE OneChange'
  BY DEF StepInv
<1>0. OneChange /\ TypeOK' /\ seen \in Version /\ latest \in Version /\ (upToDate => seen = latest)
  <2>1. ~hasty
    BY DEF Next, Reconcile, Edit, CacheAdvances, Restart, ReconcileMissing, ReconcileFails,
           ReconcilePresent, UpdateCondition, runUpdate, vars
  <2> QED
    BY <2>1, NextTyped, SeenAndLatest DEF StepInv
<1>1. CASE Edit
  BY <1>0, <1>1, EditInStep DEF Edit
<1>2. CASE CacheAdvances
  <2>1. Len(versions) = 2 /\ queue = <<>> /\ queue' = <<>> /\ request'
    BY <1>0, <1>2 DEF CacheAdvances, OneChange
  <2>2. latest' = latest /\ upToDate'
    <3>1. versions \in Seq(Version) /\ versions # <<>> /\ Len(versions) # 1 /\ versions' = Tail(versions)
      BY <1>2, <2>1 DEF CacheAdvances, TypeOK
    <3>2. Len(Tail(versions)) = 1
      BY <2>1, <3>1, HeadTailProperties
    <3>3. Tail(versions)[Len(Tail(versions))] = versions[Len(versions)]
      BY <3>1, TailKeepsLast
    <3> QED
      BY <3>1, <3>2, <3>3 DEF latest, upToDate
  <2> QED
    BY <1>0, <1>2, <2>1, <2>2 DEF CacheAdvances, OneChange, Agrees, container, counters
<1>3. CASE Restart
  <2>1. /\ versions' = <<latest>> /\ request' = latest.exists /\ queue' = <<>>
        /\ ~previous' /\ tracked' = 0 /\ running' = <<>>
    BY <1>3 DEF Restart
  <2>2. seen' = latest /\ latest' = latest /\ upToDate' /\ DOMAIN running' = {}
    BY <2>1 DEF seen, latest, upToDate
  <2> QED
    BY <2>1, <2>2 DEF OneChange, Agrees, Done
<1>4. CASE ReconcileMissing
  <2>1. upToDate /\ queue = <<>> /\ ~latest.exists /\ seen = latest
    BY <1>0, <1>4 DEF OneChange, FailsOnly, ReconcileMissing
  <2>2. UNCHANGED <<versions, previous, queue, mapping, filterConfig, edits>> /\ tracked' = 0
    BY <1>4 DEF ReconcileMissing, container, counters
  <2>3. seen' = seen /\ latest' = latest /\ upToDate'
    BY <2>1, <2>2 DEF seen, latest, upToDate
  <2>4. DOMAIN running' = {}
    BY <1>0, <1>4 DEF OneChange, ReconcileMissing, Without
  <2> QED
    BY <1>0, <2>1, <2>2, <2>3, <2>4 DEF OneChange, Done
<1>5. CASE ReconcilePresent
  BY <1>0, <1>5, PresentInStep
<1>6. ASSUME NEW k \in 1..MaxReports, UpdateCondition(k)
      PROVE  OneChange'
  BY <1>0, <1>6, ConditionInStep DEF UpdateCondition
<1>7. CASE runUpdate
  BY <1>0, <1>7, UpdateInStep
<1>8. CASE ReconcileFails
  <2>1. /\ UNCHANGED <<versions, request, previous, tracked, running, queue, mapping, edits>>
        /\ request /\ (previous => filterConfig' = filterConfig)
    BY <1>8 DEF ReconcileFails, UpdateFilterConfigToContainer, counters
  <2>2. seen' = seen /\ latest' = latest /\ (upToDate' = upToDate)
    BY <2>1 DEF seen, latest, upToDate
  <2>3. FailsOnly' = FailsOnly /\ \A st : Agrees(st)' = Agrees(st)
    BY <2>1, <2>2 DEF FailsOnly, unmappable, clusterChanged, Agrees
  <2>4. Agrees(Head(queue))' = Agrees(Head(queue)) /\ Agrees(latest.status)' = Agrees(latest.status)
    BY <2>1, <2>2 DEF Agrees
  <2> QED
    BY <1>0, <2>1, <2>2, <2>3, <2>4 DEF OneChange
<1>9. CASE UNCHANGED vars
  <2>1. seen' = seen /\ latest' = latest /\ (upToDate' = upToDate)
    BY <1>9 DEF vars, seen, latest, upToDate
  <2>2. Agrees(Head(queue))' = Agrees(Head(queue)) /\ Agrees(latest.status)' = Agrees(latest.status)
    BY <1>9, <2>1 DEF vars, container, Agrees
  <2> QED
    BY <1>0, <1>9, <2>1, <2>2
       DEF vars, container, counters, OneChange, FailsOnly, unmappable, clusterChanged, Done
<1> QED
  BY <1>1, <1>2, <1>3, <1>4, <1>5, <1>6, <1>7, <1>8, <1>9 DEF Next, Reconcile

\* When everybody waits for the reconciler, then at rest the namespace is mapped
\* to the cluster it names and no worker runs but the tracked one of an active
\* namespace.
THEOREM StaysInStep == Spec => []InStep
<1>1. Init => StepInv
  <2> SUFFICES ASSUME Init PROVE OneChange
    BY DEF StepInv
  <2>1. PICK u, v \in Version : versions = <<u, v>>
    <3>1. EmptyStatus \in Status
      BY DEF EmptyStatus, Status
    <3>2. PICK s \in Spec_ :
            versions = <<[exists |-> FALSE, spec |-> s, status |-> EmptyStatus],
                         [exists |-> TRUE,  spec |-> s, status |-> EmptyStatus]>>
      BY DEF Init
    <3> QED
      BY <3>1, <3>2 DEF Version
  <2>2. Len(versions) = 2 /\ ~upToDate
    BY <2>1 DEF upToDate
  <2>3. DOMAIN running = {} /\ queue = <<>> /\ ~request /\ ~previous /\ tracked = 0
    BY DEF Init
  <2> QED
    BY <2>2, <2>3 DEF OneChange, FailsOnly, Agrees
<1>2. TypeOK /\ StepInv => InStep
  <2> SUFFICES ASSUME TypeOK, StepInv, AtRest, ~hasty
               PROVE  /\ latest.exists /\ latest.spec.cluster # NoName => mapping = latest.spec.cluster
                      /\ latest.exists /\ edits = 0 => filterConfig = latest.spec.filter
                      /\ DOMAIN running = IF latest.exists /\ latest.spec.active THEN {tracked} ELSE {}
    BY DEF InStep
  <2>1. OneChange /\ Done(seen) /\ seen = latest /\ latest \in Version
    BY SeenAndLatest DEF StepInv, AtRest, OneChange
  <2>2. DOMAIN running \subseteq {tracked} /\ tracked \in DOMAIN running \cup {0} /\ 0 \notin DOMAIN running
    BY <2>1 DEF OneChange, TypeOK
  <2>3. latest.exists /\ latest.spec.active <=> tracked # 0
    BY <2>1 DEF Done
  <2>4. latest.exists /\ edits = 0 => filterConfig = latest.spec.filter
    BY <2>1 DEF OneChange, Done
  <2> QED
    BY <2>1, <2>2, <2>3, <2>4 DEF Done
<1> QED
  BY <1>1, <1>2, InitTyped, NextTyped, NextInStep, PTL DEF Spec
=============================================================================
