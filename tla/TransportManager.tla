--------------------------- MODULE TransportManager ---------------------------
(***************************************************************************)
(* One BasicTransportManager (pkg/transportmanager/transportmanager.go)    *)
(* with its kubeapiserver transporter: the rate limited work queue, the    *)
(* transport goroutine, the versions it has acknowledged, and the pair     *)
(* cluster it writes to.                                                   *)
(*                                                                         *)
(* An element of Items is one *ObjResource handed over by the namespace    *)
(* worker.  UidOf is its metadata.uid, NameOf the place it has in the pair *)
(* cluster (resource, namespace and name), VerOf its resourceVersion as an *)
(* integer and ActOf the informer event it came from.  Contents are        *)
(* abstracted to the version they were read at.                            *)
(*                                                                         *)
(* Not covered: the http transporter (its Transport is a stub), API server *)
(* admission, finalizers, and other writers of the pair cluster.           *)
(***************************************************************************)
EXTENDS Naturals, Sequences

CONSTANTS
    Items, Uids, Names,             \* *ObjResource values, uids, target places
    UidOf, NameOf, VerOf, ActOf,    \* attributes of an item
    Clusters, NoCluster,            \* PairClusterSettings values, and nil
    Served,                         \* names under a resource the pair cluster serves
    Preexisting,                    \* names that exist in the pair clusters at the start
    Faults                          \* which failures may occur

ObjectAction == {"create", "update", "delete"}
FaultKinds   == {"lost",            \* the request never reaches the server
                 "noAnswer",        \* it takes effect, the answer is lost
                 "getError",        \* a Get fails with an error that is not NotFound
                 "panic"}           \* another goroutine of the process panics

ASSUME ItemAssumption ==
    /\ UidOf  \in [Items -> Uids]
    /\ NameOf \in [Items -> Names]
    /\ VerOf  \in [Items -> Nat \ {0}]
    /\ ActOf  \in [Items -> ObjectAction]
ASSUME ClusterAssumption == NoCluster \notin Clusters
ASSUME NameAssumption    == Served \subseteq Names /\ Preexisting \subseteq Served
ASSUME FaultAssumption   == Faults \subseteq FaultKinds

VARIABLES
    handed,         \* history: the items AddResourceObj was called with
    ObjQueue,       \* the FIFO part of the rate limiting queue
    delayed,        \* items whose AddRateLimited delay has not expired
    processing,     \* the item between Get and Done (at most one)
    pc,             \* where the transport goroutine is
    err,            \* outcome of Transport: "ok", "exists" or "failed"
    client,         \* the cluster the current Transport call talks to
    settings,       \* kat.PairClusterSettings
    Versions,       \* btm.Versions; 0 stands for a missing key
    pair,           \* the pair clusters: what each name holds, and since which version
    condition,      \* last SyncedCondition given to NamespacedStatusUpdateFunc
    ctxDone,        \* the worker's context is cancelled
    shuttingDown    \* ObjQueue.ShutDown was called

queueVars == <<ObjQueue, delayed, handed>>
stopVars  == <<ctxDone, shuttingDown>>
vars      == <<queueVars, processing, pc, err, client, settings, Versions,
               pair, condition, stopVars>>

Calls  == {"create", "get", "patch", "delete"}      \* waiting for the pair cluster
Outcomes == {"ok", "exists", "failed"}
Statuses == {"none", "success", "fail"}

Absent(n) == [present |-> n \in Preexisting, ver |-> 0]

TypeOK ==
    /\ handed \subseteq Items
    /\ ObjQueue \in Seq(Items)
    /\ delayed \subseteq Items
    /\ processing \subseteq Items
    /\ pc \in {"loop", "dequeue", "done", "stopped", "crashed"} \cup Calls
    /\ err \in Outcomes
    /\ client \in Clusters \cup {NoCluster}
    /\ settings \in Clusters \cup {NoCluster}
    /\ Versions \in [Uids -> Nat]
    /\ pair \in [Clusters -> [Names -> [present : BOOLEAN, ver : Nat]]]
    /\ condition \in [Names -> [status : Statuses, ver : Nat]]
    /\ ctxDone \in BOOLEAN
    /\ shuttingDown \in BOOLEAN

\* NewBasicTransportManager; the listener it registers may set the
\* configuration later or never (see SetConfig).
Init ==
    /\ handed = {}
    /\ ObjQueue = <<>>
    /\ delayed = {}
    /\ processing = {}
    /\ pc = "loop"
    /\ err = "ok"
    /\ client = NoCluster
    /\ settings = NoCluster
    /\ Versions = [u \in Uids |-> 0]
    /\ pair = [c \in Clusters |-> [n \in Names |-> Absent(n)]]
    /\ condition = [n \in Names |-> [status |-> "none", ver |-> 0]]
    /\ ctxDone = FALSE
    /\ shuttingDown = FALSE

-----------------------------------------------------------------------------
(* Calls made from other goroutines.  A crash ends the whole process.      *)

Alive == pc # "crashed"

\* Mutant: what is queued already counts as transported.
M_QueuedIsTransported(u) == \E i \in handed : UidOf[i] = u

IsResourceTransported(u) == Versions[u] # 0

\* Mutant: no version check.
M_EveryVersionIsNew(i) == TRUE

isNewVersion(i) == Versions[UidOf[i]] < VerOf[i]

\* A work queue ignores Add after ShutDown.
AddResourceObj(i) ==
    /\ Alive /\ i \notin handed
    /\ handed' = handed \cup {i}
    /\ ObjQueue' = IF shuttingDown THEN ObjQueue ELSE Append(ObjQueue, i)
    /\ UNCHANGED <<delayed, processing, pc, err, client, settings, Versions,
                   pair, condition, stopVars>>

SetConfig(c) ==
    /\ Alive
    /\ settings' = c
    /\ UNCHANGED <<queueVars, processing, pc, err, client, Versions, pair,
                   condition, stopVars>>

\* The delaying queue hands the item to the FIFO queue when its delay, which
\* grows from 1 s to 5 s, is over.
DelayExpires(i) ==
    /\ Alive /\ ~shuttingDown
    /\ i \in delayed
    /\ delayed' = delayed \ {i}
    /\ ObjQueue' = Append(ObjQueue, i)
    /\ UNCHANGED <<handed, processing, pc, err, client, settings, Versions,
                   pair, condition, stopVars>>

Cancel ==
    /\ Alive /\ ~ctxDone
    /\ ctxDone' = TRUE
    /\ UNCHANGED <<queueVars, processing, pc, err, client, settings, Versions,
                   pair, condition, shuttingDown>>

\* Mutant: Run returns without shutting the queue down.
M_NoShutDown == Alive /\ ctxDone /\ ~shuttingDown /\ UNCHANGED vars

\* The last statement of Run.
ShutDown ==
    /\ Alive /\ ctxDone /\ ~shuttingDown
    /\ shuttingDown' = TRUE
    /\ UNCHANGED <<queueVars, processing, pc, err, client, settings, Versions,
                   pair, condition, ctxDone>>

\* A panic of any goroutine ends the process, this worker included.
ProcessDies ==
    /\ "panic" \in Faults /\ Alive
    /\ pc' = "crashed"
    /\ UNCHANGED <<queueVars, processing, err, client, settings, Versions, pair,
                   condition, stopVars>>

-----------------------------------------------------------------------------
(* The transport goroutine.                                                *)

\* wait.UntilWithContext looks at the context before each call of transport.
Loop ==
    /\ pc = "loop"
    /\ pc' = IF ctxDone THEN "stopped" ELSE "dequeue"
    /\ UNCHANGED <<queueVars, processing, err, client, settings, Versions,
                   pair, condition, stopVars>>

\* ObjQueue.Get returns "closed" once the queue is shut down and empty.
QueueClosed ==
    /\ pc = "dequeue" /\ ObjQueue = <<>> /\ shuttingDown
    /\ pc' = "loop"
    /\ UNCHANGED <<queueVars, processing, err, client, settings, Versions,
                   pair, condition, stopVars>>

\* An item whose version is not newer than the acknowledged one is dropped.
SkipOldVersion(i) ==
    /\ pc = "dequeue" /\ ObjQueue # <<>> /\ i = Head(ObjQueue)
    /\ ~isNewVersion(i)
    /\ ObjQueue' = Tail(ObjQueue)
    /\ pc' = "loop"
    /\ UNCHANGED <<handed, delayed, processing, err, client, settings,
                   Versions, pair, condition, stopVars>>

\* Transport reads the settings once, when it starts; without settings it
\* fails at once.  An update begins with a Get of the target.
StartTransport(i) ==
    /\ pc = "dequeue" /\ ObjQueue # <<>> /\ i = Head(ObjQueue)
    /\ isNewVersion(i)
    /\ ObjQueue' = Tail(ObjQueue)
    /\ processing' = {i}
    /\ client' = settings
    /\ IF settings = NoCluster
         THEN pc' = "done" /\ err' = "failed"
         ELSE /\ pc' = IF ActOf[i] = "update" THEN "get" ELSE ActOf[i]
              /\ UNCHANGED err
    /\ UNCHANGED <<handed, delayed, settings, Versions, pair, condition,
                   stopVars>>

Target(i) == pair[client][NameOf[i]]
SetTarget(i, there) ==
    pair' = [pair EXCEPT ![client][NameOf[i]] = [present |-> there, ver |-> VerOf[i]]]

\* The caller learns the outcome r, or sees an error when the answer is lost.
Answer(r, fate) ==
    /\ pc' = "done"
    /\ \/ fate = "answered" /\ err' = r
       \/ fate = "noAnswer" /\ fate \in Faults /\ err' = "failed"

RequestLost(i) ==
    /\ "lost" \in Faults
    /\ i \in processing /\ pc \in {"create", "patch", "delete"}
    /\ pc' = "done" /\ err' = "failed"
    /\ UNCHANGED <<queueVars, processing, client, settings, Versions, pair,
                   condition, stopVars>>

\* Create, also when an update did not find its target.
CreateTarget(i, fate) ==
    /\ i \in processing /\ pc = "create"
    /\ IF NameOf[i] \in Served /\ ~Target(i).present
         THEN SetTarget(i, TRUE) /\ Answer("ok", fate)
         ELSE /\ UNCHANGED pair
              /\ Answer(IF NameOf[i] \in Served THEN "exists" ELSE "failed", fate)
    /\ UNCHANGED <<queueVars, processing, client, settings, Versions,
                   condition, stopVars>>

\* Mutant: an update is always a patch.
M_AlwaysPatch(i) ==
    /\ i \in processing /\ pc = "get"
    /\ pc' = "patch"
    /\ UNCHANGED <<queueVars, processing, err, client, settings, Versions,
                   pair, condition, stopVars>>

GetTarget(i) ==
    /\ i \in processing /\ pc = "get"
    /\ pc' = IF Target(i).present THEN "patch" ELSE "create"
    /\ UNCHANGED <<queueVars, processing, err, client, settings, Versions,
                   pair, condition, stopVars>>

\* Any other error of Get leaves originalUnstructured nil, and
\* prepareTransportWhenUpdating dereferences it: the process panics.
GetTargetFails(i) ==
    /\ "getError" \in Faults
    /\ i \in processing /\ pc = "get"
    /\ pc' = "crashed"
    /\ UNCHANGED <<queueVars, processing, err, client, settings, Versions,
                   pair, condition, stopVars>>

\* The merge patch carries no resourceVersion condition.
PatchTarget(i, fate) ==
    /\ i \in processing /\ pc = "patch"
    /\ IF Target(i).present
         THEN SetTarget(i, TRUE) /\ Answer("ok", fate)
         ELSE UNCHANGED pair /\ Answer("failed", fate)
    /\ UNCHANGED <<queueVars, processing, client, settings, Versions,
                   condition, stopVars>>

\* Mutant: a NotFound answer counts as a deletion.
M_NotFoundIsDeleted(i, fate) ==
    /\ i \in processing /\ pc = "delete"
    /\ IF Target(i).present THEN SetTarget(i, FALSE) ELSE UNCHANGED pair
    /\ Answer("ok", fate)
    /\ UNCHANGED <<queueVars, processing, client, settings, Versions,
                   condition, stopVars>>

\* A NotFound answer is an error like any other.
DeleteTarget(i, fate) ==
    /\ i \in processing /\ pc = "delete"
    /\ IF Target(i).present
         THEN SetTarget(i, FALSE) /\ Answer("ok", fate)
         ELSE UNCHANGED pair /\ Answer("failed", fate)
    /\ UNCHANGED <<queueVars, processing, client, settings, Versions,
                   condition, stopVars>>

\* FinishTransport with the outcomes that delay the item, that acknowledge it
\* and that are reported as a success, and the value it is acknowledged with.
M_Finish(i, retried, acknowledged, reported, mark) ==
    /\ i \in processing /\ pc = "done"
    /\ delayed' = IF err \in retried /\ ~shuttingDown THEN delayed \cup {i} ELSE delayed
    /\ Versions' = IF err \in acknowledged
                     THEN [Versions EXCEPT ![UidOf[i]] = mark] ELSE Versions
    /\ condition' = [condition EXCEPT ![NameOf[i]] =
                       [status |-> IF err \in reported THEN "success" ELSE "fail",
                        ver |-> VerOf[i]]]
    /\ processing' = {}
    /\ pc' = "loop"
    /\ UNCHANGED <<handed, ObjQueue, err, client, settings, pair, stopVars>>

\* Mutants: a failed item is not retried; a failure is acknowledged; a failure
\* is reported as a success; the uid is stored in place of the version.
M_NoRetry(i) == M_Finish(i, {}, {"ok", "exists"}, {"ok"}, VerOf[i])
M_AcknowledgeFailure(i) == M_Finish(i, {"failed"}, Outcomes, {"ok"}, VerOf[i])
M_ReportFailure(i) == M_Finish(i, {"failed"}, {"ok", "exists"}, Outcomes, VerOf[i])
M_StoreUid(i) == M_Finish(i, {"failed"}, {"ok", "exists"}, {"ok"}, UidOf[i])

\* The rest of transport: success and "already exists" acknowledge the
\* version, any other error delays the item for a retry (which a queue that is
\* shutting down ignores); then the condition is reported and Done is called.
FinishTransport(i) ==
    /\ i \in processing /\ pc = "done"
    /\ IF err = "failed"
         THEN /\ delayed' = IF shuttingDown THEN delayed ELSE delayed \cup {i}
              /\ UNCHANGED Versions
         ELSE /\ Versions' = [Versions EXCEPT ![UidOf[i]] = VerOf[i]]
              /\ UNCHANGED delayed
    /\ condition' = [condition EXCEPT ![NameOf[i]] =
                       [status |-> IF err = "ok" THEN "success" ELSE "fail",
                        ver |-> VerOf[i]]]
    /\ processing' = {}
    /\ pc' = "loop"
    /\ UNCHANGED <<handed, ObjQueue, err, client, settings, pair, stopVars>>

Fates == {"answered", "noAnswer"}

transport(i) ==
    \/ SkipOldVersion(i) \/ StartTransport(i) \/ FinishTransport(i)
    \/ GetTarget(i) \/ GetTargetFails(i) \/ RequestLost(i)
    \/ \E f \in Fates : CreateTarget(i, f) \/ PatchTarget(i, f) \/ DeleteTarget(i, f)

Next ==
    \/ \E i \in Items : AddResourceObj(i) \/ DelayExpires(i) \/ transport(i)
    \/ \E c \in Clusters : SetConfig(c)
    \/ Loop \/ QueueClosed \/ Cancel \/ ShutDown \/ ProcessDies

Spec == Init /\ [][Next]_vars

-----------------------------------------------------------------------------
(* Fairness: the goroutine is scheduled, delays end, an open pair cluster   *)
(* answers the requests of an item again and again, and gets configured.   *)

AnsweredRequest(i) ==
    CreateTarget(i, "answered") \/ PatchTarget(i, "answered") \/ DeleteTarget(i, "answered")

Fairness ==
    /\ WF_vars(Loop \/ QueueClosed \/ \E i \in Items : transport(i))
    /\ \A i \in Items : WF_vars(DelayExpires(i)) /\ SF_vars(AnsweredRequest(i))
    /\ WF_vars(ShutDown)
    /\ WF_vars(settings = NoCluster /\ \E c \in Clusters : SetConfig(c))

FairSpec == Spec /\ Fairness

-----------------------------------------------------------------------------
(* Properties.                                                             *)

\* The items of a uid that can reach the pair cluster.
Of(u) == {i \in Items : UidOf[i] = u /\ NameOf[i] \in Served}

\* A uid is tracked when it is alone at one place that was free at the start,
\* its creation is its oldest version and a version is either a deletion or
\* not.  Objects that lost their uid in a filter, that were recreated under
\* the same name, that existed before, or whose creation was sent again at a
\* newer version (a dependency copy) are not tracked: for them "already
\* exists" acknowledges a version the pair cluster does not hold.
TrackedUids == {u \in Uids :
    /\ \A i \in Of(u) : NameOf[i] \notin Preexisting
    /\ \A i \in Of(u), j \in Items :
         /\ NameOf[j] = NameOf[i] <=> UidOf[j] = u /\ NameOf[j] \in Served
         /\ ActOf[i] = "create" /\ j \in Of(u) => VerOf[i] <= VerOf[j]
         /\ VerOf[i] = VerOf[j] /\ j \in Of(u) =>
              (ActOf[i] = "delete" <=> ActOf[j] = "delete")}

Settled(i) == ~isNewVersion(i)

InQueue(i) == \E k \in 1..Len(ObjQueue) : ObjQueue[k] = i

Pending(i) == InQueue(i) \/ i \in delayed \/ i \in processing

\* Until the worker is stopped, every item handed over is queued, waiting for
\* a retry, being transported, or at most as new as an acknowledged version:
\* no path through Get, skip, retry and Done loses one.
NoItemLost ==
    ~shuttingDown => \A i \in handed : Pending(i) \/ Settled(i)

\* What Versions acknowledges is in some pair cluster, at that version or at a
\* newer one: IsResourceTransported never runs ahead of the transport.
AcknowledgedIsHeld ==
    \A u \in Uids : u \in TrackedUids /\ IsResourceTransported(u) =>
      \A i \in Of(u) : \E c \in Clusters : pair[c][NameOf[i]].ver >= Versions[u]

\* A condition with status "success" is true of a pair cluster when it is
\* reported and stays true whatever is retried afterwards.
SuccessIsHeld ==
    \A i \in Items :
      UidOf[i] \in TrackedUids /\ condition[NameOf[i]].status = "success" =>
        \E c \in Clusters : pair[c][NameOf[i]].ver >= condition[NameOf[i]].ver

Quiescent ==
    /\ pc \in {"loop", "dequeue"} /\ ~shuttingDown
    /\ ObjQueue = <<>> /\ delayed = {}

Newest(i) == \A j \in Of(UidOf[i]) \cap handed : VerOf[j] <= VerOf[i]

\* When nothing is pending, a tracked object that was only ever written to one
\* pair cluster is there what its newest event left at the source, in whatever
\* order the events and their retries were processed.
MirroredWhenQuiescent ==
    Quiescent =>
      \A i \in handed, c \in Clusters :
        /\ UidOf[i] \in TrackedUids /\ NameOf[i] \in Served /\ Newest(i)
        /\ \A d \in Clusters \ {c} : pair[d][NameOf[i]].ver = 0
        => pair[c][NameOf[i]] = [present |-> ActOf[i] # "delete", ver |-> VerOf[i]]

\* No step changes the target of a tracked object to a version as old as one
\* that was acknowledged: only unacknowledged writes can be reordered.
AcknowledgedNotOverwritten ==
    [][\A i \in Items : \A c \in Clusters :
         UidOf[i] \in TrackedUids /\ pair'[c][NameOf[i]] # pair[c][NameOf[i]]
           => pair'[c][NameOf[i]].ver > Versions[UidOf[i]]]_vars

Stopped == ctxDone \/ pc = "crashed"

\* While requests are lost or answered too late and the settings move, a
\* creation or an update that was handed over is acknowledged in the end unless
\* the worker is stopped.
EventuallySettled ==
    \A i \in Items : ActOf[i] # "delete" /\ NameOf[i] \in Served =>
      (i \in handed ~> Settled(i) \/ Stopped)

\* A deletion ends with the target gone for good, even when its answer is lost
\* (it is then retried for ever) and older writes are still being retried,
\* unless the settings move to another pair cluster.
DeletionSticks ==
    \A c \in Clusters : [](settings \in {c, NoCluster}) =>
      \A i \in Items : ActOf[i] = "delete" /\ UidOf[i] \in TrackedUids
                         /\ (\A j \in Of(UidOf[i]) : VerOf[j] <= VerOf[i]) =>
        (i \in handed ~> [](Stopped \/ ~pair[c][NameOf[i]].present))

-----------------------------------------------------------------------------
(* Refinement.                                                             *)

ReplicatedUids == {u \in TrackedUids : Of(u) # {}}
PlaceOf(u) == NameOf[CHOOSE i \in Of(u) : TRUE]

Replica == INSTANCE AckedReplica WITH
    Keys           <- ReplicatedUids,
    Replicas       <- Clusters,
    VersionNumbers <- {VerOf[i] : i \in Items},
    offered <- [u \in ReplicatedUids |-> {VerOf[i] : i \in Of(u) \cap handed}],
    held    <- [c \in Clusters |-> [u \in ReplicatedUids |-> pair[c][PlaceOf(u)].ver]],
    acked   <- [u \in ReplicatedUids |-> Versions[u]]

\* Seen through the tracked objects, the transport manager with its pair
\* clusters is an AckedReplica.
ImplementsAckedReplica == Replica!ReplicaSpec
=============================================================================
