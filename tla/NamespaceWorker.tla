---------------------------- MODULE NamespaceWorker ----------------------------
(***************************************************************************)
(* A DependencyNamesapceWorker (pkg/drmanager/dependencynamespaceworker)   *)
(* with its transport manager: informer events of the source cluster enter *)
(* a rate limited queue, pass the filters, have their dependencies checked *)
(* against the source cluster, and are handed to the TransportManager,     *)
(* whose variables and actions this module extends.                        *)
(*                                                                         *)
(* The source cluster is a history of events ordered by resourceVersion;   *)
(* "revision" is how far it has got.  An element of Items is an informer   *)
(* event or a dependency copy made by a dependency checker; two copies of  *)
(* one object with the same version and action are one element, since the  *)
(* second pointer repeats the first.                                       *)
(*                                                                         *)
(* Not covered: a worker for the cluster namespace "kube-system", and      *)
(* relists (WorkerGenerations has those).                                  *)
(***************************************************************************)
EXTENDS TransportManager

CONSTANTS
    Objects,            \* objects of the source cluster
    KindOf,             \* "pv", "pvc", "sts" or "other"
    SourceUid,          \* the uid an object has in the source cluster
    VolumeOf,           \* the volume a claim is bound to (spec.volumeName)
    InNamespace,        \* objects in the namespace of the worker
    ObjOf,              \* the object of an item
    Events,             \* the items that informers deliver
    PassFilter,         \* the items every filter lets pass
    Copy(_, _, _),      \* dependency copy of an object at a version, with an action
    FirstRevision, LastRevision,    \* bounds of the source history
    SourceMayFail       \* whether a request to the source cluster may fail

ASSUME WorkerAssumption ==
    /\ KindOf \in [Objects -> {"pv", "pvc", "sts", "other"}]
    /\ SourceUid \in [Objects -> Uids]
    /\ VolumeOf \in [{o \in Objects : KindOf[o] = "pvc"} ->
                       {o \in Objects : KindOf[o] = "pv"}]
    /\ ObjOf \in [Items -> Objects]
    /\ Events \subseteq Items /\ PassFilter \subseteq Items
    /\ InNamespace \subseteq Objects
    /\ FirstRevision \in Nat /\ LastRevision \in Nat /\ FirstRevision <= LastRevision
    /\ SourceMayFail \in BOOLEAN

\* The objects whose copies the dependency checkers may return for item i.
MayDependOn(i) ==
    CASE KindOf[ObjOf[i]] = "pvc" -> {VolumeOf[ObjOf[i]]}
      [] KindOf[ObjOf[i]] = "sts" -> {o \in Objects : KindOf[o] = "pvc"}
      [] OTHER                    -> {}

ASSUME CopyAssumption ==
    \A i \in PassFilter, e \in Events :
      ActOf[i] # "delete" /\ ActOf[e] # "delete" /\ ObjOf[e] \in MayDependOn(i) =>
        LET c == Copy(ObjOf[e], VerOf[e], ActOf[i])
        IN /\ c \in Items /\ ObjOf[c] = ObjOf[e]
           /\ VerOf[c] = VerOf[e] /\ ActOf[c] = ActOf[i]

VARIABLES
    revision,       \* the source cluster has seen the events up to this version
    mounted,        \* claims mounted by the pods of the stateful set
    delivered,      \* events that reached objEnqueue
    fresh,          \* items in their first AddRateLimited delay: these stay in order
    retrying,       \* items requeued by run: longer delays, any order
    current,        \* the item run is deciding about (at most one)
    fetched,        \* what its dependency checker read from the source cluster
    wpc,            \* where the run goroutine is
    filtered,       \* items the filters have already changed in place
    dependencies,   \* dnw.dependencies
    dropped,        \* history: items given up because their check failed
    closed          \* what the cancelled worker has closed

sourceVars == <<revision, mounted>>
inVars     == <<delivered, fresh, retrying>>
runVars    == <<current, fetched, filtered, dependencies, dropped>>
workerVars == <<sourceVars, inVars, runVars, wpc, closed>>
wvars      == <<vars, workerVars>>

WorkerTypeOK ==
    /\ revision \in FirstRevision..LastRevision
    /\ mounted \subseteq {o \in Objects : KindOf[o] = "pvc"}
    /\ delivered \subseteq Events
    /\ fresh \in Seq(Items)
    /\ retrying \subseteq Items /\ current \subseteq Items /\ fetched \subseteq Items
    /\ wpc \in {"loop", "dequeue", "decide", "stopped"}
    /\ filtered \subseteq Items /\ dropped \subseteq Items
    /\ dependencies \subseteq Uids
    /\ closed \subseteq {"queue", "channel"}

WInit ==
    /\ Init
    /\ revision = FirstRevision
    /\ mounted = {}
    /\ delivered = {}
    /\ fresh = <<>>
    /\ retrying = {} /\ current = {} /\ fetched = {}
    /\ wpc = "loop"
    /\ filtered = {} /\ dropped = {}
    /\ dependencies = {}
    /\ closed = {}

-----------------------------------------------------------------------------
(* The source cluster and its informers.                                   *)

SourceEvents(o) == {e \in Events : ObjOf[e] = o /\ VerOf[e] <= revision}

IsLatest(e, o) == e \in SourceEvents(o) /\ \A f \in SourceEvents(o) : VerOf[f] <= VerOf[e]

Latest(o) == CHOOSE e \in Events : IsLatest(e, o)

Exists(o) == \E e \in Events : IsLatest(e, o) /\ ActOf[e] # "delete"

SourceChanges ==
    /\ Alive /\ revision < LastRevision
    /\ revision' = revision + 1
    /\ UNCHANGED <<vars, mounted, inVars, runVars, wpc, closed>>

\* A pod of the stateful set appears (pods are not collected themselves).
PodMounts(o) ==
    /\ Alive /\ KindOf[o] = "pvc" /\ Exists(o) /\ o \notin mounted
    /\ mounted' = mounted \cup {o}
    /\ UNCHANGED <<vars, revision, inVars, runVars, wpc, closed>>

\* The next event of an object that its informer has not delivered.  The events
\* of one object come in order, those of different kinds do not.
IsNext(e) ==
    /\ e \notin delivered /\ VerOf[e] <= revision
    /\ \A f \in Events : ObjOf[f] = ObjOf[e] /\ VerOf[f] < VerOf[e] => f \in delivered

\* A work queue ignores AddRateLimited after ShutDown.
QueueOpen == "queue" \notin closed

\* A handler of the collector sends the event, objEnqueue puts it in the queue.
Inform(e) ==
    /\ Alive /\ "channel" \notin closed
    /\ IsNext(e)
    /\ delivered' = delivered \cup {e}
    /\ fresh' = IF QueueOpen THEN Append(fresh, e) ELSE fresh
    /\ UNCHANGED <<vars, sourceVars, retrying, runVars, wpc, closed>>

\* BaseResourceManager.Run closes the channel when the context is done; that
\* ends objEnqueue.
CloseChannel ==
    /\ Alive /\ ctxDone /\ "channel" \notin closed
    /\ closed' = closed \cup {"channel"}
    /\ UNCHANGED <<vars, sourceVars, inVars, runVars, wpc>>

\* The informers stop by themselves when they see the same context done: a
\* handler may still be sending, and a send on a closed channel panics.
SendOnClosedChannel(e) ==
    /\ "channel" \in closed
    /\ IsNext(e)
    /\ ProcessDies
    /\ UNCHANGED workerVars

-----------------------------------------------------------------------------
(* The run goroutine.                                                      *)

WorkerLoop ==
    /\ Alive /\ wpc = "loop"
    /\ wpc' = IF ctxDone THEN "stopped" ELSE "dequeue"
    /\ UNCHANGED <<vars, sourceVars, inVars, runVars, closed>>

\* The last statement of DependencyNamesapceWorker.Run.
WorkerShutDown ==
    /\ Alive /\ ctxDone /\ QueueOpen
    /\ closed' = closed \cup {"queue"}
    /\ UNCHANGED <<vars, sourceVars, inVars, runVars, wpc>>

\* ObjQueue.Get returns "closed" when no item is left whose delay is over.
WorkerQueueClosed ==
    /\ Alive /\ wpc = "dequeue" /\ ~QueueOpen
    /\ wpc' = "loop"
    /\ UNCHANGED <<vars, sourceVars, inVars, runVars, closed>>

\* ObjQueue.Get: the next item whose delay is over.
Take(i) ==
    /\ Alive /\ wpc = "dequeue"
    /\ \/ fresh # <<>> /\ i = Head(fresh) /\ fresh' = Tail(fresh) /\ UNCHANGED retrying
       \/ i \in retrying /\ retrying' = retrying \ {i} /\ UNCHANGED fresh
    /\ UNCHANGED <<delivered, closed>>

\* The uid an item carries now: a filter may have removed or changed it.
CarriedUid(i) == IF i \in filtered THEN UidOf[i] ELSE SourceUid[ObjOf[i]]

\* Mutant: the deletion of a dependency is out of scope.
M_DeletionOutOfScope(i) ==
    (CarriedUid(i) \in dependencies /\ ActOf[i] # "delete") \/ ObjOf[i] \in InNamespace

InScope(i) == CarriedUid(i) \in dependencies \/ ObjOf[i] \in InNamespace

\* Items out of scope and items a filter stops end here.
Ignore(i) ==
    /\ Take(i)
    /\ ~InScope(i) \/ i \notin PassFilter
    /\ wpc' = "loop"
    /\ filtered' = IF InScope(i) THEN filtered \cup {i} ELSE filtered
    /\ UNCHANGED <<vars, sourceVars, current, fetched, dependencies, dropped>>

Accepted(i) ==
    /\ Take(i)
    /\ InScope(i) /\ i \in PassFilter
    /\ filtered' = filtered \cup {i}

\* A repeated copy adds nothing to the items the transport manager has.
HandOver(i) == IF i \in handed THEN UNCHANGED vars ELSE AddResourceObj(i)

\* Mutants: the deleted object stays a dependency; the deletion is not passed on.
M_KeepDependency(i) ==
    /\ Accepted(i) /\ ActOf[i] = "delete"
    /\ HandOver(i)
    /\ wpc' = "loop"
    /\ UNCHANGED <<sourceVars, current, fetched, dependencies, dropped>>

M_SwallowDeletion(i) ==
    /\ Accepted(i) /\ ActOf[i] = "delete"
    /\ dependencies' = dependencies \ {UidOf[i]}
    /\ wpc' = "loop"
    /\ UNCHANGED <<vars, sourceVars, current, fetched, dropped>>

\* A deletion has no dependencies; it ends the item's own role as one.
PassDeletion(i) ==
    /\ Accepted(i) /\ ActOf[i] = "delete"
    /\ dependencies' = dependencies \ {UidOf[i]}
    /\ HandOver(i)
    /\ wpc' = "loop"
    /\ UNCHANGED <<sourceVars, current, fetched, dropped>>

\* What the checkers read.  A copy of a claim carries its kind in place of its
\* resource, so the claim checker does not recognise it.
Reads(i) ==
    CASE KindOf[ObjOf[i]] = "pvc" /\ i \in Events -> {VolumeOf[ObjOf[i]]}
      [] KindOf[ObjOf[i]] = "sts"                 -> mounted
      [] OTHER                                    -> {}

CheckDependencies(i) ==
    /\ Accepted(i) /\ ActOf[i] # "delete"
    /\ \A o \in Reads(i) : Exists(o)
    /\ fetched' = {Copy(o, VerOf[Latest(o)], ActOf[i]) : o \in Reads(i)}
    /\ current' = {i}
    /\ wpc' = "decide"
    /\ UNCHANGED <<vars, sourceVars, dependencies, dropped>>

\* A missing dependency or a failed request: run returns without requeueing.
CheckFails(i) ==
    /\ Accepted(i) /\ ActOf[i] # "delete"
    /\ Reads(i) # {}
    /\ SourceMayFail \/ \E o \in Reads(i) : ~Exists(o)
    /\ dropped' = dropped \cup {i}
    /\ wpc' = "loop"
    /\ UNCHANGED <<vars, sourceVars, current, fetched, dependencies>>

\* The sets of copies a checker may return.  The stateful set checker takes the
\* address of its loop variable: each dependency it returns is the last claim.
Returned(i) ==
    IF KindOf[ObjOf[i]] = "sts" /\ fetched # {} THEN {{c} : c \in fetched}
    ELSE {fetched}

NotTransported(copies) ==
    {c \in copies : ~IsResourceTransported(SourceUid[ObjOf[c]])}

IsFresh(i) == \E k \in 1..Len(fresh) : fresh[k] = i

\* RequeueWithDependencies with what is requeued and what becomes a dependency.
M_Requeue(i, again, enqueue(_), Key(_)) ==
    /\ Alive /\ wpc = "decide" /\ i \in current
    /\ \E copies \in Returned(i) : \E c \in NotTransported(copies) :
         /\ fresh' = IF QueueOpen THEN fresh \o enqueue(c) ELSE fresh
         /\ dependencies' = dependencies \cup {Key(c)}
    /\ retrying' = IF QueueOpen THEN retrying \cup again ELSE retrying
    /\ current' = {} /\ fetched' = {}
    /\ wpc' = "loop"
    /\ UNCHANGED <<vars, sourceVars, delivered, filtered, dropped, closed>>

\* Mutants: the item itself is not requeued; its dependency is not; dependencies
\* holds objects in place of uids.
M_ForgetItem(i) ==
    M_Requeue(i, {}, LAMBDA c : IF IsFresh(c) THEN <<>> ELSE <<c>>, LAMBDA c : SourceUid[ObjOf[c]])
M_ForgetDependency(i) == M_Requeue(i, {i}, LAMBDA c : <<>>, LAMBDA c : SourceUid[ObjOf[c]])
M_KeyedByItem(i) == M_Requeue(i, {i}, LAMBDA c : IF IsFresh(c) THEN <<>> ELSE <<c>>, LAMBDA c : c)

RequeueWithDependencies(i) ==
    /\ Alive /\ wpc = "decide" /\ i \in current
    /\ \E copies \in Returned(i) : \E c \in NotTransported(copies) :
         /\ fresh' = IF QueueOpen /\ ~IsFresh(c) THEN Append(fresh, c) ELSE fresh
         /\ dependencies' = dependencies \cup {SourceUid[ObjOf[c]]}
    /\ retrying' = IF QueueOpen THEN retrying \cup {i} ELSE retrying
    /\ current' = {} /\ fetched' = {}
    /\ wpc' = "loop"
    /\ UNCHANGED <<vars, sourceVars, delivered, filtered, dropped, closed>>

Pass(i) ==
    /\ Alive /\ wpc = "decide" /\ i \in current
    /\ \E copies \in Returned(i) : NotTransported(copies) = {}
    /\ HandOver(i)
    /\ current' = {} /\ fetched' = {}
    /\ wpc' = "loop"
    /\ UNCHANGED <<sourceVars, inVars, filtered, dependencies, dropped, closed>>

\* IsResourceTransported reads the Versions map without a lock: while transport
\* writes it, the Go runtime may end the process.
ConcurrentMapAccess ==
    /\ wpc = "decide" /\ fetched # {}
    /\ pc = "done" /\ err # "failed"
    /\ ProcessDies
    /\ UNCHANGED workerVars

run(i) ==
    \/ Ignore(i) \/ PassDeletion(i) \/ CheckDependencies(i) \/ CheckFails(i)
    \/ RequeueWithDependencies(i) \/ Pass(i)

TransportManagerStep ==
    /\ \/ \E i \in Items : DelayExpires(i) \/ transport(i)
       \/ \E c \in Clusters : SetConfig(c)
       \/ Loop \/ QueueClosed \/ Cancel \/ ShutDown
    /\ UNCHANGED workerVars

WNext ==
    \/ SourceChanges
    \/ \E o \in Objects : PodMounts(o)
    \/ \E e \in Events : Inform(e) \/ SendOnClosedChannel(e)
    \/ \E i \in Items : run(i)
    \/ WorkerLoop \/ WorkerQueueClosed \/ WorkerShutDown \/ CloseChannel
    \/ ConcurrentMapAccess
    \/ TransportManagerStep

WSpec == WInit /\ [][WNext]_wvars

-----------------------------------------------------------------------------
(* Fairness: both goroutines are scheduled; a requeued item waits at most   *)
(* five seconds before it is served again, while its dependencies arrive.   *)

WorkerFairness ==
    /\ WF_vars(Loop \/ QueueClosed \/ ShutDown \/ \E i \in Items : transport(i))
    /\ WF_vars(\E i \in Items : DelayExpires(i))
    /\ SF_vars(\E i \in Items : AnsweredRequest(i))
    /\ WF_vars(settings = NoCluster /\ \E c \in Clusters : SetConfig(c))
    /\ \A i \in Items : SF_wvars(run(i))
    /\ WF_wvars(WorkerLoop \/ WorkerQueueClosed \/ WorkerShutDown \/ CloseChannel)

FairWSpec == WSpec /\ WorkerFairness

-----------------------------------------------------------------------------
(* Properties.                                                             *)

Claims == {o \in Objects : KindOf[o] = "pvc"}

ItemsOf(o) == {i \in Items : ObjOf[i] = o}

\* An object has been written to cluster c.
Written(o, c) == \E i \in ItemsOf(o) : pair[c][NameOf[i]].ver > 0

\* While the pair cluster stays the same, a claim is never written to it before
\* the volume it is bound to, whatever the order of the informer events and
\* however many requests fail.
VolumeUnderClaim ==
    (\A c, d \in Clusters : c = d) =>
      \A o \in Claims, c \in Clusters : Written(o, c) => Written(VolumeOf[o], c)

\* What that takes of the filters and the names: an item with the uid of a
\* source object comes from that object, two objects do not share a place, a
\* claim's copy has no place (its kind stands where its resource should), and
\* the places of volumes and claims were free at the start.
PlacesAreOwn ==
    /\ \A i \in Items, o \in Objects : UidOf[i] = SourceUid[o] => ObjOf[i] = o
    /\ \A i, j \in Items : NameOf[i] = NameOf[j] /\ NameOf[i] \in Served => ObjOf[i] = ObjOf[j]
    /\ \A i \in Items : ObjOf[i] \in Claims /\ NameOf[i] \in Served => i \in Events
    /\ \A i \in Items : KindOf[ObjOf[i]] \in {"pv", "pvc"} => NameOf[i] \notin Preexisting

\* What the deletions take.  A uid is that of one object and does not come back
\* after its deletion, and an object has one event at a version, ...
UidsAreUnique ==
    /\ \A o, p \in Objects : SourceUid[o] = SourceUid[p] => o = p
    /\ \A e, f \in Events : ObjOf[e] = ObjOf[f] =>
         /\ VerOf[e] = VerOf[f] => e = f
         /\ ActOf[e] = "delete" => VerOf[f] <= VerOf[e]

\* ... no filter takes a uid away, ...
UidsAreKept == \A i \in Items : UidOf[i] = SourceUid[ObjOf[i]]

\* ... and the deletion of what filters let pass is let pass, at the same place.
DeletionsPass ==
    \A e \in Events, i \in Items : ActOf[e] = "delete" /\ ObjOf[i] = ObjOf[e] =>
      /\ i \in PassFilter => e \in PassFilter
      /\ NameOf[i] \in Served => NameOf[e] = NameOf[i]

\* An event of the worker's namespace that passes the filters is queued, under
\* decision, handed over, or was given up by a failed dependency check, until
\* the worker is stopped.
NoEventLost ==
    QueueOpen => \A e \in delivered : ObjOf[e] \in InNamespace /\ e \in PassFilter =>
      IsFresh(e) \/ e \in retrying \cup current \cup handed \cup dropped

\* Every event of the source cluster so far has gone through both queues.
AtRest ==
    /\ Quiescent /\ ~ctxDone
    /\ {e \in Events : VerOf[e] <= revision} \subseteq delivered
    /\ wpc \in {"loop", "dequeue"} /\ fresh = <<>> /\ retrying = {}
    /\ \A c, d \in Clusters : c = d

\* At rest no object is in the pair cluster that the source cluster no longer
\* has, also when it got there as a dependency: the deletion of a volume is
\* passed on for as long as a copy of the volume can be.
NoOrphans ==
    AtRest => \A i \in Items, c \in Clusters :
      NameOf[i] \notin Preexisting /\ pair[c][NameOf[i]].present => Exists(ObjOf[i])

\* At rest an object of the namespace that kept its uid, whose events passed the
\* filters and were not given up, is in the pair cluster as it is at the source.
MirroredAtRest ==
    AtRest => \A o \in InNamespace, c \in Clusters :
      LET e == Latest(o) IN
      /\ SourceEvents(o) # {} /\ e \in PassFilter /\ NameOf[e] \in Served
      /\ UidOf[e] \in TrackedUids /\ SourceEvents(o) \cap dropped = {}
      => pair[c][NameOf[e]] = [present |-> Exists(o), ver |-> VerOf[e]]

\* The deletion of a volume is not followed by a copy made before it: once it
\* was handed over, no older version of the object is handed over any more.
NothingAfterDeletion ==
    [][\A e \in handed, i \in handed' \ handed :
         ActOf[e] = "delete" /\ UidOf[i] = UidOf[e] /\ ObjOf[i] \notin InNamespace
           => VerOf[i] > VerOf[e]]_wvars

\* A claim that reached the worker is acknowledged in the end, its volume
\* first, unless its check fails or the worker is stopped.
ClaimArrives ==
    \A e \in Events : ObjOf[e] \in Claims /\ e \in PassFilter /\ ActOf[e] # "delete" =>
      (e \in delivered ~> Settled(e) \/ e \in dropped \/ Stopped)

\* A cancelled worker comes to its end, whatever its goroutines were waiting
\* for: both loops return, both queues and the channel are closed, and so
\* objEnqueue returns as well -- or a send on that channel panics first.
WorkerStops ==
    ctxDone ~> \/ pc = "crashed"
               \/ /\ pc = "stopped" /\ wpc = "stopped"
                  /\ shuttingDown /\ closed = {"queue", "channel"}

\* An item skipped as an "older version resource" is not newer than what the
\* pair cluster holds.
SkippedIsOld ==
    [][\A i \in Items : pc = "dequeue" /\ pc' = "loop" /\ ObjQueue # <<>> /\ i = Head(ObjQueue) =>
         \A c \in Clusters : pair[c][NameOf[i]].ver >= VerOf[i]]_wvars
=============================================================================
