--------------------------- MODULE WorkerGenerations ---------------------------
(***************************************************************************)
(* The workers one namespace has one after the other.  A worker ends when  *)
(* the DRNamespace controller cancels it or when its process dies; the     *)
(* next one (drmanager.NewDRManager, AddNamespaceWorker) starts from an    *)
(* empty state against the same source and the same pair clusters.         *)
(*                                                                         *)
(* Within a generation the state and the actions are those of              *)
(* TransportManager.  The items come from the informers of the list-watch  *)
(* collector: an initial list that sends every existing object as a        *)
(* creation, then one event per change.  An informer whose watch broke     *)
(* lists again: what changed meanwhile is one update, and a deletion       *)
(* arrives as a tombstone that the worker does not recognise.              *)
(*                                                                         *)
(* The namespace worker between the two passes objects without             *)
(* dependencies on, in order; its queue is part of the delay of an event.  *)
(* NamespaceWorker models it.  An item that a cancelled worker is given    *)
(* after its successor has started is not covered.                         *)
(***************************************************************************)
EXTENDS TransportManager

CONSTANTS
    Events,                 \* the items that a watch delivers
    Found(_, _),            \* the item a list makes of what an event left, with an action
    FirstRevision, LastRevision,    \* bounds of the source history
    MaxGenerations,         \* how many workers the namespace has
    MaxReconnects           \* how often a watch breaks and lists again

ASSUME GenerationsAssumption ==
    /\ Events \subseteq Items
    /\ \A e \in Events : \A a \in {"create", "update"} : ActOf[e] # "delete" =>
         /\ Found(e, a) \in Items
         /\ UidOf[Found(e, a)] = UidOf[e] /\ NameOf[Found(e, a)] = NameOf[e]
         /\ VerOf[Found(e, a)] = VerOf[e] /\ ActOf[Found(e, a)] = a
    /\ \A e, f \in Events : NameOf[e] = NameOf[f] /\ VerOf[e] = VerOf[f] => e = f
    /\ FirstRevision \in Nat /\ LastRevision \in Nat /\ FirstRevision <= LastRevision
    /\ MaxGenerations \in Nat \ {0} /\ MaxReconnects \in Nat

VARIABLES
    revision,       \* the source cluster has seen the events up to this version
    listed,         \* places whose informer has its initial list
    seen,           \* the version up to which an informer knows a place
    reconnects,     \* how often a watch has been broken
    generation,     \* which worker of the namespace this is
    late,           \* requests of earlier workers that are still under way
    old,            \* history: the newest version an earlier worker acknowledged
    lateHit         \* history: places such a request changed under this worker

informerVars == <<listed, seen, reconnects>>
generationVars == <<generation, late, old, lateHit>>
gvars == <<vars, revision, informerVars, generationVars>>

Requests == [item : Items, client : Clusters, pc : Calls]

GTypeOK ==
    /\ revision \in FirstRevision..LastRevision
    /\ listed \subseteq Names
    /\ seen \in [Names -> Nat]
    /\ reconnects \in 0..MaxReconnects
    /\ generation \in 1..MaxGenerations
    /\ late \subseteq Requests
    /\ old \in [Uids -> Nat]
    /\ lateHit \subseteq Names

GInit ==
    /\ Init
    /\ revision = FirstRevision
    /\ listed = {}
    /\ seen = [n \in Names |-> 0]
    /\ reconnects = 0
    /\ generation = 1
    /\ late = {}
    /\ old = [u \in Uids |-> 0]
    /\ lateHit = {}

-----------------------------------------------------------------------------
(* The source cluster and its informers.                                   *)

EventsAt(n, v) == {e \in Events : NameOf[e] = n /\ VerOf[e] <= v}

IsLatestAt(e, n, v) == e \in EventsAt(n, v) /\ \A f \in EventsAt(n, v) : VerOf[f] <= VerOf[e]

\* The event that left an object at place n, as of version v (at most one).
ObjectAt(n, v) == {e \in EventsAt(n, v) : IsLatestAt(e, n, v) /\ ActOf[e] # "delete"}

SourceChanges ==
    /\ revision < LastRevision
    /\ revision' = revision + 1
    /\ UNCHANGED <<vars, informerVars, generationVars>>

\* What is there is handed over as the action a, if anything is.
HandOverFound(n, a) ==
    LET there == ObjectAt(n, revision) IN
    \/ there = {} /\ UNCHANGED vars
    \/ \E e \in there : IF Found(e, a) \in handed THEN UNCHANGED vars
                                                  ELSE AddResourceObj(Found(e, a))

\* Mutant: the informer resumes its watch; what exists is not handed over.
M_ResumeWatch(n) ==
    /\ Alive /\ ~ctxDone /\ n \notin listed
    /\ listed' = listed \cup {n}
    /\ seen' = [seen EXCEPT ![n] = revision]
    /\ UNCHANGED <<vars, revision, reconnects, generationVars>>

\* The first list of the informer for a place: AddFunc for what exists.
List(n) ==
    /\ Alive /\ ~ctxDone /\ n \notin listed
    /\ HandOverFound(n, "create")
    /\ listed' = listed \cup {n}
    /\ seen' = [seen EXCEPT ![n] = revision]
    /\ UNCHANGED <<revision, reconnects, generationVars>>

\* The events of one place come in order; the last one may still come after
\* the worker was cancelled.
Watch(e) ==
    /\ NameOf[e] \in listed
    /\ seen[NameOf[e]] < VerOf[e] /\ VerOf[e] <= revision
    /\ \A f \in EventsAt(NameOf[e], VerOf[e] - 1) : VerOf[f] <= seen[NameOf[e]]
    /\ AddResourceObj(e)
    /\ seen' = [seen EXCEPT ![NameOf[e]] = VerOf[e]]
    /\ UNCHANGED <<revision, listed, reconnects, generationVars>>

\* The watch broke and the informer lists again: UpdateFunc for a place where it
\* knew an object, changed or not, AddFunc for another, and DeleteFunc with a
\* DeletedFinalStateUnknown for one that is gone, of which the conversion makes
\* an object without name, namespace and uid: no worker accepts it.
Reconnect(n) ==
    /\ Alive /\ ~ctxDone /\ n \in listed
    /\ reconnects < MaxReconnects
    /\ HandOverFound(n, IF ObjectAt(n, seen[n]) = {} THEN "create" ELSE "update")
    /\ seen' = [seen EXCEPT ![n] = revision]
    /\ reconnects' = reconnects + 1
    /\ UNCHANGED <<revision, listed, generationVars>>

-----------------------------------------------------------------------------
(* The end of a worker and the start of the next.                          *)

\* A new worker whose queue starts with the items q waiting for a retry.
M_StartWith(q) ==
    /\ handed' = q /\ ObjQueue' = <<>> /\ delayed' = q /\ processing' = {}
    /\ pc' = "loop" /\ err' = "ok" /\ client' = NoCluster /\ settings' = NoCluster
    /\ Versions' = [u \in Uids |-> 0]
    /\ condition' = [n \in Names |-> [status |-> "none", ver |-> 0]]
    /\ ctxDone' = FALSE /\ shuttingDown' = FALSE
    /\ listed' = {} /\ seen' = [n \in Names |-> 0]
    /\ generation' = generation + 1
    /\ old' = [u \in Uids |-> IF old[u] < Versions[u] THEN Versions[u] ELSE old[u]]
    /\ UNCHANGED <<pair, revision, reconnects, lateHit>>

\* Mutant: the retries survive, the versions they are compared with do not.
M_KeepRetries == M_StartWith(delayed)

\* NewBasicTransportManager and NewDependencyNamesapceWorker: everything but
\* the clusters is new.
StartWorker ==
    /\ handed' = {} /\ ObjQueue' = <<>> /\ delayed' = {} /\ processing' = {}
    /\ pc' = "loop" /\ err' = "ok" /\ client' = NoCluster /\ settings' = NoCluster
    /\ Versions' = [u \in Uids |-> 0]
    /\ condition' = [n \in Names |-> [status |-> "none", ver |-> 0]]
    /\ ctxDone' = FALSE /\ shuttingDown' = FALSE
    /\ listed' = {} /\ seen' = [n \in Names |-> 0]
    /\ generation' = generation + 1
    /\ old' = [u \in Uids |-> IF old[u] < Versions[u] THEN Versions[u] ELSE old[u]]
    /\ UNCHANGED <<pair, revision, reconnects, lateHit>>

\* Mutant: the item between Get and Done is taken for a request.
M_AnyCall == {[item |-> i, client |-> client, pc |-> pc] : i \in processing}

\* The call of Transport that the goroutine of the ending worker is in.
UnderWay == {r \in Requests : r.item \in processing /\ r.client = client /\ r.pc = pc}

\* ... or that it makes of the item its Get returns after the cancellation.
StillTaken ==
    {r \in Requests :
       /\ pc = "dequeue" /\ ObjQueue # <<>> /\ r.item = Head(ObjQueue)
       /\ isNewVersion(r.item) /\ r.client = settings
       /\ r.pc = IF ActOf[r.item] = "update" THEN "get" ELSE ActOf[r.item]}

\* The controller cancelled the worker and activates the namespace again; it
\* does not wait for the goroutines of the old worker.
Succeed ==
    /\ Alive /\ ctxDone /\ generation < MaxGenerations
    /\ late' = late \cup UnderWay \cup StillTaken
    /\ StartWorker

\* The process dies, by itself or by a panic, and is started again.  A write
\* that it had sent may still reach the pair cluster.
Restart ==
    /\ generation < MaxGenerations
    /\ \E sent \in {{}, {r \in UnderWay : r.pc # "get"}} : late' = late \cup sent
    /\ StartWorker

-----------------------------------------------------------------------------
(* Late requests.  Their answers reach nobody who remembers them.          *)

LateTarget(r) == pair[r.client][NameOf[r.item]]

\* The request changes the place where the server allows it.
LateWrite(r, allowed) ==
    /\ late' = late \ {r}
    /\ IF allowed /\ NameOf[r.item] \in Served
         THEN /\ pair' = [pair EXCEPT ![r.client][NameOf[r.item]] =
                            [present |-> r.pc # "delete", ver |-> VerOf[r.item]]]
              /\ lateHit' = lateHit \cup {NameOf[r.item]}
         ELSE UNCHANGED <<pair, lateHit>>

LateCall(r) ==
    /\ r \in late
    /\ \/ /\ r.pc = "get"
          /\ late' = (late \ {r}) \cup
               {[r EXCEPT !.pc = IF LateTarget(r).present THEN "patch" ELSE "create"]}
          /\ UNCHANGED <<pair, lateHit>>
       \/ r.pc = "create" /\ LateWrite(r, ~LateTarget(r).present)
       \/ r.pc \in {"patch", "delete"} /\ LateWrite(r, LateTarget(r).present)
    /\ UNCHANGED <<queueVars, processing, pc, err, client, settings, Versions,
                   condition, stopVars, revision, informerVars, generation, old>>

\* It never reaches the server.
LateLost(r) ==
    /\ "lost" \in Faults /\ r \in late
    /\ late' = late \ {r}
    /\ UNCHANGED <<vars, revision, informerVars, generation, old, lateHit>>

-----------------------------------------------------------------------------
TransportManagerStep ==
    /\ \/ \E i \in Items : DelayExpires(i) \/ transport(i)
       \/ \E c \in Clusters : SetConfig(c)
       \/ Loop \/ QueueClosed \/ Cancel \/ ShutDown
    /\ UNCHANGED <<revision, informerVars, generationVars>>

GNext ==
    \/ SourceChanges
    \/ \E n \in Names : List(n) \/ Reconnect(n)
    \/ \E e \in Events : Watch(e)
    \/ Succeed \/ Restart
    \/ \E r \in late : LateCall(r) \/ LateLost(r)
    \/ TransportManagerStep

GSpec == GInit /\ [][GNext]_gvars

-----------------------------------------------------------------------------
(* Fairness: informers list and deliver, the queue serves one item or       *)
(* another, requests are answered again and again, and a dead process is    *)
(* started again; nothing makes the controller activate a namespace again.  *)

GFairness ==
    /\ WF_vars(Loop \/ QueueClosed \/ \E i \in Items : transport(i))
    /\ WF_vars(\E i \in Items : DelayExpires(i))
    /\ SF_vars(\E i \in Items : AnsweredRequest(i))
    /\ WF_vars(settings = NoCluster /\ \E c \in Clusters : SetConfig(c))
    /\ WF_gvars(\E n \in Names : List(n))
    /\ WF_gvars(\E e \in Events : Watch(e))
    /\ WF_gvars(~Alive /\ Restart)

FairGSpec == GSpec /\ GFairness

-----------------------------------------------------------------------------
(* Properties.                                                             *)

OneCluster == \A c, d \in Clusters : c = d

\* What the theorems assume of the items: an object has one place (one that
\* lost its uid in a filter shares the empty uid with others), and the version
\* of its deletion is its last.
UidsKeepPlaces == \A i, j \in Items : UidOf[i] = UidOf[j] => NameOf[i] = NameOf[j]
DeletionIsLast ==
    \A d, e \in Events : ActOf[d] = "delete" /\ UidOf[d] = UidOf[e] => VerOf[e] <= VerOf[d]

\* A place that has only ever held one object.
OneObjectAt(n) ==
    \A e, f \in EventsAt(n, revision) : UidOf[e] = UidOf[f]

\* Every event of the source so far is known to the current worker's informers
\* and nothing is pending, not even a request of an earlier worker.
GAtRest ==
    /\ Quiescent /\ ~ctxDone /\ late = {} /\ OneCluster
    /\ Names \subseteq listed
    /\ \A e \in Events : VerOf[e] <= revision => VerOf[e] <= seen[NameOf[e]]

\* The current worker deletes what it takes for an earlier object at place n.
\* The deletion is by name: retried after the object was created again, it
\* removes the new one.
DeletesPredecessor(n) ==
    \E i \in handed : \E e \in ObjectAt(n, revision) :
      NameOf[i] = n /\ ActOf[i] = "delete" /\ UidOf[i] # UidOf[e]

Undisturbed(n) == n \in Served /\ n \notin lateHit /\ ~DeletesPredecessor(n)

\* However often the worker was replaced and its watches broke, at rest every
\* object of the source is in the pair cluster (in some version), unless a
\* request of an earlier worker reached its place late or the worker itself
\* deleted a predecessor there.
PresentAfterRelist ==
    GAtRest => \A n \in Names, c \in Clusters :
      Undisturbed(n) /\ ObjectAt(n, revision) # {} => pair[c][n].present

\* The current worker saw the change itself: it did not find its result in the
\* first list.
Watched(e) ==
    /\ e \in handed /\ ActOf[e] # "create"
    /\ ActOf[e] # "delete" => Found(e, "create") \notin handed

\* At rest an object whose last change the current worker watched is in the
\* pair cluster exactly as that change left it, whatever earlier workers had
\* or had not transported.
WatchedIsMirrored ==
    GAtRest => \A e \in Events, c \in Clusters :
      LET n == NameOf[e] IN
      Watched(e) /\ IsLatestAt(e, n, revision) /\ Undisturbed(n) /\ OneObjectAt(n) =>
        pair[c][n] = [present |-> ActOf[e] # "delete", ver |-> VerOf[e]]

\* The newest version of u that any worker has acknowledged.
EverAcknowledged(u) == IF old[u] < Versions[u] THEN Versions[u] ELSE old[u]

\* No request of the current worker takes an object back to a version older
\* than one that any worker has acknowledged.
NeverBack ==
    [][\A i \in Items, c \in Clusters :
         OneObjectAt(NameOf[i]) /\ late' = late
         /\ pair'[c][NameOf[i]] # pair[c][NameOf[i]]
           => pair'[c][NameOf[i]].ver >= EverAcknowledged(UidOf[i])]_gvars

\* An object of the source arrives in the pair cluster again and again after
\* every crash and every start of a new worker, unless the namespace is
\* deactivated for good or the place is disturbed as above.
ArrivesAfterRestart ==
    \A n \in Names :
      []<>(\/ Stopped \/ ObjectAt(n, revision) = {} \/ ~Undisturbed(n)
           \/ \E c \in Clusters : pair[c][n].present)
=============================================================================
