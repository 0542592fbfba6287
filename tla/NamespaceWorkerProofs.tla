------------------------- MODULE NamespaceWorkerProofs -------------------------
(***************************************************************************)
(* Theorems about NamespaceWorker for all values of its constants.         *)
(***************************************************************************)
EXTENDS NamespaceWorker, TransportManagerProofs, SequenceTheorems, WellFoundedInduction

-----------------------------------------------------------------------------
(* The worker uses the transport manager as TransportManager allows.       *)

\* The run goroutine reaches the transport manager only through AddResourceObj.
LEMMA RunStep ==
    ASSUME NEW i \in Items, run(i)
    PROVE  AddResourceObj(i) \/ UNCHANGED vars
BY DEF run, Ignore, PassDeletion, CheckDependencies, CheckFails, RequeueWithDependencies,
       Pass, HandOver

\* A step of the worker is a step of TransportManager or leaves it alone.
LEMMA WorkerStep == [WNext]_wvars => [Next]_vars
<1> SUFFICES ASSUME [WNext]_wvars PROVE [Next]_vars
  OBVIOUS
<1>1. ASSUME NEW i \in Items, run(i)
      PROVE  [Next]_vars
  BY <1>1, RunStep DEF Next
<1>2. CASE TransportManagerStep
  BY <1>2 DEF TransportManagerStep, Next
<1>3. ASSUME ProcessDies
      PROVE  [Next]_vars
  BY <1>3 DEF Next
<1> QED
  BY <1>1, <1>2, <1>3 DEF WNext, SourceChanges, PodMounts, Inform, CloseChannel,
     SendOnClosedChannel, ConcurrentMapAccess, WorkerLoop, WorkerShutDown, WorkerQueueClosed, wvars

\* Each behaviour of a worker is one of its transport manager: everything proved
\* about TransportManager holds inside the worker.
THEOREM WorkerUsesTransportManager == WSpec => Spec
<1>1. WInit => Init
  BY DEF WInit
<1> QED
  BY <1>1, WorkerStep, PTL DEF WSpec, Spec

-----------------------------------------------------------------------------
(* Type correctness of the worker.                                         *)

\* run decides about one item at a time, with what its checker fetched; for the
\* event of a claim that includes a copy of the volume.
CurrentState ==
    /\ wpc # "decide" => current = {} /\ fetched = {}
    /\ \A i, j \in current : i = j
    /\ \A i \in current : KindOf[ObjOf[i]] = "pvc" /\ i \in Events =>
         \E c \in fetched : ObjOf[c] = VolumeOf[ObjOf[i]]

\* A copy of a dependency that exists is an item for that object.
LEMMA CopyTyped ==
    ASSUME WorkerTypeOK, NEW i \in PassFilter, ActOf[i] # "delete",
           NEW o \in Reads(i), Exists(o)
    PROVE  LET c == Copy(o, VerOf[Latest(o)], ActOf[i])
           IN  /\ c \in Items /\ ObjOf[c] = o /\ ActOf[c] = ActOf[i]
               /\ \E e \in Events : /\ IsLatest(e, o) /\ ActOf[e] # "delete"
                                   /\ VerOf[e] = VerOf[c]
<1> USE WorkerAssumption
<1>1. PICK e \in Events : IsLatest(e, o) /\ ActOf[e] # "delete"
  BY DEF Exists
<1>2. Latest(o) \in Events /\ IsLatest(Latest(o), o)
  BY <1>1, Zenon DEF Latest
<1>3. ObjOf[e] = o /\ VerOf[Latest(o)] = VerOf[e]
  <2>1. VerOf[e] \in Nat /\ VerOf[Latest(o)] \in Nat
    BY <1>2, ItemAssumption
  <2> QED
    BY <1>1, <1>2, <2>1 DEF IsLatest, SourceEvents
<1>4. o \in MayDependOn(i)
  <2>1. ObjOf[i] \in Objects
    OBVIOUS
  <2> QED
    BY <2>1 DEF Reads, MayDependOn, WorkerTypeOK
<1> QED
  BY <1>1, <1>3, <1>4, CopyAssumption

\* The worker starts with empty queues.
LEMMA WInitTyped == WInit => WorkerTypeOK /\ CurrentState
BY WorkerAssumption DEF WInit, WorkerTypeOK, CurrentState

\* What a dequeued item is, and what the queues keep.
LEMMA TakeTyped ==
    ASSUME WorkerTypeOK, NEW i \in Items, Take(i)
    PROVE  /\ fresh' \in Seq(Items) /\ retrying' \subseteq Items /\ delivered' \subseteq Events
           /\ wpc = "dequeue" /\ closed' = closed
BY HeadTailProperties DEF Take, WorkerTypeOK

\* Appending an item to the queue of fresh items, unless it is there.
LEMMA FreshTyped ==
    ASSUME WorkerTypeOK, NEW c \in Items
    PROVE  (IF QueueOpen /\ ~IsFresh(c) THEN Append(fresh, c) ELSE fresh) \in Seq(Items)
BY DEF WorkerTypeOK

\* Each step of the run goroutine keeps every variable in its type.
LEMMA RunTyped ==
    ASSUME WorkerTypeOK, CurrentState, NEW i \in Items, run(i)
    PROVE  WorkerTypeOK' /\ CurrentState'
<1> USE WorkerAssumption
<1>1. CASE Ignore(i)
  BY <1>1, TakeTyped DEF Ignore, WorkerTypeOK, CurrentState, sourceVars
<1>2. CASE PassDeletion(i)
  BY <1>2, TakeTyped DEF PassDeletion, Accepted, WorkerTypeOK, CurrentState, sourceVars
<1>3. CASE CheckDependencies(i)
  <2>1. Take(i) /\ i \in PassFilter /\ ActOf[i] # "delete" /\ \A o \in Reads(i) : Exists(o)
    BY <1>3 DEF CheckDependencies, Accepted
  <2>2. \A c \in fetched' : c \in Items
    BY <1>3, <2>1, CopyTyped DEF CheckDependencies
  <2>3. \A o \in Reads(i) : \E c \in fetched' : ObjOf[c] = o
    BY <1>3, <2>1, CopyTyped DEF CheckDependencies
  <2>4. current' = {i} /\ wpc' = "decide"
    BY <1>3 DEF CheckDependencies
  <2>5. CurrentState'
    BY <2>3, <2>4 DEF CurrentState, Reads
  <2> QED
    BY <1>3, <2>1, <2>2, <2>4, <2>5, TakeTyped
       DEF CheckDependencies, Accepted, WorkerTypeOK, sourceVars
<1>4. CASE CheckFails(i)
  BY <1>4, TakeTyped DEF CheckFails, Accepted, WorkerTypeOK, CurrentState, sourceVars
<1>5. CASE RequeueWithDependencies(i)
  <2>1. PICK c \in Items :
          /\ fresh' = IF QueueOpen /\ ~IsFresh(c) THEN Append(fresh, c) ELSE fresh
          /\ dependencies' = dependencies \cup {SourceUid[ObjOf[c]]}
    BY <1>5 DEF RequeueWithDependencies, Returned, NotTransported, WorkerTypeOK
  <2>2. fresh' \in Seq(Items) /\ dependencies' \subseteq Uids
    BY <2>1, FreshTyped DEF WorkerTypeOK
  <2> QED
    BY <1>5, <2>2 DEF RequeueWithDependencies, WorkerTypeOK, CurrentState, sourceVars
<1>6. CASE Pass(i)
  BY <1>6 DEF Pass, WorkerTypeOK, CurrentState, sourceVars, inVars
<1> QED
  BY <1>1, <1>2, <1>3, <1>4, <1>5, <1>6 DEF run

\* Each step of a worker keeps every variable in its type.
LEMMA WNextTyped ==
    WorkerTypeOK /\ CurrentState /\ [WNext]_wvars => (WorkerTypeOK /\ CurrentState)'
<1> SUFFICES ASSUME WorkerTypeOK, CurrentState, [WNext]_wvars
             PROVE  (WorkerTypeOK /\ CurrentState)'
  OBVIOUS
<1> USE WorkerAssumption DEF CurrentState
<1>1. CASE SourceChanges
  BY <1>1 DEF SourceChanges, WorkerTypeOK, inVars, runVars
<1>2. ASSUME NEW o \in Objects, PodMounts(o)
      PROVE  (WorkerTypeOK /\ CurrentState)'
  BY <1>2 DEF PodMounts, WorkerTypeOK, inVars, runVars
<1>3. ASSUME NEW e \in Events, Inform(e)
      PROVE  (WorkerTypeOK /\ CurrentState)'
  BY <1>3 DEF Inform, WorkerTypeOK, sourceVars, runVars
<1>4. ASSUME NEW i \in Items, run(i)
      PROVE  (WorkerTypeOK /\ CurrentState)'
  BY <1>4, RunTyped
<1>5. CASE WorkerLoop \/ WorkerQueueClosed \/ WorkerShutDown \/ CloseChannel
  BY <1>5 DEF WorkerLoop, WorkerQueueClosed, WorkerShutDown, CloseChannel, WorkerTypeOK,
              sourceVars, inVars, runVars
<1>6. CASE UNCHANGED workerVars
  BY <1>6 DEF WorkerTypeOK, workerVars, sourceVars, inVars, runVars
<1> QED
  BY <1>1, <1>2, <1>3, <1>4, <1>5, <1>6 DEF WNext, TransportManagerStep, SendOnClosedChannel,
     ConcurrentMapAccess, wvars

\* The worker's type invariant holds at every state; run decides about at most
\* one item at a time.
THEOREM WorkerTypeCorrect == WSpec => [](WorkerTypeOK /\ CurrentState)
BY WInitTyped, WNextTyped, PTL DEF WSpec

-----------------------------------------------------------------------------
(* No event is lost between the informer and the transport manager.        *)

\* An event that the worker has to pass on, and where it is kept.
Concerns(e) == ObjOf[e] \in InNamespace /\ e \in PassFilter

Kept(e) == IsFresh(e) \/ e \in retrying \cup current \cup handed \cup dropped

\* Appending to the queue of fresh items keeps what is in it.
LEMMA AppendKeepsFresh ==
    ASSUME WorkerTypeOK, NEW c \in Items, fresh' = Append(fresh, c)
    PROVE  /\ \A e \in Items : IsFresh(e) => IsFresh(e)'
           /\ IsFresh(c)'
<1>1. fresh \in Seq(Items) /\ Len(fresh) \in Nat
  BY DEF WorkerTypeOK
<1>2. /\ Len(fresh') = Len(fresh) + 1 /\ fresh'[Len(fresh) + 1] = c
      /\ \A k \in 1..Len(fresh) : fresh'[k] = fresh[k] /\ k \in 1..Len(fresh')
  BY <1>1
<1> QED
  BY <1>1, <1>2 DEF IsFresh

\* Taking an item out of a queue leaves the other items where they are.
LEMMA TakeKeepsOthers ==
    ASSUME WorkerTypeOK, NEW i \in Items, Take(i), NEW e \in Items \ {i},
           IsFresh(e) \/ e \in retrying
    PROVE  (IsFresh(e) => IsFresh(e)') /\ (e \in retrying => e \in retrying')
<1>1. CASE fresh # <<>> /\ i = Head(fresh) /\ fresh' = Tail(fresh) /\ UNCHANGED retrying
  <2>1. fresh \in Seq(Items)
    BY DEF WorkerTypeOK
  <2>2. \A k \in 1..Len(fresh) : fresh[k] = Head(fresh)
          \/ \E m \in 1..Len(Tail(fresh)) : Tail(fresh)[m] = fresh[k]
    BY <1>1, <2>1, TailElements
  <2> QED
    BY <1>1, <2>2 DEF IsFresh
<1>2. CASE i \in retrying /\ retrying' = retrying \ {i} /\ UNCHANGED fresh
  BY <1>2 DEF IsFresh
<1> QED
  BY <1>1, <1>2 DEF Take

\* Once handed over, an item stays handed over.
LEMMA HandedGrows == [WNext]_wvars => handed \subseteq handed'
<1>1. Next => handed \subseteq handed'
  BY DEF Next, AddResourceObj, DelayExpires, transport, SetConfig, Loop, QueueClosed, Cancel,
         ShutDown, ProcessDies, SkipOldVersion, StartTransport, FinishTransport, GetTarget, GetTargetFails,
         RequestLost, CreateTarget, PatchTarget, DeleteTarget, queueVars
<1>2. UNCHANGED vars => handed \subseteq handed'
  BY DEF vars, queueVars
<1> QED
  BY <1>1, <1>2, WorkerStep

\* run keeps each event it has to pass on: a requeue, a decision or a failed
\* check puts it in another place, never nowhere.
LEMMA RunKeeps ==
    ASSUME WorkerTypeOK, CurrentState, QueueOpen, NEW i \in Items, run(i), [WNext]_wvars,
           NEW e \in Items, Concerns(e), Kept(e)
    PROVE  Kept(e)'
<1>0. handed \subseteq handed'
  BY HandedGrows
<1>h. ASSUME HandOver(i) PROVE i \in handed'
  BY <1>h, <1>0 DEF HandOver, AddResourceObj
<1>1. ASSUME Take(i), UNCHANGED current \/ current = {},
             e = i => i \in current' \cup handed' \cup dropped',
             dropped \subseteq dropped'
      PROVE  Kept(e)'
  BY <1>0, <1>1, TakeKeepsOthers DEF Kept
<1>2. CASE Ignore(i)
  BY <1>1, <1>2 DEF Ignore, Concerns, InScope
<1>3. CASE PassDeletion(i)
  BY <1>1, <1>3, <1>h DEF PassDeletion, Accepted
<1>4. CASE CheckDependencies(i)
  BY <1>1, <1>4 DEF CheckDependencies, Accepted, CurrentState, Take
<1>5. CASE CheckFails(i)
  BY <1>1, <1>5 DEF CheckFails, Accepted
<1>6. CASE RequeueWithDependencies(i)
  <2>1. PICK c \in Items : fresh' = IF QueueOpen /\ ~IsFresh(c) THEN Append(fresh, c) ELSE fresh
    BY <1>6 DEF RequeueWithDependencies, Returned, NotTransported, WorkerTypeOK
  <2>2. IsFresh(e) => IsFresh(e)'
    BY <2>1, AppendKeepsFresh DEF IsFresh
  <2> QED
    BY <1>0, <1>6, <2>2 DEF RequeueWithDependencies, Kept, CurrentState
<1>7. CASE Pass(i)
  BY <1>0, <1>7, <1>h DEF Pass, Kept, CurrentState, inVars, IsFresh
<1> QED
  BY <1>2, <1>3, <1>4, <1>5, <1>6, <1>7 DEF run

\* An event of the worker's namespace that passes the filters is queued, under
\* decision, handed over, or was given up by a failed dependency check.
THEOREM EventsAreKept == WSpec => []NoEventLost
<1>1. WInit => NoEventLost
  BY DEF WInit, NoEventLost
<1>2. WorkerTypeOK /\ CurrentState /\ NoEventLost /\ [WNext]_wvars => NoEventLost'
  <2> SUFFICES ASSUME WorkerTypeOK, CurrentState, NoEventLost, [WNext]_wvars,
                      NEW e \in delivered', Concerns(e), QueueOpen'
               PROVE  Kept(e)'
    BY DEF NoEventLost, Concerns, Kept
  <2> USE WorkerAssumption
  <2>c. closed \subseteq closed' /\ QueueOpen
    <3>1. \A i \in Items : run(i) => closed' = closed
      BY DEF run, Ignore, PassDeletion, CheckDependencies, CheckFails, Accepted, Take,
             RequeueWithDependencies, Pass, inVars, runVars
    <3>2. closed \subseteq closed'
      BY <3>1 DEF WNext, TransportManagerStep, SendOnClosedChannel, ConcurrentMapAccess, wvars,
         workerVars, SourceChanges, PodMounts, Inform, CloseChannel, WorkerLoop, WorkerShutDown,
         WorkerQueueClosed
    <3> QED
      BY <3>2 DEF QueueOpen
  <2>0. QueueOpen /\ handed \subseteq handed' /\ (e \in delivered => e \in Items /\ Kept(e))
    BY <2>c, HandedGrows DEF NoEventLost, Concerns, Kept, WorkerTypeOK
  <2>1. CASE SourceChanges
    BY <2>0, <2>1 DEF SourceChanges, Kept, IsFresh, inVars, runVars
  <2>2. ASSUME NEW o \in Objects, PodMounts(o)
        PROVE  Kept(e)'
    BY <2>0, <2>2 DEF PodMounts, Kept, IsFresh, inVars, runVars
  <2>3. ASSUME NEW d \in Events, Inform(d)
        PROVE  Kept(e)'
    <3>1. fresh' = Append(fresh, d) /\ delivered' = delivered \cup {d} /\ d \in Items
      BY <2>0, <2>3 DEF Inform
    <3>2. CASE e = d
      BY <3>1, <3>2, AppendKeepsFresh DEF Kept
    <3>3. CASE e \in delivered
      <4>1. IsFresh(e) => IsFresh(e)'
        BY <2>0, <3>1, <3>3, AppendKeepsFresh
      <4> QED
        BY <2>0, <2>3, <3>3, <4>1 DEF Inform, Kept, runVars
    <3> QED
      BY <3>1, <3>2, <3>3
  <2>4. ASSUME NEW i \in Items, run(i)
        PROVE  Kept(e)'
    <3>1. delivered' = delivered
      BY <2>4 DEF run, Ignore, PassDeletion, CheckDependencies, CheckFails, Accepted, Take,
                  RequeueWithDependencies, Pass, inVars
    <3> QED
      BY <2>0, <2>4, <3>1, RunKeeps
  <2>5. CASE WorkerLoop \/ WorkerQueueClosed \/ WorkerShutDown \/ CloseChannel
    BY <2>0, <2>5 DEF WorkerLoop, WorkerQueueClosed, WorkerShutDown, CloseChannel, Kept, IsFresh,
                      inVars, runVars
  <2>6. CASE UNCHANGED workerVars
    BY <2>0, <2>6 DEF Kept, IsFresh, workerVars, inVars, runVars
  <2> QED
    BY <2>1, <2>2, <2>3, <2>4, <2>5, <2>6 DEF WNext, TransportManagerStep, SendOnClosedChannel,
       ConcurrentMapAccess, wvars
<1> QED
  BY <1>1, <1>2, WorkerTypeCorrect, PTL DEF WSpec

-----------------------------------------------------------------------------
(* Volumes before claims.  First, what the pair cluster holds in places     *)
(* that were free at the start.                                            *)

\* Such a place was written by an item that was handed over and no deletion.
WrittenIsHanded ==
    \A c \in Clusters, n \in Names \ Preexisting : pair[c][n].ver > 0 =>
      n \in Served /\ \E j \in handed : NameOf[j] = n /\ ActOf[j] # "delete"

\* When a request went well or found its target, the target was written.
OutcomeIsWritten ==
    pc = "done" /\ err # "failed" => \A i \in processing :
      client \in Clusters /\ (NameOf[i] \in Preexisting \/ Target(i).ver > 0)

\* An acknowledged object was written.
AcknowledgedIsWritten ==
    \A u \in Uids : Versions[u] # 0 =>
      \E j \in Items : /\ UidOf[j] = u
                       /\ \/ NameOf[j] \in Preexisting
                          \/ \E c \in Clusters : pair[c][NameOf[j]].ver > 0

\* What was written stays written.
LEMMA WrittenStays ==
    ASSUME IInv, [Next]_vars, NEW c \in Clusters, NEW n \in Names, pair[c][n].ver > 0
    PROVE  pair'[c][n].ver > 0
<1>1. ASSUME NEW i \in processing, SetTarget(i, ActOf[i] # "delete"), client \in Clusters
      PROVE  pair'[c][n].ver > 0
  <2>1. i \in Items /\ VerOf[i] > 0
    BY ItemAssumption DEF IInv, TypeOK
  <2>2. pair'[c][n] = IF c = client /\ n = NameOf[i]
                        THEN [present |-> ActOf[i] # "delete", ver |-> VerOf[i]]
                        ELSE pair[c][n]
    BY <1>1, <2>1, SetTargetValue DEF IInv
  <2> QED BY <2>1, <2>2
<1> QED BY <1>1, WriteStep DEF IInv, CallState

\* A deletion only writes over what another item wrote before.
LEMMA WrittenIsHandedStep ==
    ASSUME IInv, WrittenIsHanded, [Next]_vars
    PROVE  WrittenIsHanded'
<1> SUFFICES ASSUME NEW c \in Clusters, NEW n \in Names \ Preexisting, pair'[c][n].ver > 0
             PROVE  n \in Served /\ \E j \in handed' : NameOf[j] = n /\ ActOf[j] # "delete"
  BY DEF WrittenIsHanded
<1>0. handed \subseteq handed'
  BY HandedStep DEF AddResourceObj
<1>1. CASE pair[c][n].ver > 0
  BY <1>0, <1>1 DEF WrittenIsHanded
<1>2. CASE ~(pair[c][n].ver > 0)
  <2>1. PICK i \in processing :
          SetTarget(i, ActOf[i] # "delete") /\ NameOf[i] \in Served /\ client \in Clusters
    BY <1>2, WriteStep DEF IInv, CallState
  <2>2. i \in Items /\ i \in handed
    BY <2>1 DEF IInv, TypeOK, OneAtATime
  <2>3. c = client /\ n = NameOf[i]
    BY <1>2, <2>1, <2>2, SetTargetValue DEF IInv
  <2>4. ActOf[i] # "delete"
    <3> SUFFICES ASSUME ActOf[i] = "delete" PROVE FALSE
      OBVIOUS
    <3>1. ASSUME NEW k \in Items, NEW f \in Fates,
                 CreateTarget(k, f) \/ PatchTarget(k, f) \/ DeleteTarget(k, f)
          PROVE  DeleteTarget(i, f)
      BY <2>2, <3>1, <2>1 DEF CreateTarget, PatchTarget, DeleteTarget, IInv, OneAtATime, CallState, CallFits
    <3>2. PICK f \in Fates : DeleteTarget(i, f)
      <4>1. ~UNCHANGED pair
        BY <1>2
      <4> QED BY <3>1, <4>1
              DEF Next, transport, AddResourceObj, DelayExpires, SetConfig, Loop, QueueClosed,
                  ProcessDies, Cancel, ShutDown, SkipOldVersion, StartTransport, FinishTransport, GetTarget,
                  GetTargetFails, RequestLost, vars
    <3>3. Target(i).present
      BY <3>2, <1>2 DEF DeleteTarget
    <3>4. PICK j \in Items : VerOf[j] = pair[c][n].ver
      BY <2>1, <2>3, <3>3 DEF Target, IInv, PresentIsWritten
    <3> QED BY <1>2, <3>4, ItemAssumption
  <2> QED BY <1>0, <2>1, <2>2, <2>3, <2>4
<1> QED BY <1>1, <1>2

\* "already exists" is only answered for what existed before or was written.
LEMMA OutcomeIsWrittenStep ==
    ASSUME IInv, OutcomeIsWritten, [Next]_vars
    PROVE  OutcomeIsWritten'
<1> USE DEF OutcomeIsWritten
<1>i. TypeOK /\ OneAtATime /\ CallState /\ PresentIsWritten
  BY DEF IInv
<1>1. ASSUME NEW i \in Items,
             AddResourceObj(i) \/ DelayExpires(i) \/ SkipOldVersion(i) \/ FinishTransport(i)
      PROVE  OutcomeIsWritten'
  BY <1>1 DEF AddResourceObj, DelayExpires, SkipOldVersion, FinishTransport, Target
<1>2. ASSUME NEW i \in Items, StartTransport(i) PROVE OutcomeIsWritten'
  BY <1>2, ItemAssumption DEF StartTransport, ObjectAction
<1>3. ASSUME NEW i \in Items, GetTarget(i) \/ GetTargetFails(i) \/ RequestLost(i)
      PROVE  OutcomeIsWritten'
  BY <1>3 DEF GetTarget, GetTargetFails, RequestLost
<1>4. ASSUME NEW i \in Items, NEW f \in Fates,
             CreateTarget(i, f) \/ PatchTarget(i, f) \/ DeleteTarget(i, f),
             err' # "failed"
      PROVE  OutcomeIsWritten'
  <2>1. /\ processing = {i} /\ processing' = {i} /\ client \in Clusters /\ client' = client
    BY <1>4, <1>i DEF CreateTarget, PatchTarget, DeleteTarget, OneAtATime, CallState, CallFits, Calls
  <2>2. ASSUME NEW there \in BOOLEAN, SetTarget(i, there)
        PROVE  pair'[client'][NameOf[i]].ver > 0
    <3>1. pair'[client][NameOf[i]] = [present |-> there, ver |-> VerOf[i]]
      BY <1>i, <2>1, <2>2, SetTargetValue, ItemAssumption
    <3> QED BY <2>1, <3>1, ItemAssumption
  <2>3. CASE SetTarget(i, TRUE) \/ SetTarget(i, FALSE)
    BY <2>1, <2>2, <2>3 DEF Target
  <2>4. CASE ~(SetTarget(i, TRUE) \/ SetTarget(i, FALSE))
    <3>1. pair' = pair /\ Target(i).present
      BY <1>4, <2>4 DEF CreateTarget, PatchTarget, DeleteTarget, Answer
    <3>2. NameOf[i] \in Preexisting \/ \E j \in Items : VerOf[j] = Target(i).ver
      BY <1>i, <2>1, <3>1, ItemAssumption DEF PresentIsWritten, Target
    <3> QED BY <2>1, <3>1, <3>2, ItemAssumption DEF Target
  <2> QED BY <2>3, <2>4
<1>5. ASSUME NEW i \in Items, NEW f \in Fates,
             CreateTarget(i, f) \/ PatchTarget(i, f) \/ DeleteTarget(i, f)
      PROVE  OutcomeIsWritten'
  BY <1>4, <1>5
<1>6. ASSUME NEW c \in Clusters, SetConfig(c) PROVE OutcomeIsWritten'
  BY <1>6 DEF SetConfig, Target
<1>7. CASE Loop \/ QueueClosed \/ ProcessDies
  BY <1>7 DEF Loop, QueueClosed, ProcessDies
<1>8. CASE Cancel \/ ShutDown \/ UNCHANGED vars
  BY <1>8 DEF Cancel, ShutDown, vars, Target
<1> QED BY <1>1, <1>2, <1>3, <1>5, <1>6, <1>7, <1>8 DEF Next, transport

\* Only a good outcome is acknowledged.
LEMMA AcknowledgedIsWrittenStep ==
    ASSUME IInv, OutcomeIsWritten, AcknowledgedIsWritten, [Next]_vars
    PROVE  AcknowledgedIsWritten'
<1> SUFFICES ASSUME NEW u \in Uids, Versions'[u] # 0
             PROVE  \E j \in Items : /\ UidOf[j] = u
                                     /\ \/ NameOf[j] \in Preexisting
                                        \/ \E c \in Clusters : pair'[c][NameOf[j]].ver > 0
  BY DEF AcknowledgedIsWritten
<1>1. CASE Versions[u] # 0
  <2>1. PICK j \in Items : /\ UidOf[j] = u
                           /\ \/ NameOf[j] \in Preexisting
                              \/ \E c \in Clusters : pair[c][NameOf[j]].ver > 0
    BY <1>1 DEF AcknowledgedIsWritten
  <2> QED BY <2>1, WrittenStays, ItemAssumption
<1>2. CASE Versions[u] = 0
  <2>1. PICK i \in Items : FinishTransport(i)
    BY <1>2, VersionStep
  <2>2. i \in processing /\ pc = "done" /\ err # "failed" /\ pair' = pair /\ u = UidOf[i]
    BY <1>2, <2>1 DEF FinishTransport, IInv, TypeOK
  <2> QED BY <2>2 DEF OutcomeIsWritten, Target
<1> QED BY <1>1, <1>2

\* The three facts hold at every state of a transport manager.
LEMMA WrittenInvariant ==
    Spec => [](IInv /\ WrittenIsHanded /\ OutcomeIsWritten /\ AcknowledgedIsWritten)
<1>1. Init => WrittenIsHanded /\ OutcomeIsWritten /\ AcknowledgedIsWritten
  BY DEF Init, WrittenIsHanded, OutcomeIsWritten, AcknowledgedIsWritten, Absent
<1>2. IInv /\ WrittenIsHanded /\ OutcomeIsWritten /\ AcknowledgedIsWritten /\ [Next]_vars
        => (WrittenIsHanded /\ OutcomeIsWritten /\ AcknowledgedIsWritten)'
  BY WrittenIsHandedStep, OutcomeIsWrittenStep, AcknowledgedIsWrittenStep
<1> QED BY <1>1, <1>2, InductiveInvariant, PTL DEF Spec

-----------------------------------------------------------------------------
(* Second, what the worker hands over.                                     *)

\* A claim from an informer is handed over after its volume was acknowledged.
VolumeAcknowledged ==
    \A i \in handed :
      ObjOf[i] \in Claims /\ i \in Events /\ ActOf[i] # "delete" =>
        IsResourceTransported(SourceUid[VolumeOf[ObjOf[i]]])

\* An acknowledged uid stays acknowledged.
LEMMA TransportedStays ==
    ASSUME IInv, [Next]_vars, NEW u \in Uids, IsResourceTransported(u)
    PROVE  IsResourceTransported(u)'
<1>1. CASE UNCHANGED Versions
  BY <1>1 DEF IsResourceTransported
<1>2. ASSUME NEW i \in Items, FinishTransport(i)
      PROVE  IsResourceTransported(u)'
  <2>1. Versions' = Versions \/ Versions' = [Versions EXCEPT ![UidOf[i]] = VerOf[i]]
    BY <1>2 DEF FinishTransport
  <2> QED BY <2>1, ItemAssumption DEF IsResourceTransported, IInv, TypeOK
<1> QED BY <1>1, <1>2, VersionStep

\* Only a deletion and an item whose dependencies are transported are handed over.
LEMMA VolumeAcknowledgedStep ==
    ASSUME IInv, WorkerTypeOK, CurrentState, VolumeAcknowledged, [WNext]_wvars
    PROVE  VolumeAcknowledged'
<1> SUFFICES ASSUME NEW e \in handed', ObjOf[e] \in Claims, e \in Events, ActOf[e] # "delete"
             PROVE  IsResourceTransported(SourceUid[VolumeOf[ObjOf[e]]])'
  BY DEF VolumeAcknowledged
<1> USE WorkerAssumption
<1>0. SourceUid[VolumeOf[ObjOf[e]]] \in Uids /\ [Next]_vars
  BY WorkerStep DEF Claims
<1>1. CASE e \in handed
  BY <1>0, <1>1, TransportedStays DEF VolumeAcknowledged
<1>2. CASE e \notin handed
  <2>1. PICK i \in Items : run(i)
    <3>1. TransportManagerStep => handed' = handed
      BY DEF TransportManagerStep, DelayExpires, transport, SetConfig, Loop, QueueClosed, Cancel,
             ShutDown, SkipOldVersion, StartTransport, FinishTransport, GetTarget, GetTargetFails,
             RequestLost, CreateTarget, PatchTarget, DeleteTarget, queueVars
    <3>2. ProcessDies => handed' = handed
      BY DEF ProcessDies, queueVars
    <3> QED BY <1>2, <3>1, <3>2 DEF WNext, SendOnClosedChannel, ConcurrentMapAccess,
                              SourceChanges, PodMounts, Inform, CloseChannel, WorkerLoop,
                              WorkerShutDown, WorkerQueueClosed, wvars, vars, queueVars
  <2>2. AddResourceObj(i) /\ e = i
    BY <1>2, <2>1, RunStep DEF AddResourceObj, vars, queueVars
  <2>3. Pass(i)
    BY <1>2, <2>1, <2>2 DEF run, Ignore, PassDeletion, Accepted, CheckDependencies, CheckFails,
                            RequeueWithDependencies, vars, queueVars
  <2>4. PICK c \in fetched : ObjOf[c] = VolumeOf[ObjOf[e]]
    BY <2>2, <2>3 DEF Pass, CurrentState, Claims
  <2>5. NotTransported(fetched) = {}
    BY <2>2, <2>3 DEF Pass, Returned, Claims
  <2>6. IsResourceTransported(SourceUid[ObjOf[c]])
    BY <2>5 DEF NotTransported
  <2> QED BY <1>0, <2>4, <2>6, TransportedStays DEF IInv
<1> QED BY <1>1, <1>2

-----------------------------------------------------------------------------
(* The theorem.                                                            *)

\* A claim in the pair cluster was handed over as an event, after its volume
\* was acknowledged, which means written.
LEMMA WrittenVolume ==
    ASSUME PlacesAreOwn, TypeOK, WrittenIsHanded, AcknowledgedIsWritten, VolumeAcknowledged
    PROVE  VolumeUnderClaim
<1> USE WorkerAssumption, ItemAssumption
<1> SUFFICES ASSUME \A c, d \in Clusters : c = d,
                    NEW o \in Claims, NEW c \in Clusters, Written(o, c)
             PROVE  Written(VolumeOf[o], c)
  BY DEF VolumeUnderClaim
<1>1. PICK i \in ItemsOf(o) : pair[c][NameOf[i]].ver > 0
  BY DEF Written
<1>2. i \in Items /\ ObjOf[i] = o /\ NameOf[i] \in Names \ Preexisting
  BY DEF ItemsOf, Claims, PlacesAreOwn
<1>3. PICK j \in handed : NameOf[j] = NameOf[i] /\ NameOf[j] \in Served /\ ActOf[j] # "delete"
  BY <1>1, <1>2 DEF WrittenIsHanded
<1>4. j \in Items /\ ObjOf[j] = o /\ j \in Events
  BY <1>2, <1>3 DEF PlacesAreOwn, TypeOK
<1>5. IsResourceTransported(SourceUid[VolumeOf[o]])
  BY <1>3, <1>4 DEF VolumeAcknowledged
<1>6. VolumeOf[o] \in Objects /\ KindOf[VolumeOf[o]] = "pv" /\ SourceUid[VolumeOf[o]] \in Uids
  BY DEF Claims
<1>7. PICK k \in Items : /\ UidOf[k] = SourceUid[VolumeOf[o]]
                         /\ \/ NameOf[k] \in Preexisting
                            \/ \E d \in Clusters : pair[d][NameOf[k]].ver > 0
  BY <1>5, <1>6 DEF AcknowledgedIsWritten, IsResourceTransported
<1>8. ObjOf[k] = VolumeOf[o] /\ NameOf[k] \notin Preexisting
  BY <1>6, <1>7 DEF PlacesAreOwn
<1> QED BY <1>7, <1>8 DEF Written, ItemsOf

\* A claim is never in the pair cluster before the volume it is bound to.
THEOREM VolumesFirst ==
    ASSUME PlacesAreOwn
    PROVE  WSpec => []VolumeUnderClaim
<1>1. WInit => VolumeAcknowledged
  BY DEF WInit, Init, VolumeAcknowledged
<1>2. WSpec => []VolumeAcknowledged
  <2>1. IInv /\ WorkerTypeOK /\ CurrentState /\ VolumeAcknowledged /\ [WNext]_wvars
          => VolumeAcknowledged'
    BY VolumeAcknowledgedStep
  <2> QED BY <1>1, <2>1, WorkerUsesTransportManager, WrittenInvariant, WorkerTypeCorrect, PTL
          DEF WSpec
<1>3. IInv /\ WrittenIsHanded /\ AcknowledgedIsWritten /\ VolumeAcknowledged
        => VolumeUnderClaim
  BY WrittenVolume DEF IInv
<1> QED BY <1>2, <1>3, WorkerUsesTransportManager, WrittenInvariant, PTL

-----------------------------------------------------------------------------
(* Deletions.  First, what the worker deals with happened at the source.    *)

\* What an item tells was so at some time: it is an event of the past, or a copy
\* of what an event left.
Happened(i) ==
    \E e \in SourceEvents(ObjOf[i]) :
      /\ VerOf[e] = VerOf[i]
      /\ i = e \/ (ActOf[e] # "delete" /\ ActOf[i] # "delete")

FreshItems == {fresh[k] : k \in 1..Len(fresh)}

Held == FreshItems \cup retrying \cup current \cup fetched \cup handed

HistoryIsTrue ==
    /\ \A e \in delivered : VerOf[e] <= revision
    /\ \A i \in Held : Happened(i)

\* Only what passed the filters is kept on, a deletion is passed on at once, and
\* nothing is closed before the cancellation.
OnlyAccepted ==
    /\ current \cup handed \subseteq PassFilter
    /\ \A i \in current \cup fetched \cup dropped : ActOf[i] # "delete"
    /\ closed # {} => ctxDone

\* What neither informers nor the run goroutine do.
Aside ==
    /\ UNCHANGED <<delivered, fresh, retrying, current, fetched, dependencies, dropped, handed>>
    /\ revision' \in {revision, revision + 1} /\ closed \subseteq closed'
    /\ closed' = closed \/ ctxDone

\* A step is one of an informer, of the run goroutine, or aside.
LEMMA StepKinds ==
    ASSUME WorkerTypeOK, [WNext]_wvars
    PROVE  \/ \E e \in Events : Inform(e)
           \/ \E i \in Items : run(i)
           \/ Aside
<1>1. TransportManagerStep => handed' = handed
  BY DEF TransportManagerStep, DelayExpires, transport, SetConfig, Loop, QueueClosed, Cancel,
         ShutDown, SkipOldVersion, StartTransport, FinishTransport, GetTarget, GetTargetFails,
         RequestLost, CreateTarget, PatchTarget, DeleteTarget, queueVars
<1>2. CASE TransportManagerStep
  BY <1>1, <1>2 DEF Aside, TransportManagerStep, workerVars, sourceVars, inVars, runVars
<1>3. CASE (ProcessDies /\ UNCHANGED workerVars) \/ UNCHANGED wvars
  BY <1>3 DEF Aside, ProcessDies, wvars, workerVars, sourceVars, inVars, runVars, vars, queueVars
<1>4. CASE SourceChanges \/ \E o \in Objects : PodMounts(o)
  BY <1>4 DEF Aside, SourceChanges, PodMounts, inVars, runVars, vars, queueVars
<1>5. CASE WorkerLoop \/ WorkerQueueClosed \/ WorkerShutDown \/ CloseChannel
  BY <1>5 DEF Aside, WorkerLoop, WorkerQueueClosed, WorkerShutDown, CloseChannel, sourceVars,
              inVars, runVars, vars, queueVars
<1> QED
  BY <1>2, <1>3, <1>4, <1>5 DEF WNext, SendOnClosedChannel, ConcurrentMapAccess

\* run hands over at most its item, and leaves the source and the informers alone.
LEMMA RunFrame ==
    ASSUME NEW i \in Items, run(i)
    PROVE  /\ UNCHANGED <<revision, mounted, delivered, closed>>
           /\ handed' = handed \/ handed' = handed \cup {i}
<1>1. HandOver(i) => handed' = handed \/ handed' = handed \cup {i}
  BY DEF HandOver, AddResourceObj, vars, queueVars
<1> QED
  BY <1>1 DEF run, Ignore, PassDeletion, CheckDependencies, CheckFails, RequeueWithDependencies,
     Pass, Accepted, Take, sourceVars, inVars, vars, queueVars

\* Taking an item adds nothing to the queues it comes from.
LEMMA TakeFromQueues ==
    ASSUME WorkerTypeOK, CurrentState, NEW i \in Items, Take(i)
    PROVE  /\ current = {} /\ fetched = {}
           /\ i \in FreshItems \cup retrying
           /\ FreshItems' \subseteq FreshItems
           /\ retrying' \subseteq retrying
<1>1. current = {} /\ fetched = {} /\ fresh \in Seq(Items)
  BY DEF Take, CurrentState, WorkerTypeOK
<1>2. CASE fresh # <<>> /\ i = Head(fresh) /\ fresh' = Tail(fresh) /\ UNCHANGED retrying
  BY <1>1, <1>2, TailElements DEF FreshItems
<1>3. CASE i \in retrying /\ retrying' = retrying \ {i} /\ UNCHANGED fresh
  BY <1>1, <1>3 DEF FreshItems
<1> QED
  BY <1>2, <1>3, <1>1 DEF Take

\* What a requeue adds to the queue of fresh items and to the dependencies.
LEMMA RequeueEffect ==
    ASSUME WorkerTypeOK, NEW i \in Items, RequeueWithDependencies(i)
    PROVE  \E c \in fetched :
             /\ c \in Items /\ dependencies' = dependencies \cup {SourceUid[ObjOf[c]]}
             /\ FreshItems' \subseteq FreshItems \cup {c}
             /\ \A e \in Items : IsFresh(e) => IsFresh(e)'
             /\ retrying' \subseteq retrying \cup {i}
             /\ i \in current /\ current' = {} /\ fetched' = {}
             /\ UNCHANGED <<handed, dropped>>
<1>1. PICK copies \in Returned(i) : \E c \in NotTransported(copies) :
         /\ fresh' = IF QueueOpen /\ ~IsFresh(c) THEN Append(fresh, c) ELSE fresh
         /\ dependencies' = dependencies \cup {SourceUid[ObjOf[c]]}
  BY DEF RequeueWithDependencies
<1>2. PICK c \in fetched :
         /\ fresh' = IF QueueOpen /\ ~IsFresh(c) THEN Append(fresh, c) ELSE fresh
         /\ dependencies' = dependencies \cup {SourceUid[ObjOf[c]]}
  BY <1>1 DEF Returned, NotTransported
<1>3. c \in Items /\ fresh \in Seq(Items)
  BY DEF WorkerTypeOK
<1>4. FreshItems' \subseteq FreshItems \cup {c}
  BY <1>2, <1>3, AppendElements DEF FreshItems
<1>5. \A e \in Items : IsFresh(e) => IsFresh(e)'
  BY <1>2, <1>3, AppendKeepsFresh DEF IsFresh
<1> QED
  BY <1>2, <1>3, <1>4, <1>5 DEF RequeueWithDependencies, vars, queueVars

\* Every item comes from an informer, from a queue, or from the checkers, which
\* read what the source cluster has.
LEMMA HistoryIsTrueStep ==
    ASSUME WorkerTypeOK, CurrentState, HistoryIsTrue, [WNext]_wvars
    PROVE  HistoryIsTrue'
<1> USE WorkerAssumption, ItemAssumption
<1>0. revision \in Nat
  BY DEF WorkerTypeOK
<1>1. ASSUME revision' \in {revision, revision + 1}
      PROVE  \A e \in Events : VerOf[e] \in Nat /\ (VerOf[e] <= revision => VerOf[e] <= revision')
  BY <1>0, <1>1
<1>2. ASSUME revision' \in {revision, revision + 1}, NEW i, Happened(i)
      PROVE  Happened(i)'
  BY <1>1, <1>2 DEF Happened, SourceEvents
<1>3. CASE Aside
  BY <1>1, <1>2, <1>3 DEF Aside, HistoryIsTrue, Held, FreshItems, WorkerTypeOK
<1>4. ASSUME NEW e \in Events, Inform(e)
      PROVE  HistoryIsTrue'
  <2>1. /\ revision' = revision /\ delivered' = delivered \cup {e}
        /\ fresh' \in {fresh, Append(fresh, e)} /\ fresh \in Seq(Items) /\ e \in Items
        /\ UNCHANGED <<retrying, current, fetched, handed>>
    BY <1>4 DEF Inform, sourceVars, runVars, vars, queueVars, WorkerTypeOK
  <2>2. VerOf[e] <= revision /\ Happened(e)
    BY <1>4 DEF Inform, IsNext, Happened, SourceEvents
  <2>3. Held' \subseteq Held \cup {e}
    BY <2>1, AppendElements DEF Held, FreshItems
  <2> QED
    BY <1>2, <2>1, <2>2, <2>3 DEF HistoryIsTrue
<1>5. ASSUME NEW i \in Items, run(i)
      PROVE  HistoryIsTrue'
  <2>0. UNCHANGED <<revision, delivered>> /\ (handed' = handed \/ handed' = handed \cup {i})
    BY <1>5, RunFrame
  <2>1. SUFFICES ASSUME NEW j \in Held', j \notin Held
                 PROVE  Happened(j)
    BY <1>2, <2>0 DEF HistoryIsTrue
  <2>2. CASE CheckDependencies(i)
    <3>1. Take(i) /\ i \in PassFilter /\ ActOf[i] # "delete" /\ \A o \in Reads(i) : Exists(o)
      BY <2>2 DEF CheckDependencies, Accepted
    <3>2. i \in Held
      BY <3>1, TakeFromQueues DEF Held
    <3>3. PICK o \in Reads(i) : j = Copy(o, VerOf[Latest(o)], ActOf[i])
      BY <2>1, <2>2, <3>1, <3>2, TakeFromQueues DEF CheckDependencies, Held, vars, queueVars
    <3>4. PICK e \in Events : IsLatest(e, o) /\ ActOf[e] # "delete" /\ VerOf[e] = VerOf[j]
      BY <3>1, <3>3, CopyTyped
    <3>5. ObjOf[j] = o /\ ActOf[j] # "delete"
      BY <3>1, <3>3, CopyTyped
    <3> QED
      BY <3>4, <3>5 DEF Happened, IsLatest
  <2>3. CASE RequeueWithDependencies(i)
    BY <2>1, <2>3, RequeueEffect DEF Held
  <2>4. CASE Pass(i)
    BY <2>0, <2>1, <2>4 DEF Pass, Held, FreshItems, inVars
  <2>5. CASE Ignore(i) \/ PassDeletion(i) \/ CheckFails(i)
    <3>1. Take(i) /\ UNCHANGED <<current, fetched>>
      BY <2>5 DEF Ignore, PassDeletion, CheckFails, Accepted
    <3> QED
      BY <2>0, <2>1, <3>1, TakeFromQueues DEF Held
  <2> QED
    BY <1>5, <2>2, <2>3, <2>4, <2>5 DEF run
<1> QED
  BY <1>3, <1>4, <1>5, StepKinds

\* The filters come before everything else, and a deletion is never requeued.
LEMMA OnlyAcceptedStep ==
    ASSUME WorkerTypeOK, CurrentState, OnlyAccepted, [WNext]_wvars
    PROVE  OnlyAccepted'
<1> USE DEF OnlyAccepted
<1>0. ctxDone => ctxDone'
  <2>1. Next => (ctxDone => ctxDone')
    BY DEF Next, AddResourceObj, DelayExpires, transport, SetConfig, Loop, QueueClosed, Cancel,
           ShutDown, ProcessDies, SkipOldVersion, StartTransport, FinishTransport, GetTarget,
           GetTargetFails, RequestLost, CreateTarget, PatchTarget, DeleteTarget, stopVars
  <2> QED
    BY <2>1, WorkerStep DEF vars, stopVars
<1>1. CASE Aside
  BY <1>0, <1>1 DEF Aside
<1>2. ASSUME NEW e \in Events, Inform(e)
      PROVE  OnlyAccepted'
  BY <1>0, <1>2 DEF Inform, runVars, vars, queueVars
<1>3. ASSUME NEW i \in Items, run(i)
      PROVE  OnlyAccepted'
  <2>0. closed' = closed /\ (handed' = handed \/ handed' = handed \cup {i})
    BY <1>3, RunFrame
  <2>1. CASE Ignore(i)
    BY <1>0, <2>0, <2>1 DEF Ignore, vars, queueVars
  <2>2. CASE PassDeletion(i)
    BY <1>0, <2>0, <2>2 DEF PassDeletion, Accepted
  <2>3. CASE CheckDependencies(i)
    <3>1. Take(i) /\ i \in PassFilter /\ ActOf[i] # "delete" /\ \A o \in Reads(i) : Exists(o)
      BY <2>3 DEF CheckDependencies, Accepted
    <3>2. \A c \in fetched' : ActOf[c] # "delete"
      BY <2>3, <3>1, CopyTyped DEF CheckDependencies
    <3> QED
      BY <1>0, <2>0, <2>3, <3>1, <3>2 DEF CheckDependencies, vars, queueVars
  <2>4. CASE CheckFails(i)
    BY <1>0, <2>0, <2>4 DEF CheckFails, Accepted, vars, queueVars
  <2>5. CASE RequeueWithDependencies(i)
    BY <1>0, <2>0, <2>5, RequeueEffect
  <2>6. CASE Pass(i)
    BY <1>0, <2>0, <2>6 DEF Pass
  <2> QED
    BY <1>3, <2>1, <2>2, <2>3, <2>4, <2>5, <2>6 DEF run
<1> QED
  BY <1>1, <1>2, <1>3, StepKinds

\* Both hold at every state of a worker.
LEMMA HistoryInvariant ==
    WSpec => [](WorkerTypeOK /\ CurrentState /\ HistoryIsTrue /\ OnlyAccepted)
<1>1. WInit => HistoryIsTrue /\ OnlyAccepted
  BY DEF WInit, Init, HistoryIsTrue, OnlyAccepted, Held, FreshItems
<1>2. WorkerTypeOK /\ CurrentState /\ HistoryIsTrue /\ OnlyAccepted /\ [WNext]_wvars
        => (HistoryIsTrue /\ OnlyAccepted)'
  BY HistoryIsTrueStep, OnlyAcceptedStep
<1> QED
  BY <1>1, <1>2, WorkerTypeCorrect, PTL DEF WSpec

-----------------------------------------------------------------------------
(* Second, dependencies outside the namespace, and what their deletion ends. *)

Outside == Objects \ InNamespace

DeletionHanded(o) == \E e \in handed : ObjOf[e] = o /\ ActOf[e] = "delete"

\* No item of the object can be accepted, nor be one that run decides about.
Forgotten(o) ==
    SourceUid[o] \notin dependencies /\ \A i \in current \cup fetched : ObjOf[i] # o

\* What is accepted was a dependency, and stays one until its deletion.
DependenciesAreKept ==
    \A i \in current \cup handed : ObjOf[i] \in Outside =>
      SourceUid[ObjOf[i]] \in dependencies \/ DeletionHanded(ObjOf[i])

GoneIsForgotten == \A o \in Outside : DeletionHanded(o) => Forgotten(o)

\* The deletion of an object waits in the queue or was handed over, unless
\* nothing of the object was.
DeletionsFollow ==
    QueueOpen => \A e \in delivered \cap PassFilter :
      ActOf[e] = "delete" /\ ObjOf[e] \in Outside =>
        \/ IsFresh(e) \/ e \in handed
        \/ Forgotten(ObjOf[e]) /\ \A i \in handed : ObjOf[i] # ObjOf[e]

\* The scope test compares the uid of the object.
LEMMA AcceptedIsKnown ==
    ASSUME UidsAreKept, NEW i \in Items, Accepted(i), ObjOf[i] \in Outside
    PROVE  SourceUid[ObjOf[i]] \in dependencies
BY DEF Accepted, InScope, CarriedUid, UidsAreKept, Outside

\* After its deletion an object does not exist any more.
LEMMA DeletedIsGone ==
    ASSUME UidsAreUnique, WorkerTypeOK, NEW e \in Events, ActOf[e] = "delete",
           VerOf[e] <= revision
    PROVE  ~Exists(ObjOf[e])
<1> USE WorkerAssumption, ItemAssumption
<1>1. SUFFICES ASSUME NEW f \in Events, IsLatest(f, ObjOf[e]), ActOf[f] # "delete"
               PROVE  FALSE
  BY DEF Exists
<1>2. VerOf[f] \in Nat /\ VerOf[e] \in Nat /\ VerOf[e] <= VerOf[f] /\ ObjOf[f] = ObjOf[e]
  BY <1>1 DEF IsLatest, SourceEvents
<1>3. VerOf[f] = VerOf[e]
  BY <1>2 DEF UidsAreUnique
<1> QED
  BY <1>1, <1>2, <1>3 DEF UidsAreUnique

\* A deletion among the items that happened is an event of its object.
LEMMA DeletionIsEvent ==
    ASSUME HistoryIsTrue, NEW i \in Held, ActOf[i] = "delete"
    PROVE  i \in Events /\ VerOf[i] <= revision
BY DEF HistoryIsTrue, Happened, SourceEvents

\* A deleted object that was forgotten is not found, accepted or handed over again.
LEMMA ForgottenStays ==
    ASSUME UidsAreUnique, UidsAreKept, WorkerTypeOK, CurrentState, [WNext]_wvars,
           NEW e \in Events, ActOf[e] = "delete", VerOf[e] <= revision,
           ObjOf[e] \in Outside, Forgotten(ObjOf[e])
    PROVE  Forgotten(ObjOf[e])' /\ \A i \in handed' \ handed : ObjOf[i] # ObjOf[e]
<1> DEFINE o == ObjOf[e]
<1> USE WorkerAssumption DEF Forgotten
<1>0. o \in Objects /\ ~Exists(o)
  BY DeletedIsGone DEF Outside
<1>1. CASE Aside
  BY <1>1 DEF Aside
<1>2. ASSUME NEW d \in Events, Inform(d)
      PROVE  Forgotten(o)' /\ handed' = handed
  BY <1>2 DEF Inform, runVars, vars, queueVars
<1>3. ASSUME NEW i \in Items, run(i)
      PROVE  Forgotten(o)' /\ \A j \in handed' \ handed : ObjOf[j] # o
  <2>0. handed' = handed \/ handed' = handed \cup {i}
    BY <1>3, RunFrame
  <2>1. Accepted(i) => ObjOf[i] # o
    BY AcceptedIsKnown
  <2>2. CASE Ignore(i)
    BY <2>2 DEF Ignore, vars, queueVars
  <2>3. CASE PassDeletion(i)
    BY <2>0, <2>1, <2>3 DEF PassDeletion
  <2>4. CASE CheckDependencies(i)
    <3>1. Accepted(i) /\ i \in PassFilter /\ ActOf[i] # "delete" /\ \A p \in Reads(i) : Exists(p)
      BY <2>4 DEF CheckDependencies, Accepted
    <3>2. \A c \in fetched' : \E p \in Reads(i) : ObjOf[c] = p
      BY <2>4, <3>1, CopyTyped DEF CheckDependencies
    <3>3. \A c \in fetched' : ObjOf[c] # o
      BY <1>0, <3>1, <3>2
    <3> QED
      BY <2>1, <2>4, <3>1, <3>3 DEF CheckDependencies, vars, queueVars
  <2>5. CASE CheckFails(i)
    BY <2>5 DEF CheckFails, vars, queueVars
  <2>6. CASE RequeueWithDependencies(i)
    <3>1. PICK c \in fetched :
            /\ c \in Items /\ dependencies' = dependencies \cup {SourceUid[ObjOf[c]]}
            /\ current' = {} /\ fetched' = {} /\ handed' = handed
      BY <2>6, RequeueEffect
    <3>2. SourceUid[ObjOf[c]] # SourceUid[o]
      BY <1>0, <3>1 DEF UidsAreUnique
    <3> QED
      BY <3>1, <3>2
  <2>7. CASE Pass(i)
    BY <2>0, <2>7 DEF Pass
  <2> QED
    BY <1>3, <2>2, <2>3, <2>4, <2>5, <2>6, <2>7 DEF run
<1> QED
  BY <1>1, <1>2, <1>3, StepKinds DEF Aside

\* An uid leaves the dependencies only with the deletion of its object.
LEMMA DependenciesAreKeptStep ==
    ASSUME UidsAreUnique, UidsAreKept, WorkerTypeOK, CurrentState, TypeOK,
           DependenciesAreKept, [WNext]_wvars
    PROVE  DependenciesAreKept'
<1> USE WorkerAssumption DEF DependenciesAreKept, DeletionHanded
<1>1. CASE Aside
  BY <1>1 DEF Aside
<1>2. ASSUME NEW d \in Events, Inform(d)
      PROVE  DependenciesAreKept'
  BY <1>2 DEF Inform, runVars, vars, queueVars
<1>3. ASSUME NEW i \in Items, run(i)
      PROVE  DependenciesAreKept'
  <2>0. handed' = handed \/ handed' = handed \cup {i}
    BY <1>3, RunFrame
  <2>2. CASE Ignore(i)
    BY <2>2 DEF Ignore, vars, queueVars
  <2>3. CASE PassDeletion(i)
    <3>1. /\ dependencies' = dependencies \ {SourceUid[ObjOf[i]]} /\ ActOf[i] = "delete"
          /\ current' = {} /\ i \in handed'
      BY <2>3, TakeFromQueues
         DEF PassDeletion, Accepted, UidsAreKept, HandOver, AddResourceObj, vars, queueVars
    <3>2. ASSUME NEW j \in handed', ObjOf[j] \in Outside, ObjOf[j] # ObjOf[i]
          PROVE  SourceUid[ObjOf[j]] \in dependencies' \/ \E e \in handed' : ObjOf[e] = ObjOf[j] /\ ActOf[e] = "delete"
      <4>1. j \in handed /\ j \in Items
        BY <2>0, <3>2 DEF TypeOK
      <4>2. SourceUid[ObjOf[j]] # SourceUid[ObjOf[i]]
        BY <3>2, <4>1 DEF UidsAreUnique
      <4> QED
        BY <2>0, <3>1, <3>2, <4>1, <4>2
    <3> QED
      BY <3>1, <3>2
  <2>4. CASE CheckDependencies(i)
    <3>1. Accepted(i) /\ current' = {i} /\ UNCHANGED <<handed, dependencies>>
      BY <2>4 DEF CheckDependencies, vars, queueVars
    <3> QED
      BY <3>1, AcceptedIsKnown
  <2>5. CASE CheckFails(i)
    BY <2>5 DEF CheckFails, vars, queueVars
  <2>6. CASE RequeueWithDependencies(i)
    BY <2>6, RequeueEffect
  <2>7. CASE Pass(i)
    BY <2>0, <2>7 DEF Pass
  <2> QED
    BY <1>3, <2>2, <2>3, <2>4, <2>5, <2>6, <2>7 DEF run
<1> QED
  BY <1>1, <1>2, <1>3, StepKinds

\* A deletion is handed over when the run goroutine is between two items.
LEMMA GoneIsForgottenStep ==
    ASSUME UidsAreUnique, UidsAreKept, WorkerTypeOK, CurrentState, TypeOK, HistoryIsTrue,
           OnlyAccepted, GoneIsForgotten, [WNext]_wvars
    PROVE  GoneIsForgotten'
<1> USE WorkerAssumption
<1> SUFFICES ASSUME NEW e \in handed', ActOf[e] = "delete", ObjOf[e] \in Outside
             PROVE  Forgotten(ObjOf[e])'
  BY DEF GoneIsForgotten, DeletionHanded
<1>1. CASE e \in handed
  <2>1. e \in Events /\ VerOf[e] <= revision
    BY <1>1, DeletionIsEvent DEF Held
  <2>2. Forgotten(ObjOf[e])
    BY <1>1 DEF GoneIsForgotten, DeletionHanded
  <2> QED
    BY <2>1, <2>2, ForgottenStays
<1>2. CASE e \notin handed
  <2>1. PICK i \in Items : run(i)
    BY <1>2, StepKinds DEF Aside, Inform, vars, queueVars
  <2>2. e = i
    BY <1>2, <2>1, RunFrame
  <2>3. ~Pass(i)
    BY <2>2 DEF Pass, OnlyAccepted
  <2>4. PassDeletion(i)
    BY <1>2, <2>1, <2>2, <2>3 DEF run, Ignore, CheckDependencies, CheckFails,
       RequeueWithDependencies, vars, queueVars
  <2> QED
    BY <2>2, <2>4, TakeFromQueues DEF PassDeletion, Accepted, UidsAreKept, Forgotten
<1> QED
  BY <1>1, <1>2

\* There is one deletion of an object.
LEMMA SameDeletion ==
    ASSUME UidsAreUnique, NEW e \in Events, NEW f \in Events, ObjOf[e] = ObjOf[f],
           ActOf[e] = "delete", ActOf[f] = "delete"
    PROVE  e = f
<1>1. VerOf[e] \in Nat /\ VerOf[f] \in Nat
  BY WorkerAssumption, ItemAssumption
<1> QED
  BY <1>1 DEF UidsAreUnique

\* The deletion of a dependency is out of scope only if nothing depended on it.
LEMMA DeletionsFollowStep ==
    ASSUME UidsAreUnique, UidsAreKept, WorkerTypeOK, CurrentState, TypeOK, HistoryIsTrue,
           OnlyAccepted, DependenciesAreKept, DeletionsFollow, [WNext]_wvars
    PROVE  DeletionsFollow'
<1> USE WorkerAssumption
<1> SUFFICES ASSUME QueueOpen', NEW e \in delivered', e \in PassFilter, ActOf[e] = "delete",
                    ObjOf[e] \in Outside
             PROVE  \/ IsFresh(e)' \/ e \in handed'
                    \/ Forgotten(ObjOf[e])' /\ \A i \in handed' : ObjOf[i] # ObjOf[e]
  BY DEF DeletionsFollow
<1>0. QueueOpen /\ handed \subseteq handed' /\ e \in Items
  BY StepKinds, RunFrame, HandedGrows DEF QueueOpen, Aside, Inform
<1>1. CASE e \notin delivered
  <2>1. Inform(e)
    BY <1>1, StepKinds, RunFrame DEF Aside, Inform
  <2> QED
    BY <1>0, <2>1, AppendKeepsFresh DEF Inform
<1>2. CASE e \in handed
  BY <1>0, <1>2
<1>3. CASE e \in delivered /\ e \notin handed /\ ~IsFresh(e)
  <2>1. Forgotten(ObjOf[e]) /\ \A i \in handed : ObjOf[i] # ObjOf[e]
    BY <1>0, <1>3 DEF DeletionsFollow
  <2>2. e \in Events /\ VerOf[e] <= revision
    BY <1>3 DEF HistoryIsTrue, WorkerTypeOK
  <2> QED
    BY <2>1, <2>2, ForgottenStays
<1>4. CASE e \in delivered /\ e \notin handed /\ IsFresh(e)
  <2>1. ASSUME NEW d \in Events, Inform(d)
        PROVE  IsFresh(e)'
    BY <1>0, <1>4, <2>1, AppendKeepsFresh DEF Inform
  <2>2. CASE Aside
    BY <1>4, <2>2 DEF Aside, IsFresh
  <2>3. ASSUME NEW i \in Items, run(i), i # e
        PROVE  IsFresh(e)'
    <3>1. CASE Take(i)
      BY <1>0, <1>4, <2>3, <3>1, TakeKeepsOthers
    <3>2. CASE RequeueWithDependencies(i)
      BY <1>0, <1>4, <3>2, RequeueEffect
    <3>3. CASE Pass(i)
      BY <1>4, <3>3 DEF Pass, IsFresh, inVars
    <3> QED
      BY <2>3, <3>1, <3>2, <3>3 DEF run, Ignore, PassDeletion, CheckDependencies, CheckFails, Accepted
  <2>4. CASE Ignore(e)
    <3>1. /\ current' = {} /\ fetched' = {}
          /\ SourceUid[ObjOf[e]] \notin dependencies /\ UNCHANGED <<dependencies, handed>>
      BY <2>4, TakeFromQueues DEF Ignore, InScope, CarriedUid, UidsAreKept, vars, queueVars
    <3>2. ASSUME NEW i \in handed, ObjOf[i] = ObjOf[e]
          PROVE  FALSE
      <4>1. PICK f \in handed : ObjOf[f] = ObjOf[e] /\ ActOf[f] = "delete"
        BY <3>1, <3>2 DEF DependenciesAreKept, DeletionHanded
      <4>2. f \in Events /\ e \in Events
        BY <1>4, <4>1, DeletionIsEvent DEF Held, WorkerTypeOK
      <4> QED
        BY <1>4, <4>1, <4>2, SameDeletion
    <3> QED
      BY <3>1, <3>2 DEF Forgotten
  <2>5. CASE PassDeletion(e)
    BY <2>5 DEF PassDeletion, HandOver, AddResourceObj, vars, queueVars
  <2>6. run(e) => Ignore(e) \/ PassDeletion(e)
    BY DEF run, CheckDependencies, CheckFails, RequeueWithDependencies, Pass, OnlyAccepted
  <2> QED
    BY <1>0, <2>1, <2>2, <2>3, <2>4, <2>5, <2>6, StepKinds
<1> QED
  BY <1>1, <1>2, <1>3, <1>4

DeletionInv ==
    /\ TypeOK /\ WorkerTypeOK /\ CurrentState /\ HistoryIsTrue /\ OnlyAccepted
    /\ DependenciesAreKept /\ GoneIsForgotten /\ DeletionsFollow

\* The three facts about deletions hold at every state of a worker.
LEMMA DeletionInvariant ==
    ASSUME UidsAreUnique, UidsAreKept
    PROVE  WSpec => []DeletionInv
<1>1. WInit => DependenciesAreKept /\ GoneIsForgotten /\ DeletionsFollow
  BY DEF WInit, Init, DependenciesAreKept, GoneIsForgotten, DeletionHanded, DeletionsFollow
<1>2. DeletionInv /\ [WNext]_wvars => (DependenciesAreKept /\ GoneIsForgotten /\ DeletionsFollow)'
  BY DependenciesAreKeptStep, GoneIsForgottenStep, DeletionsFollowStep DEF DeletionInv
<1> QED
  BY <1>1, <1>2, WorkerUsesTransportManager, TypeCorrect, HistoryInvariant, PTL
     DEF WSpec, DeletionInv

\* After the deletion of an object outside the namespace was handed over, nothing
\* of that object is: in particular no copy that a checker made before.
THEOREM DeletionIsTheEnd ==
    ASSUME UidsAreUnique, UidsAreKept
    PROVE  WSpec => NothingAfterDeletion
<1> USE WorkerAssumption
<1>1. ASSUME DeletionInv, [WNext]_wvars, NEW e \in handed, NEW i \in handed' \ handed,
             ActOf[e] = "delete", UidOf[i] = UidOf[e], ObjOf[i] \notin InNamespace
      PROVE  VerOf[i] > VerOf[e]
  <2>1. e \in Items /\ e \in Events /\ VerOf[e] <= revision
    BY <1>1, DeletionIsEvent DEF DeletionInv, Held, TypeOK
  <2>2. i \in Items
    BY <1>1, HandedStep, WorkerStep DEF AddResourceObj
  <2>3. ObjOf[i] = ObjOf[e] /\ ObjOf[e] \in Outside
    BY <1>1, <2>1, <2>2 DEF UidsAreUnique, UidsAreKept, Outside
  <2>4. Forgotten(ObjOf[e])
    BY <1>1, <2>3 DEF DeletionInv, GoneIsForgotten, DeletionHanded
  <2> QED
    BY <1>1, <2>1, <2>3, <2>4, ForgottenStays DEF DeletionInv
<1>2. DeletionInv /\ [WNext]_wvars =>
        [\A e \in handed, i \in handed' \ handed :
           ActOf[e] = "delete" /\ UidOf[i] = UidOf[e] /\ ObjOf[i] \notin InNamespace
             => VerOf[i] > VerOf[e]]_wvars
  BY <1>1
<1> QED
  BY <1>2, DeletionInvariant, PTL DEF WSpec, NothingAfterDeletion

-----------------------------------------------------------------------------
(* Third, what an acknowledged deletion leaves in the pair cluster.         *)

\* A deletion newer than everything else that was handed over for its object,
\* whose place is that of no other object.
IsLastDeletion(d) ==
    /\ ActOf[d] = "delete"
    /\ \A i \in handed : UidOf[i] = UidOf[d] \/ NameOf[i] = NameOf[d] =>
         UidOf[i] = UidOf[d] /\ (i = d \/ VerOf[i] < VerOf[d])

\* A deletion that went well, and is not acknowledged yet, found its target.
DeletionSucceeds ==
    pc = "done" /\ err # "failed" => \A i \in processing :
      ActOf[i] = "delete" => client \in Clusters /\ ~Target(i).present

\* What was deleted last is gone, if there is one pair cluster.
DeletionHolds ==
    \A d \in Items, c \in Clusters :
      (\A b \in Clusters : b = c) /\ IsLastDeletion(d) /\ Versions[UidOf[d]] >= VerOf[d] =>
        ~pair[c][NameOf[d]].present

\* The answer to a delete request is positive only if it removed the target,
\* which nobody changes before the deletion is acknowledged.
LEMMA DeletionSucceedsStep ==
    ASSUME IInv, DeletionSucceeds, [Next]_vars
    PROVE  DeletionSucceeds'
<1> USE DEF DeletionSucceeds
<1>i. TypeOK /\ OneAtATime /\ CallFits
  BY DEF IInv, CallState
<1>1. ASSUME NEW i \in Items,
             AddResourceObj(i) \/ DelayExpires(i) \/ SkipOldVersion(i) \/ FinishTransport(i)
      PROVE  DeletionSucceeds'
  BY <1>1 DEF AddResourceObj, DelayExpires, SkipOldVersion, FinishTransport, Target
<1>2. ASSUME NEW i \in Items, StartTransport(i) PROVE DeletionSucceeds'
  BY <1>2, ItemAssumption DEF StartTransport, ObjectAction
<1>3. ASSUME NEW i \in Items, GetTarget(i) \/ GetTargetFails(i) \/ RequestLost(i)
      PROVE  DeletionSucceeds'
  BY <1>3 DEF GetTarget, GetTargetFails, RequestLost
<1>4. ASSUME NEW i \in Items, NEW f \in Fates, CreateTarget(i, f) \/ PatchTarget(i, f)
      PROVE  DeletionSucceeds'
  <2>1. processing = {i} /\ processing' = {i} /\ ActOf[i] # "delete"
    BY <1>4, <1>i DEF CreateTarget, PatchTarget, OneAtATime, CallFits
  <2> QED BY <2>1
<1>5. ASSUME NEW i \in Items, NEW f \in Fates, DeleteTarget(i, f), err' # "failed"
      PROVE  DeletionSucceeds'
  <2>1. /\ processing = {i} /\ processing' = {i} /\ client \in Clusters /\ client' = client
        /\ SetTarget(i, FALSE)
    BY <1>5, <1>i DEF DeleteTarget, Answer, OneAtATime, CallFits, Calls
  <2>2. pair'[client][NameOf[i]] = [present |-> FALSE, ver |-> VerOf[i]]
    BY <1>i, <2>1, SetTargetValue, ItemAssumption
  <2> QED BY <2>1, <2>2 DEF Target
<1>6. ASSUME NEW c \in Clusters, SetConfig(c) PROVE DeletionSucceeds'
  BY <1>6 DEF SetConfig, Target
<1>7. CASE Loop \/ QueueClosed \/ ProcessDies
  BY <1>7 DEF Loop, QueueClosed, ProcessDies
<1>8. CASE Cancel \/ ShutDown \/ UNCHANGED vars
  BY <1>8 DEF Cancel, ShutDown, vars, Target
<1> QED BY <1>1, <1>2, <1>3, <1>4, <1>5, <1>6, <1>7, <1>8 DEF Next, transport

\* Once the last deletion is acknowledged, every other item is skipped as old.
LEMMA DeletionHoldsStep ==
    ASSUME IInv, DeletionSucceeds, DeletionHolds, [Next]_vars
    PROVE  DeletionHolds'
<1> USE ItemAssumption
<1> SUFFICES ASSUME NEW d \in Items, NEW c \in Clusters, \A b \in Clusters : b = c,
                    IsLastDeletion(d)', Versions'[UidOf[d]] >= VerOf[d]
             PROVE  ~pair'[c][NameOf[d]].present
  BY DEF DeletionHolds
<1>i. TypeOK /\ OneAtATime /\ CallFits /\ PresentIsWritten
  BY DEF IInv, CallState
<1>0. IsLastDeletion(d)
  BY HandedStep DEF IsLastDeletion, AddResourceObj
<1>1. CASE Versions[UidOf[d]] >= VerOf[d]
  <2>1. ~pair[c][NameOf[d]].present
    BY <1>0, <1>1 DEF DeletionHolds
  <2>2. SUFFICES ASSUME NEW i \in processing, SetTarget(i, ActOf[i] # "delete"),
                        client \in Clusters, isNewVersion(i), NameOf[i] = NameOf[d]
                 PROVE  FALSE
    <3>1. CASE UNCHANGED pair
      BY <2>1, <3>1
    <3>2. CASE ~UNCHANGED pair
      <4>1. PICK i \in processing : /\ SetTarget(i, ActOf[i] # "delete")
                                    /\ client \in Clusters /\ isNewVersion(i)
        BY <1>i, <3>2, WriteStep
      <4>2. NameOf[i] # NameOf[d]
        BY <2>2, <4>1
      <4>3. i \in Items /\ NameOf[d] \in Names
        BY <1>i DEF TypeOK
      <4>4. pair'[c][NameOf[d]] = pair[c][NameOf[d]]
        BY <1>i, <4>1, <4>2, <4>3 DEF SetTarget, TypeOK
      <4> QED BY <2>1, <4>4
    <3> QED BY <3>1, <3>2
  <2>3. i \in handed /\ i \in Items /\ Versions[UidOf[d]] \in Nat
    BY <1>i DEF OneAtATime, TypeOK
  <2>4. UidOf[i] = UidOf[d] /\ VerOf[i] <= VerOf[d]
    BY <1>0, <2>2, <2>3 DEF IsLastDeletion
  <2> QED BY <1>1, <2>2, <2>3, <2>4 DEF isNewVersion
<1>2. CASE ~(Versions[UidOf[d]] >= VerOf[d])
  <2>1. PICK i \in Items : FinishTransport(i)
    BY <1>2, VersionStep
  <2>2. /\ Versions' = [Versions EXCEPT ![UidOf[i]] = VerOf[i]]
        /\ pc = "done" /\ err # "failed" /\ i \in processing /\ pair' = pair
    BY <1>2, <2>1 DEF FinishTransport
  <2>3. UidOf[i] = UidOf[d] /\ VerOf[i] >= VerOf[d]
    BY <1>2, <1>i, <2>2 DEF TypeOK
  <2>4. i = d
    BY <1>0, <1>i, <2>2, <2>3 DEF IsLastDeletion, OneAtATime
  <2> QED BY <1>0, <2>2, <2>4 DEF DeletionSucceeds, IsLastDeletion, Target
<1> QED BY <1>1, <1>2

\* Both hold at every state of a transport manager.
LEMMA LastDeletions == Spec => [](IInv /\ DeletionSucceeds /\ DeletionHolds)
<1>1. Init => DeletionSucceeds /\ DeletionHolds
  BY ItemAssumption DEF Init, DeletionSucceeds, DeletionHolds
<1>2. IInv /\ DeletionSucceeds /\ DeletionHolds /\ [Next]_vars
        => (DeletionSucceeds /\ DeletionHolds)'
  BY DeletionSucceedsStep, DeletionHoldsStep
<1> QED BY <1>1, <1>2, InductiveInvariant, PTL DEF Spec

-----------------------------------------------------------------------------
(* Fourth, the pair cluster at rest.                                       *)

\* A source object with a past has a latest event.
LEMMA LatestIsLatest ==
    ASSUME WorkerTypeOK, NEW o \in Objects, SourceEvents(o) # {}
    PROVE  /\ Latest(o) \in Events /\ IsLatest(Latest(o), o)
           /\ VerOf[Latest(o)] <= revision
<1> USE WorkerAssumption, ItemAssumption
<1>0. revision \in Nat /\ \A e \in SourceEvents(o) : VerOf[e] \in Nat /\ VerOf[e] <= revision
  BY DEF WorkerTypeOK, SourceEvents
<1> DEFINE Ages == {revision - VerOf[e] : e \in SourceEvents(o)}
<1>1. Ages \subseteq Nat /\ Ages # {}
  BY <1>0
<1>2. PICK x \in Ages : \A y \in Ages : ~ (<<y, x>> \in OpToRel(<, Nat))
  BY <1>1, NatLessThanWellFounded, WFMin
<1>3. PICK e \in SourceEvents(o) : x = revision - VerOf[e]
  OBVIOUS
<1>4. ASSUME NEW f \in SourceEvents(o)
      PROVE  VerOf[f] <= VerOf[e]
  <2>1. revision - VerOf[f] \in Ages /\ x \in Nat /\ revision - VerOf[f] \in Nat
    BY <1>1
  <2>2. ~(revision - VerOf[f] < x)
    BY <1>2, <2>1 DEF OpToRel
  <2> QED
    BY <1>0, <1>3, <2>2
<1>5. e \in Events /\ IsLatest(e, o)
  BY <1>4 DEF IsLatest, SourceEvents
<1>6. Latest(o) \in Events /\ IsLatest(Latest(o), o)
  BY <1>5, Zenon DEF Latest
<1> QED
  BY <1>6 DEF IsLatest, SourceEvents

\* Then it exists unless that event is its deletion.
LEMMA ExistsByLatest ==
    ASSUME UidsAreUnique, WorkerTypeOK, NEW o \in Objects, SourceEvents(o) # {}
    PROVE  Exists(o) <=> ActOf[Latest(o)] # "delete"
<1> USE WorkerAssumption, ItemAssumption
<1>1. Latest(o) \in Events /\ IsLatest(Latest(o), o)
  BY LatestIsLatest
<1>2. ASSUME NEW e \in Events, IsLatest(e, o)
      PROVE  e = Latest(o)
  <2>1. VerOf[e] \in Nat /\ VerOf[Latest(o)] \in Nat
    BY <1>1
  <2> QED
    BY <1>1, <1>2, <2>1 DEF IsLatest, SourceEvents, UidsAreUnique
<1> QED
  BY <1>1, <1>2 DEF Exists

\* At rest the latest event of an object in the namespace was handed over.
LEMMA LatestArrives ==
    ASSUME WorkerTypeOK, CurrentState, OnlyAccepted, NoEventLost, AtRest,
           NEW o \in InNamespace, SourceEvents(o) # {},
           Latest(o) \in PassFilter, Latest(o) \notin dropped
    PROVE  Latest(o) \in handed
<1>1. Latest(o) \in Events /\ IsLatest(Latest(o), o) /\ VerOf[Latest(o)] <= revision
  BY LatestIsLatest, WorkerAssumption
<1>2. Latest(o) \in delivered /\ ObjOf[Latest(o)] = o /\ QueueOpen
  BY <1>1 DEF AtRest, IsLatest, SourceEvents, OnlyAccepted, QueueOpen
<1>3. ~IsFresh(Latest(o)) /\ retrying = {} /\ current = {}
  BY DEF AtRest, IsFresh, CurrentState
<1> QED
  BY <1>1, <1>2, <1>3 DEF NoEventLost

\* At rest the latest event of an object that keeps its uid is the newest item
\* handed over for it, and what it left is in the pair cluster.
THEOREM NamespaceIsMirrored ==
    ASSUME UidsAreUnique, PlacesAreOwn
    PROVE  WSpec => []MirroredAtRest
<1> USE WorkerAssumption, ItemAssumption
<1>1. ASSUME TypeOK, WorkerTypeOK, CurrentState, HistoryIsTrue, OnlyAccepted, NoEventLost,
             MirroredWhenQuiescent, AtRest, NEW o \in InNamespace, NEW c \in Clusters,
             SourceEvents(o) # {}, Latest(o) \in PassFilter, NameOf[Latest(o)] \in Served,
             UidOf[Latest(o)] \in TrackedUids, SourceEvents(o) \cap dropped = {}
      PROVE  pair[c][NameOf[Latest(o)]] = [present |-> Exists(o), ver |-> VerOf[Latest(o)]]
  <2> DEFINE e == Latest(o)
  <2>1. e \in Events /\ IsLatest(e, o) /\ VerOf[e] <= revision
    BY <1>1, LatestIsLatest
  <2>2. e \in handed /\ e \in Items /\ ObjOf[e] = o
    BY <1>1, <2>1, LatestArrives DEF IsLatest, SourceEvents
  <2>3. ASSUME NEW j \in Of(UidOf[e]) \cap handed
        PROVE  VerOf[j] <= VerOf[e]
    <3>1. j \in Items /\ NameOf[j] = NameOf[e]
      BY <1>1, <2>2, TrackedPlace DEF Of
    <3>2. ObjOf[j] = o
      BY <1>1, <2>2, <3>1 DEF PlacesAreOwn
    <3>3. PICK f \in SourceEvents(o) : VerOf[f] = VerOf[j]
      BY <1>1, <3>2 DEF HistoryIsTrue, Held, Happened
    <3> QED
      BY <2>1, <3>3 DEF IsLatest
  <2>4. pair[c][NameOf[e]] = [present |-> ActOf[e] # "delete", ver |-> VerOf[e]]
    <3>1. Newest(e)
      BY <2>3 DEF Newest
    <3>2. \A d \in Clusters \ {c} : pair[d][NameOf[e]].ver = 0
      BY <1>1 DEF AtRest
    <3> QED
      BY <1>1, <2>2, <3>1, <3>2 DEF MirroredWhenQuiescent, AtRest
  <2>5. o \in Objects /\ (Exists(o) <=> ActOf[e] # "delete") /\ Exists(o) \in BOOLEAN
    BY <1>1, ExistsByLatest DEF Exists
  <2>6. Exists(o) = (ActOf[e] # "delete")
    BY <2>5
  <2> QED
    BY <2>4, <2>6
<1>2. TypeOK /\ WorkerTypeOK /\ CurrentState /\ HistoryIsTrue /\ OnlyAccepted /\ NoEventLost
        /\ MirroredWhenQuiescent => MirroredAtRest
  BY <1>1 DEF MirroredAtRest
<1> QED
  BY <1>2, WorkerUsesTransportManager, TypeCorrect, QuiescenceMirrors, HistoryInvariant,
     EventsAreKept, PTL

-----------------------------------------------------------------------------
(* Fifth, what the source cluster no longer has.                           *)

\* At rest the deletion of an object that something was handed over for was
\* handed over as well: of an object in the namespace because no event of it is
\* lost, of a dependency because it stays one until its deletion.
LEMMA DeletionArrives ==
    ASSUME DeletionInv, NoEventLost, AtRest, NEW d \in Events, ActOf[d] = "delete",
           d \in PassFilter, IsLatest(d, ObjOf[d]), d = Latest(ObjOf[d]),
           NEW j \in handed, ObjOf[j] = ObjOf[d]
    PROVE  d \in handed
<1> USE WorkerAssumption DEF DeletionInv
<1>1. CASE ObjOf[d] \in InNamespace
  BY <1>1, LatestArrives DEF OnlyAccepted, IsLatest
<1>2. CASE ObjOf[d] \in Outside
  <2>1. d \in delivered /\ QueueOpen
    BY DEF AtRest, IsLatest, SourceEvents, OnlyAccepted, QueueOpen
  <2>2. ~IsFresh(d)
    BY DEF AtRest, IsFresh
  <2> QED
    BY <1>2, <2>1, <2>2 DEF DeletionsFollow
<1> QED
  BY <1>1, <1>2 DEF Outside

\* At rest what was handed over is acknowledged.
LEMMA RestIsSettled ==
    ASSUME OneAtATime, NoItemLost, AtRest, NEW i \in handed
    PROVE  Settled(i)
BY DEF NoItemLost, AtRest, Quiescent, Pending, InQueue, OneAtATime

\* The latest event of an object is its last deletion, if it is one.
LEMMA LatestIsLast ==
    ASSUME UidsAreUnique, UidsAreKept, PlacesAreOwn, DeletionInv, NEW d \in Events,
           ActOf[d] = "delete", NameOf[d] \in Served, IsLatest(d, ObjOf[d])
    PROVE  IsLastDeletion(d)
<1> USE WorkerAssumption, ItemAssumption DEF DeletionInv
<1> SUFFICES ASSUME NEW k \in handed, UidOf[k] = UidOf[d] \/ NameOf[k] = NameOf[d]
             PROVE  UidOf[k] = UidOf[d] /\ (k = d \/ VerOf[k] < VerOf[d])
  BY DEF IsLastDeletion
<1>1. k \in Items /\ d \in Items
  BY DEF TypeOK
<1>2. ObjOf[k] = ObjOf[d]
  BY <1>1 DEF UidsAreKept, UidsAreUnique, PlacesAreOwn
<1>3. UidOf[k] = UidOf[d]
  BY <1>1, <1>2 DEF UidsAreKept
<1>4. PICK f \in SourceEvents(ObjOf[d]) :
             VerOf[f] = VerOf[k] /\ (k = f \/ ActOf[f] # "delete")
  BY <1>2 DEF HistoryIsTrue, Held, Happened
<1>5. f \in Events /\ ObjOf[f] = ObjOf[d] /\ VerOf[f] <= VerOf[d]
  BY <1>4 DEF IsLatest, SourceEvents
<1>6. VerOf[f] = VerOf[d] => f = d
  BY <1>5 DEF UidsAreUnique
<1>7. VerOf[k] \in Nat /\ VerOf[d] \in Nat
  BY <1>1
<1> QED
  BY <1>3, <1>4, <1>5, <1>6, <1>7

\* What is in a place that was free at the start was handed over as an item of
\* its object; the deletion of that object was handed over too, is acknowledged,
\* and is the last word about that place.
THEOREM OrphansAreDeleted ==
    ASSUME UidsAreUnique, UidsAreKept, PlacesAreOwn, DeletionsPass
    PROVE  WSpec => []NoOrphans
<1> USE WorkerAssumption, ItemAssumption
<1>1. ASSUME DeletionInv, NoEventLost, IInv, WrittenIsHanded, DeletionHolds, AtRest,
             NEW i \in Items, NEW c \in Clusters, NameOf[i] \notin Preexisting,
             pair[c][NameOf[i]].present, ~Exists(ObjOf[i])
      PROVE  FALSE
  <2> DEFINE o == ObjOf[i]
             d == Latest(o)
  <2>1. pair[c][NameOf[i]].ver > 0 /\ NameOf[i] \in Served
    <3>1. NameOf[i] \in Names
      OBVIOUS
    <3>2. /\ NameOf[i] \in Served
          /\ \E j \in Items : VerOf[j] = pair[c][NameOf[i]].ver
      BY <1>1, <3>1 DEF IInv, PresentIsWritten
    <3> QED
      BY <3>2
  <2>2. PICK j \in handed : NameOf[j] = NameOf[i]
    BY <1>1, <2>1 DEF WrittenIsHanded
  <2>3. j \in Items /\ ObjOf[j] = o
    BY <1>1, <2>1, <2>2 DEF IInv, TypeOK, PlacesAreOwn
  <2>4. SourceEvents(o) # {} /\ j \in PassFilter
    BY <1>1, <2>2, <2>3 DEF DeletionInv, HistoryIsTrue, OnlyAccepted, Held, Happened
  <2>5. d \in Events /\ IsLatest(d, o) /\ ActOf[d] = "delete" /\ ObjOf[d] = o
    BY <1>1, <2>4, LatestIsLatest, ExistsByLatest DEF DeletionInv, IsLatest, SourceEvents
  <2>6. d \in PassFilter /\ NameOf[d] = NameOf[i]
    BY <2>1, <2>2, <2>3, <2>4, <2>5 DEF DeletionsPass
  <2>7. IsLastDeletion(d)
    BY <1>1, <2>1, <2>5, <2>6, LatestIsLast
  <2>8. d \in handed
    BY <1>1, <2>2, <2>3, <2>5, <2>6, DeletionArrives
  <2>9. Versions[UidOf[d]] >= VerOf[d]
    <3>1. Settled(d)
      BY <1>1, <2>8, RestIsSettled DEF IInv
    <3>2. Versions[UidOf[d]] \in Nat /\ VerOf[d] \in Nat
      BY <1>1, <2>5 DEF IInv, TypeOK
    <3> QED
      BY <3>1, <3>2 DEF Settled, isNewVersion
  <2> QED
    BY <1>1, <2>5, <2>6, <2>7, <2>9 DEF DeletionHolds, AtRest
<1>2. DeletionInv /\ NoEventLost /\ IInv /\ WrittenIsHanded /\ DeletionHolds => NoOrphans
  BY <1>1 DEF NoOrphans
<1> QED
  BY <1>2, WorkerUsesTransportManager, WrittenInvariant, LastDeletions, DeletionInvariant,
     EventsAreKept, PTL

=============================================================================
