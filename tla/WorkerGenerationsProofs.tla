------------------------ MODULE WorkerGenerationsProofs ------------------------
(***************************************************************************)
(* Theorems about WorkerGenerations for all values of its constants.  The  *)
(* steps of the current worker are those of TransportManager, so that the  *)
(* step lemmas of TransportManagerProofs are used for them.                *)
(***************************************************************************)
EXTENDS WorkerGenerations, TransportManagerProofs

-----------------------------------------------------------------------------
(* The kinds of steps.                                                     *)

\* A list of place n hands over what is there, if anything is.
Lists(n) ==
    /\ listed' = listed \cup {n} /\ seen' = [seen EXCEPT ![n] = revision]
    /\ revision' = revision
    /\ \/ ObjectAt(n, revision) = {} /\ handed' = handed
       \/ \E e \in ObjectAt(n, revision), a \in {"create", "update"} :
            handed' = handed \cup {Found(e, a)}

\* A watch hands over an event that is newer than what the informer has seen.
Delivers(e) ==
    /\ NameOf[e] \in listed /\ seen[NameOf[e]] < VerOf[e] /\ VerOf[e] <= revision
    /\ seen' = [seen EXCEPT ![NameOf[e]] = VerOf[e]]
    /\ handed' = handed \cup {e}
    /\ UNCHANGED <<listed, revision>>

InformerStep ==
    \/ UNCHANGED <<handed, listed, seen, revision>>
    \/ UNCHANGED <<handed, listed, seen>> /\ revision' = revision + 1
    \/ \E n \in Names : Lists(n)
    \/ \E e \in Events : Delivers(e)

\* A step of the current worker, of its informers or of the source.
WorkerStep == [Next]_vars /\ UNCHANGED generationVars /\ InformerStep

\* The current worker ends and the next one starts.
NextWorker ==
    /\ StartWorker /\ generation < MaxGenerations
    /\ late' \subseteq Requests

\* A late request changes its place, its own state, or nothing but late.
LateStep(r) ==
    /\ UNCHANGED <<queueVars, processing, pc, err, client, settings, Versions,
                   condition, stopVars, revision, informerVars, generation, old>>
    /\ late' \subseteq Requests
    /\ \/ UNCHANGED <<pair, lateHit>>
       \/ /\ late' # late /\ NameOf[r.item] \in Served
          /\ pair' = [pair EXCEPT ![r.client][NameOf[r.item]] =
                        [present |-> r.pc # "delete", ver |-> VerOf[r.item]]]
          /\ lateHit' = lateHit \cup {NameOf[r.item]}

\* What exists at a place is what one event left there, the latest one, and the
\* item made of it has its uid, its place and its version.
LEMMA FoundFits ==
    ASSUME NEW n \in Names, NEW v \in Nat, NEW e \in ObjectAt(n, v),
           NEW a \in {"create", "update"}
    PROVE  /\ e \in Events /\ e \in Items /\ NameOf[e] = n /\ VerOf[e] <= v
           /\ ActOf[e] # "delete" /\ \A f \in EventsAt(n, v) : VerOf[f] <= VerOf[e]
           /\ Found(e, a) \in Items /\ ActOf[Found(e, a)] = a
           /\ UidOf[Found(e, a)] = UidOf[e] /\ NameOf[Found(e, a)] = n
           /\ VerOf[Found(e, a)] = VerOf[e]
BY GenerationsAssumption DEF ObjectAt, IsLatestAt, EventsAt

\* Handing over what was found is a step of the transport manager or none.
LEMMA HandOverStep ==
    ASSUME GTypeOK, NEW n \in Names, NEW a \in {"create", "update"}, HandOverFound(n, a)
    PROVE  /\ [Next]_vars
           /\ \/ ObjectAt(n, revision) = {} /\ handed' = handed
              \/ \E e \in ObjectAt(n, revision) : handed' = handed \cup {Found(e, a)}
<1>0. revision \in Nat
  BY GenerationsAssumption DEF GTypeOK
<1>1. CASE ObjectAt(n, revision) = {} /\ UNCHANGED vars
  BY <1>1 DEF vars, queueVars
<1>2. ASSUME NEW e \in ObjectAt(n, revision),
             IF Found(e, a) \in handed THEN UNCHANGED vars ELSE AddResourceObj(Found(e, a))
      PROVE  [Next]_vars /\ handed' = handed \cup {Found(e, a)}
  <2>1. Found(e, a) \in Items
    BY <1>0, FoundFits
  <2>2. CASE Found(e, a) \in handed /\ UNCHANGED vars
    BY <2>2 DEF vars, queueVars
  <2>3. CASE AddResourceObj(Found(e, a))
    BY <2>1, <2>3 DEF AddResourceObj, Next
  <2> QED BY <1>2, <2>2, <2>3
<1> QED BY <1>1, <1>2 DEF HandOverFound

\* Every step is one of the current worker and its informers, the start of the
\* next worker, or one of a late request.
LEMMA StepKinds ==
    ASSUME GTypeOK, [GNext]_gvars
    PROVE  WorkerStep \/ NextWorker \/ \E r \in late : LateStep(r)
<1>1. CASE SourceChanges
  BY <1>1 DEF SourceChanges, WorkerStep, InformerStep, vars, queueVars, informerVars
<1>2. ASSUME NEW n \in Names, List(n) PROVE WorkerStep
  <2>1. /\ HandOverFound(n, "create") /\ UNCHANGED <<revision, generationVars>>
        /\ listed' = listed \cup {n} /\ seen' = [seen EXCEPT ![n] = revision]
    BY <1>2 DEF List
  <2>2. [Next]_vars /\ Lists(n)
    BY <2>1, HandOverStep DEF Lists
  <2> QED BY <2>1, <2>2 DEF WorkerStep, InformerStep
<1>3. ASSUME NEW n \in Names, Reconnect(n) PROVE WorkerStep
  <2>1. /\ n \in listed /\ UNCHANGED <<revision, listed, generationVars>>
        /\ seen' = [seen EXCEPT ![n] = revision]
    BY <1>3 DEF Reconnect
  <2>2. PICK a \in {"create", "update"} : HandOverFound(n, a)
    BY <1>3 DEF Reconnect
  <2>3. listed' = listed \cup {n}
    BY <2>1
  <2>4. [Next]_vars /\ Lists(n)
    BY <2>1, <2>2, <2>3, HandOverStep DEF Lists
  <2> QED BY <2>1, <2>4 DEF WorkerStep, InformerStep
<1>4. ASSUME NEW e \in Events, Watch(e) PROVE WorkerStep
  <2>1. e \in Items /\ AddResourceObj(e)
    BY <1>4, GenerationsAssumption DEF Watch
  <2>2. [Next]_vars /\ handed' = handed \cup {e}
    BY <2>1 DEF Next, AddResourceObj
  <2>3. Delivers(e) /\ UNCHANGED generationVars
    BY <1>4, <2>2 DEF Watch, Delivers
  <2> QED BY <2>2, <2>3 DEF WorkerStep, InformerStep
<1>5. CASE Succeed \/ Restart
  <2>1. UnderWay \subseteq Requests /\ StillTaken \subseteq Requests
    BY DEF UnderWay, StillTaken
  <2>2. late' \subseteq Requests
    BY <1>5, <2>1 DEF Succeed, Restart, GTypeOK
  <2> QED BY <1>5, <2>2 DEF Succeed, Restart, NextWorker
<1>6. ASSUME NEW r \in late, LateCall(r) PROVE LateStep(r)
  <2>1. UNCHANGED <<queueVars, processing, pc, err, client, settings, Versions,
                    condition, stopVars, revision, informerVars, generation, old>>
    BY <1>6 DEF LateCall
  <2>2. r \in Requests
    BY DEF GTypeOK
  <2>3. ASSUME r.pc = "get",
               late' = (late \ {r}) \cup
                 {[r EXCEPT !.pc = IF LateTarget(r).present THEN "patch" ELSE "create"]},
               UNCHANGED <<pair, lateHit>>
        PROVE  LateStep(r)
    <3>1. \A q \in Calls : [r EXCEPT !.pc = q] \in Requests
      BY <2>2 DEF Requests
    <3>2. late' \subseteq Requests
      BY <2>3, <3>1 DEF Calls, GTypeOK
    <3> QED BY <2>1, <2>3, <3>2 DEF LateStep
  <2>4. ASSUME NEW allowed, LateWrite(r, allowed) PROVE LateStep(r)
    <3>1. late' \subseteq Requests /\ late' # late
      BY <2>4 DEF LateWrite, GTypeOK
    <3> QED BY <2>1, <2>4, <3>1 DEF LateStep, LateWrite
  <2> QED BY <1>6, <2>3, <2>4 DEF LateCall
<1>7. ASSUME NEW r \in late, LateLost(r) PROVE LateStep(r)
  BY <1>7 DEF LateLost, LateStep, vars, GTypeOK
<1>8. CASE TransportManagerStep
  <2>1. /\ \/ \E i \in Items : DelayExpires(i) \/ transport(i)
           \/ \E c \in Clusters : SetConfig(c)
           \/ Loop \/ QueueClosed \/ Cancel \/ ShutDown
        /\ UNCHANGED <<revision, informerVars, generationVars>>
    BY <1>8 DEF TransportManagerStep
  <2>2. Next
    BY <2>1 DEF Next
  <2>3. handed' = handed
    <3>1. ASSUME NEW i \in Items, DelayExpires(i) \/ transport(i) PROVE handed' = handed
      BY <3>1 DEF transport, SkipOldVersion, StartTransport, FinishTransport, GetTarget,
                  GetTargetFails, RequestLost, CreateTarget, PatchTarget, DeleteTarget,
                  DelayExpires, queueVars
    <3>2. ASSUME NEW c \in Clusters, SetConfig(c) PROVE handed' = handed
      BY <3>2 DEF SetConfig, queueVars
    <3>3. CASE Loop \/ QueueClosed \/ Cancel \/ ShutDown
      BY <3>3 DEF Loop, QueueClosed, Cancel, ShutDown, queueVars
    <3> QED BY <2>1, <3>1, <3>2, <3>3
  <2> QED BY <2>1, <2>2, <2>3 DEF WorkerStep, InformerStep, informerVars
<1>9. CASE UNCHANGED gvars
  BY <1>9 DEF gvars, WorkerStep, InformerStep, vars, queueVars, informerVars
<1> QED BY <1>1, <1>2, <1>3, <1>4, <1>5, <1>6, <1>7, <1>8, <1>9 DEF GNext

-----------------------------------------------------------------------------
(* Type correctness.                                                       *)

\* What a late request leaves at a place is as any item would leave it there,
\* and every other place keeps what it has.
LEMMA LateValue ==
    ASSUME TypeOK, GTypeOK, NEW r \in late, LateStep(r)
    PROVE  /\ r.item \in Items
           /\ \/ UNCHANGED <<pair, lateHit>>
              \/ /\ late' # late /\ NameOf[r.item] \in Served
                 /\ lateHit' = lateHit \cup {NameOf[r.item]}
                 /\ \A c \in Clusters, n \in Names :
                      pair'[c][n] = IF c = r.client /\ n = NameOf[r.item]
                                      THEN [present |-> r.pc # "delete", ver |-> VerOf[r.item]]
                                      ELSE pair[c][n]
<1>1. r.item \in Items /\ r.client \in Clusters /\ NameOf[r.item] \in Names
  BY ItemAssumption DEF GTypeOK, Requests
<1> QED BY <1>1 DEF LateStep, TypeOK

\* Places that no late request has changed so far keep what they have.
LEMMA LateElsewhere ==
    ASSUME TypeOK, GTypeOK, NEW r \in late, LateStep(r)
    PROVE  /\ lateHit \subseteq lateHit'
           /\ \A c \in Clusters, n \in Names \ lateHit' : pair'[c][n] = pair[c][n]
BY LateValue

\* The bounds of the history and of the broken watches are kept.
LEMMA BoundStep ==
    ASSUME GTypeOK, [GNext]_gvars
    PROVE  revision' \in FirstRevision..LastRevision /\ reconnects' \in 0..MaxReconnects
<1> USE GenerationsAssumption DEF GTypeOK
<1>1. CASE SourceChanges
  BY <1>1 DEF SourceChanges, informerVars
<1>2. ASSUME NEW n \in Names, List(n) \/ Reconnect(n)
      PROVE  revision' \in FirstRevision..LastRevision /\ reconnects' \in 0..MaxReconnects
  BY <1>2 DEF List, Reconnect
<1>3. ASSUME NEW e \in Events, Watch(e) PROVE UNCHANGED <<revision, reconnects>>
  BY <1>3 DEF Watch
<1>4. CASE Succeed \/ Restart
  BY <1>4 DEF Succeed, Restart, StartWorker
<1>5. ASSUME NEW r \in late, LateCall(r) \/ LateLost(r) PROVE UNCHANGED <<revision, reconnects>>
  BY <1>5 DEF LateCall, LateLost, informerVars
<1>6. CASE TransportManagerStep \/ UNCHANGED gvars
  BY <1>6 DEF TransportManagerStep, gvars, informerVars
<1> QED BY <1>1, <1>2, <1>3, <1>4, <1>5, <1>6 DEF GNext

\* Each kind of step keeps the types of the transport manager's variables and
\* of those of the generations.
LEMMA GTypeStep ==
    ASSUME TypeOK, GTypeOK, [GNext]_gvars
    PROVE  TypeOK' /\ GTypeOK'
<1> USE ItemAssumption, GenerationsAssumption
<1>1. CASE WorkerStep
  <2>1. TypeOK'
    BY <1>1, TypeStep DEF WorkerStep
  <2>2. generation' = generation /\ late' = late /\ old' = old /\ lateHit' = lateHit
    BY <1>1 DEF WorkerStep, generationVars
  <2>3. revision \in Nat /\ \A e \in Events : VerOf[e] \in Nat /\ NameOf[e] \in Names
    BY DEF GTypeOK
  <2>4. listed' \subseteq Names /\ seen' \in [Names -> Nat]
    BY <1>1, <2>3 DEF WorkerStep, InformerStep, Lists, Delivers, GTypeOK
  <2>5. revision' \in FirstRevision..LastRevision /\ reconnects' \in 0..MaxReconnects
    BY BoundStep
  <2> QED BY <2>1, <2>2, <2>4, <2>5 DEF GTypeOK
<1>2. CASE NextWorker
  <2>1. /\ handed' = {} /\ ObjQueue' = <<>> /\ delayed' = {} /\ processing' = {}
        /\ pc' = "loop" /\ err' = "ok" /\ client' = NoCluster /\ settings' = NoCluster
        /\ Versions' = [u \in Uids |-> 0]
        /\ condition' = [n \in Names |-> [status |-> "none", ver |-> 0]]
        /\ ctxDone' = FALSE /\ shuttingDown' = FALSE /\ pair' = pair
    BY <1>2 DEF NextWorker, StartWorker
  <2>2. condition' \in [Names -> [status : Statuses, ver : Nat]]
    BY <2>1 DEF Statuses
  <2>3. TypeOK'
    <3>1. ObjQueue' \in Seq(Items) /\ Versions' \in [Uids -> Nat] /\ err' \in Outcomes
      BY <2>1 DEF Outcomes
    <3>2. pair' \in [Clusters -> [Names -> [present : BOOLEAN, ver : Nat]]]
      BY <2>1 DEF TypeOK
    <3>3. /\ handed' \subseteq Items /\ delayed' \subseteq Items /\ processing' \subseteq Items
          /\ client' \in Clusters \cup {NoCluster} /\ settings' \in Clusters \cup {NoCluster}
          /\ ctxDone' \in BOOLEAN /\ shuttingDown' \in BOOLEAN
      BY <2>1
    <3> QED BY <2>1, <2>2, <3>1, <3>2, <3>3 DEF TypeOK
  <2>4. /\ listed' = {} /\ seen' = [n \in Names |-> 0] /\ generation' = generation + 1
        /\ old' = [u \in Uids |-> IF old[u] < Versions[u] THEN Versions[u] ELSE old[u]]
        /\ late' \subseteq Requests /\ generation < MaxGenerations
        /\ revision' = revision /\ reconnects' = reconnects /\ lateHit' = lateHit
    BY <1>2 DEF NextWorker, StartWorker
  <2>5. generation' \in 1..MaxGenerations /\ seen' \in [Names -> Nat]
    BY <2>4 DEF GTypeOK
  <2>6. old' \in [Uids -> Nat]
    BY <2>4 DEF GTypeOK, TypeOK
  <2> QED BY <2>3, <2>4, <2>5, <2>6 DEF GTypeOK
<1>3. ASSUME NEW r \in late, LateStep(r) PROVE TypeOK' /\ GTypeOK'
  <2>1. r.item \in Items /\ r.client \in Clusters /\ NameOf[r.item] \in Names
    BY DEF GTypeOK, Requests
  <2>2. [present |-> r.pc # "delete", ver |-> VerOf[r.item]] \in [present : BOOLEAN, ver : Nat]
    BY <2>1
  <2>3. pair' \in [Clusters -> [Names -> [present : BOOLEAN, ver : Nat]]]
    <3>1. CASE UNCHANGED pair
      BY <3>1 DEF TypeOK
    <3>2. CASE pair' = [pair EXCEPT ![r.client][NameOf[r.item]] =
                          [present |-> r.pc # "delete", ver |-> VerOf[r.item]]]
      BY <2>1, <2>2, <3>2 DEF TypeOK
    <3> QED BY <1>3, <3>1, <3>2 DEF LateStep
  <2>4. late' \subseteq Requests /\ lateHit' \subseteq Names
    BY <1>3, <2>1 DEF LateStep, GTypeOK
  <2> QED BY <1>3, <2>3, <2>4 DEF LateStep, TypeOK, GTypeOK, queueVars, stopVars, informerVars
<1> QED BY <1>1, <1>2, <1>3, StepKinds

\* The first worker starts with well typed variables.
LEMMA GInitTypes == ASSUME GInit PROVE TypeOK /\ GTypeOK
<1>1. TypeOK
  BY InitTypes DEF GInit
<1> QED BY <1>1, GenerationsAssumption DEF GInit, GTypeOK

\* The variables of the worker, of its informers and of the late requests keep
\* their types over any number of generations.
THEOREM GenerationsTyped == GSpec => [](TypeOK /\ GTypeOK)
<1>1. GInit => TypeOK /\ GTypeOK
  BY GInitTypes
<1>2. TypeOK /\ GTypeOK /\ [GNext]_gvars => (TypeOK /\ GTypeOK)'
  BY GTypeStep
<1> QED BY <1>1, <1>2, PTL DEF GSpec

-----------------------------------------------------------------------------
(* What is true of every worker.                                           *)

\* The part of the transport manager's invariant that the next worker starts
\* with and that late requests leave alone.
WorkerInv ==
    TypeOK /\ GTypeOK /\ OneAtATime /\ CallFits /\ PresentIsWritten /\ NoItemLost

\* Nothing is at work when a worker starts, and a late request, too, leaves
\* what an item of its place has written.
LEMMA WorkerInvStep == ASSUME WorkerInv, [GNext]_gvars PROVE WorkerInv'
<1>1. TypeOK' /\ GTypeOK'
  BY GTypeStep DEF WorkerInv
<1>2. CASE WorkerStep
  BY <1>1, <1>2, OneAtATimeStep, CallFitsStep, PresentIsWrittenStep, NoItemLostStep
     DEF WorkerStep, WorkerInv
<1>3. CASE NextWorker
  <2>1. /\ handed' = {} /\ ObjQueue' = <<>> /\ delayed' = {} /\ processing' = {}
        /\ pc' = "loop" /\ pair' = pair
    BY <1>3 DEF NextWorker, StartWorker
  <2>2. OneAtATime' /\ CallFits' /\ NoItemLost'
    BY <2>1 DEF OneAtATime, CallFits, NoItemLost, Calls
  <2>3. PresentIsWritten'
    BY <2>1 DEF WorkerInv, PresentIsWritten
  <2> QED BY <1>1, <2>2, <2>3 DEF WorkerInv
<1>4. ASSUME NEW r \in late, LateStep(r) PROVE WorkerInv'
  <2>1. UNCHANGED <<queueVars, processing, pc, client, Versions, stopVars>>
    BY <1>4 DEF LateStep
  <2>2. OneAtATime' /\ CallFits' /\ NoItemLost'
    BY <2>1 DEF WorkerInv, OneAtATime, CallFits, NoItemLost, Pending, InQueue, Settled,
                isNewVersion, queueVars, stopVars
  <2>3. PresentIsWritten'
    <3>1. CASE UNCHANGED pair
      BY <3>1 DEF WorkerInv, PresentIsWritten
    <3>2. CASE ~ UNCHANGED pair
      <4>1. /\ r.item \in Items /\ NameOf[r.item] \in Served
            /\ \A c \in Clusters, n \in Names :
                 pair'[c][n] = IF c = r.client /\ n = NameOf[r.item]
                                 THEN [present |-> r.pc # "delete", ver |-> VerOf[r.item]]
                                 ELSE pair[c][n]
        BY <1>4, <3>2, LateValue DEF WorkerInv
      <4> QED BY <4>1 DEF WorkerInv, PresentIsWritten
    <3> QED BY <3>1, <3>2
  <2> QED BY <1>1, <2>2, <2>3 DEF WorkerInv
<1> QED BY <1>2, <1>3, <1>4, StepKinds DEF WorkerInv

\* Item i is event e, or what a list makes of what e left.
MadeOf(i, e) ==
    \/ i = e
    \/ ActOf[e] # "delete" /\ \E a \in {"create", "update"} : i = Found(e, a)

\* Everything handed over happened at the source, ...
HandedFrom == \A i \in handed : \E e \in Events : MadeOf(i, e) /\ VerOf[e] <= revision
\* ... informers know the past only, ...
SeenInPast == \A n \in Names : seen[n] <= revision
\* ... what is acknowledged is the version of an item that was handed over, ...
VersionsHanded ==
    \A u \in Uids : Versions[u] # 0 => \E k \in handed : UidOf[k] = u /\ VerOf[k] = Versions[u]
\* ... and what an earlier worker acknowledged happened at the source, too.
OldHappened ==
    \A u \in Uids : old[u] # 0 =>
      \E e \in Events : UidOf[e] = u /\ VerOf[e] = old[u] /\ old[u] <= revision

History == HandedFrom /\ SeenInPast /\ VersionsHanded /\ OldHappened

\* An item made of an event has its attributes, but for the action.
LEMMA MadeOfFits ==
    ASSUME NEW e \in Events, NEW i, MadeOf(i, e)
    PROVE  /\ i \in Items /\ e \in Items
           /\ UidOf[i] = UidOf[e] /\ NameOf[i] = NameOf[e] /\ VerOf[i] = VerOf[e]
           /\ ActOf[i] = "delete" <=> ActOf[e] = "delete"
           /\ ActOf[i] = "delete" => i = e
BY GenerationsAssumption DEF MadeOf

\* Two events at one place with the same version are the same event.
LEMMA SameEvent ==
    ASSUME NEW e \in Events, NEW f \in Events,
           NameOf[e] = NameOf[f], VerOf[e] = VerOf[f]
    PROVE  e = f
BY GenerationsAssumption

\* A step of the current worker hands over only what happened.
LEMMA HandedFromStep ==
    ASSUME WorkerInv, HandedFrom, WorkerStep
    PROVE  HandedFrom' /\ handed \subseteq handed' /\ revision <= revision'
<1> USE GenerationsAssumption, ItemAssumption DEF WorkerInv, GTypeOK
<1>0. revision \in Nat /\ \A e \in Events : VerOf[e] \in Nat /\ NameOf[e] \in Names
  OBVIOUS
<1>1. CASE UNCHANGED <<handed, revision>>
  BY <1>0, <1>1 DEF HandedFrom, MadeOf
<1>2. CASE handed' = handed /\ revision' = revision + 1
  <2>1. \A e \in Events : VerOf[e] <= revision => VerOf[e] <= revision'
    BY <1>0, <1>2
  <2> QED BY <1>0, <1>2, <2>1 DEF HandedFrom, MadeOf
<1>3. ASSUME NEW n \in Names, Lists(n)
      PROVE  HandedFrom' /\ handed \subseteq handed' /\ revision <= revision'
  <2>1. ASSUME NEW e \in ObjectAt(n, revision), NEW a \in {"create", "update"}
        PROVE  e \in Events /\ MadeOf(Found(e, a), e) /\ VerOf[e] <= revision
    BY <1>0, FoundFits DEF MadeOf
  <2>2. \A i \in handed' : i \in handed \/ \E e \in Events : MadeOf(i, e) /\ VerOf[e] <= revision
    BY <1>3, <2>1 DEF Lists
  <2>3. revision' = revision /\ handed \subseteq handed'
    BY <1>3 DEF Lists
  <2> QED BY <1>0, <2>2, <2>3 DEF HandedFrom, MadeOf
<1>4. ASSUME NEW e \in Events, Delivers(e)
      PROVE  HandedFrom' /\ handed \subseteq handed' /\ revision <= revision'
  <2>1. \A i \in handed' : i \in handed \/ \E f \in Events : MadeOf(i, f) /\ VerOf[f] <= revision
    <3>1. MadeOf(e, e)
      BY DEF MadeOf
    <3>2. handed' = handed \cup {e} /\ VerOf[e] <= revision
      BY <1>4 DEF Delivers
    <3> QED BY <3>1, <3>2
  <2>2. revision' = revision /\ handed \subseteq handed'
    BY <1>4 DEF Delivers
  <2> QED BY <1>0, <2>1, <2>2 DEF HandedFrom, MadeOf
<1> QED BY <1>1, <1>2, <1>3, <1>4 DEF WorkerStep, InformerStep

\* An informer does not see the future.
LEMMA SeenInPastStep ==
    ASSUME WorkerInv, SeenInPast, InformerStep
    PROVE  SeenInPast'
<1> USE GenerationsAssumption, ItemAssumption DEF SeenInPast
<1>0. /\ revision \in Nat /\ seen \in [Names -> Nat]
      /\ \A e \in Events : VerOf[e] \in Nat /\ NameOf[e] \in Names
  BY DEF WorkerInv, GTypeOK
<1> QED BY <1>0 DEF InformerStep, Lists, Delivers

\* An acknowledgement is that of the item between Get and Done.
LEMMA AcknowledgedIsHanded ==
    ASSUME WorkerInv, [Next]_vars
    PROVE  \/ Versions' = Versions
           \/ \E i \in processing :
                /\ i \in Items /\ i \in handed /\ isNewVersion(i) /\ UidOf[i] \in Uids
                /\ pc = "done" /\ err # "failed" /\ pc' = "loop"
                /\ UNCHANGED <<handed, pair>> /\ processing' = {}
                /\ \A u \in Uids : Versions'[u] = IF u = UidOf[i] THEN VerOf[i] ELSE Versions[u]
<1>1. ASSUME NEW i \in Items, FinishTransport(i), Versions' # Versions
      PROVE  /\ i \in processing /\ i \in handed /\ isNewVersion(i) /\ UidOf[i] \in Uids
             /\ pc = "done" /\ err # "failed" /\ pc' = "loop"
             /\ UNCHANGED <<handed, pair>> /\ processing' = {}
             /\ \A u \in Uids : Versions'[u] = IF u = UidOf[i] THEN VerOf[i] ELSE Versions[u]
  <2>1. /\ i \in processing /\ pc = "done" /\ err # "failed" /\ pc' = "loop"
        /\ UNCHANGED <<handed, pair>> /\ processing' = {}
        /\ Versions' = [Versions EXCEPT ![UidOf[i]] = VerOf[i]]
    BY <1>1 DEF FinishTransport
  <2>2. i \in handed /\ isNewVersion(i) /\ UidOf[i] \in Uids
    BY <2>1, ItemAssumption DEF WorkerInv, OneAtATime, CallFits
  <2> QED BY <2>1, <2>2 DEF WorkerInv, TypeOK
<1> QED BY <1>1, VersionStep

\* Every step keeps the history true.
LEMMA HistoryStep == ASSUME WorkerInv, History, [GNext]_gvars PROVE History'
<1> USE DEF History
<1>0. WorkerInv'
  BY WorkerInvStep
<1>1. CASE WorkerStep
  <2>1. HandedFrom' /\ handed \subseteq handed' /\ revision <= revision'
    BY <1>1, HandedFromStep
  <2>2. SeenInPast'
    BY <1>1, SeenInPastStep DEF WorkerStep
  <2>3. VersionsHanded'
    BY <1>1, <2>1, AcknowledgedIsHanded DEF WorkerStep, VersionsHanded
  <2>4. old' = old
    BY <1>1 DEF WorkerStep, generationVars
  <2>5. revision \in Nat /\ revision' \in Nat /\ old \in [Uids -> Nat]
    BY <1>0, GenerationsAssumption DEF WorkerInv, GTypeOK
  <2>6. OldHappened'
    BY <2>1, <2>4, <2>5 DEF OldHappened
  <2> QED BY <2>1, <2>2, <2>3, <2>6
<1>2. CASE NextWorker
  <2>1. /\ handed' = {} /\ revision' = revision /\ seen' = [n \in Names |-> 0]
        /\ Versions' = [u \in Uids |-> 0]
        /\ old' = [u \in Uids |-> IF old[u] < Versions[u] THEN Versions[u] ELSE old[u]]
    BY <1>2 DEF NextWorker, StartWorker
  <2>2. HandedFrom' /\ VersionsHanded'
    BY <2>1 DEF HandedFrom, VersionsHanded
  <2>3. SeenInPast'
    BY <2>1, GenerationsAssumption DEF SeenInPast, WorkerInv, GTypeOK
  <2>4. ASSUME NEW u \in Uids, Versions[u] # 0
        PROVE  \E e \in Events : UidOf[e] = u /\ VerOf[e] = Versions[u] /\ Versions[u] <= revision
    <3>1. PICK k \in handed : UidOf[k] = u /\ VerOf[k] = Versions[u]
      BY <2>4 DEF VersionsHanded
    <3>2. PICK e \in Events : MadeOf(k, e) /\ VerOf[e] <= revision
      BY DEF HandedFrom
    <3> QED BY <3>1, <3>2, MadeOfFits
  <2>5. old \in [Uids -> Nat] /\ Versions \in [Uids -> Nat]
    BY DEF WorkerInv, TypeOK, GTypeOK
  <2>6. OldHappened'
    BY <2>1, <2>4, <2>5 DEF OldHappened
  <2> QED BY <2>2, <2>3, <2>6
<1>3. ASSUME NEW r \in late, LateStep(r) PROVE History'
  BY <1>3 DEF LateStep, queueVars, informerVars, HandedFrom, MadeOf, SeenInPast,
              VersionsHanded, OldHappened
<1> QED BY <1>1, <1>2, <1>3, StepKinds DEF WorkerInv

-----------------------------------------------------------------------------
(* Nothing goes back.                                                      *)

\* Nothing handed over is older than what an earlier worker acknowledged, and
\* an informer that has listed its place has seen at least that.
NewerThanOld ==
    /\ \A i \in handed : old[UidOf[i]] <= VerOf[i]
    /\ \A e \in Events : NameOf[e] \in listed => old[UidOf[e]] <= seen[NameOf[e]]

\* What an earlier worker acknowledged of an object happened at its place.
LEMMA OldIsAtPlace ==
    ASSUME UidsKeepPlaces, WorkerInv, History, NEW e \in Events, old[UidOf[e]] # 0
    PROVE  \E f \in EventsAt(NameOf[e], revision) : VerOf[f] = old[UidOf[e]]
<1>1. e \in Items /\ UidOf[e] \in Uids
  BY ItemAssumption, GenerationsAssumption
<1>2. PICK f \in Events :
        UidOf[f] = UidOf[e] /\ VerOf[f] = old[UidOf[e]] /\ old[UidOf[e]] <= revision
  BY <1>1 DEF History, OldHappened
<1>3. NameOf[f] = NameOf[e]
  BY <1>1, <1>2, GenerationsAssumption DEF UidsKeepPlaces
<1> QED BY <1>2, <1>3 DEF EventsAt

\* A list shows the source as it is, which is no older than what an earlier
\* worker acknowledged; a watch only adds what is newer than the list.
LEMMA NewerThanOldStep ==
    ASSUME UidsKeepPlaces, WorkerInv, History, NewerThanOld, [GNext]_gvars
    PROVE  NewerThanOld'
<1> USE ItemAssumption, GenerationsAssumption
<1>0. /\ revision \in Nat /\ old \in [Uids -> Nat] /\ seen \in [Names -> Nat]
      /\ \A e \in Events : /\ e \in Items /\ VerOf[e] \in Nat
                           /\ NameOf[e] \in Names /\ UidOf[e] \in Uids
  BY DEF WorkerInv, GTypeOK
<1>1. ASSUME WorkerStep PROVE NewerThanOld'
  <2>1. old' = old
    BY <1>1 DEF WorkerStep, generationVars
  <2>2. CASE UNCHANGED <<handed, listed, seen>>
    BY <2>1, <2>2 DEF NewerThanOld
  <2>3. ASSUME NEW n \in Names, Lists(n) PROVE NewerThanOld'
    <3>1. ASSUME NEW e \in ObjectAt(n, revision), NEW a \in {"create", "update"}
          PROVE  old[UidOf[Found(e, a)]] <= VerOf[Found(e, a)]
      <4>1. /\ e \in Events /\ NameOf[e] = n
            /\ \A f \in EventsAt(n, revision) : VerOf[f] <= VerOf[e]
            /\ UidOf[Found(e, a)] = UidOf[e] /\ VerOf[Found(e, a)] = VerOf[e]
        BY <1>0, FoundFits
      <4>2. old[UidOf[e]] \in Nat /\ VerOf[e] \in Nat
        BY <1>0, <4>1
      <4> QED BY <4>1, <4>2, OldIsAtPlace
    <3>2. \A i \in handed' : old[UidOf[i]] <= VerOf[i]
      BY <2>3, <3>1 DEF Lists, NewerThanOld
    <3>3. ASSUME NEW e \in Events, NameOf[e] \in listed'
          PROVE  old[UidOf[e]] <= seen'[NameOf[e]]
      <4>1. CASE NameOf[e] = n
        <5>1. seen'[n] = revision /\ old[UidOf[e]] \in Nat
          BY <1>0, <2>3 DEF Lists
        <5>2. old[UidOf[e]] <= revision
          <6>1. CASE old[UidOf[e]] = 0
            BY <1>0, <6>1
          <6>2. CASE old[UidOf[e]] # 0
            BY <1>0, <6>2 DEF History, OldHappened
          <6> QED BY <6>1, <6>2
        <5> QED BY <4>1, <5>1, <5>2
      <4>2. CASE NameOf[e] # n
        BY <1>0, <2>3, <3>3, <4>2 DEF Lists, NewerThanOld
      <4> QED BY <4>1, <4>2
    <3> QED BY <2>1, <3>2, <3>3 DEF NewerThanOld
  <2>4. ASSUME NEW e \in Events, Delivers(e) PROVE NewerThanOld'
    <3>1. /\ NameOf[e] \in listed /\ seen[NameOf[e]] < VerOf[e] /\ handed' = handed \cup {e}
          /\ seen' = [seen EXCEPT ![NameOf[e]] = VerOf[e]] /\ listed' = listed
      BY <2>4 DEF Delivers
    <3>2. old[UidOf[e]] <= seen[NameOf[e]]
      BY <3>1 DEF NewerThanOld
    <3>3. old[UidOf[e]] \in Nat /\ seen[NameOf[e]] \in Nat /\ VerOf[e] \in Nat
      BY <1>0
    <3>4. \A i \in handed' : old[UidOf[i]] <= VerOf[i]
      BY <3>1, <3>2, <3>3 DEF NewerThanOld
    <3>5. ASSUME NEW f \in Events, NameOf[f] \in listed'
          PROVE  old[UidOf[f]] <= seen'[NameOf[f]]
      <4>1. old[UidOf[f]] <= seen[NameOf[f]]
        BY <3>1, <3>5 DEF NewerThanOld
      <4>2. seen[NameOf[f]] <= seen'[NameOf[f]]
        BY <1>0, <3>1
      <4>3. old[UidOf[f]] \in Nat /\ seen[NameOf[f]] \in Nat /\ seen'[NameOf[f]] \in Nat
        BY <1>0, <3>1
      <4> QED BY <4>1, <4>2, <4>3
    <3> QED BY <2>1, <3>4, <3>5 DEF NewerThanOld
  <2> QED BY <1>1, <2>2, <2>3, <2>4 DEF WorkerStep, InformerStep
<1>2. CASE NextWorker
  BY <1>2 DEF NextWorker, StartWorker, NewerThanOld
<1>3. ASSUME NEW r \in late, LateStep(r) PROVE NewerThanOld'
  BY <1>3 DEF LateStep, queueVars, informerVars, NewerThanOld
<1> QED BY <1>1, <1>2, <1>3, StepKinds DEF WorkerInv

GenerationsInv == WorkerInv /\ History /\ (UidsKeepPlaces => NewerThanOld)

\* In every generation at most one item is worked on, no item handed over is
\* lost, everything handed over, seen or acknowledged happened at the source,
\* and nothing is handed over that is older than what an earlier worker
\* acknowledged.
THEOREM GenerationsInvariant == GSpec => []GenerationsInv
<1>1. GInit => GenerationsInv
  <2> SUFFICES ASSUME GInit PROVE GenerationsInv
    OBVIOUS
  <2>1. TypeOK /\ GTypeOK
    BY GInitTypes
  <2>2. /\ Init /\ handed = {} /\ pc = "loop" /\ processing = {} /\ Versions = [u \in Uids |-> 0]
        /\ listed = {} /\ seen = [n \in Names |-> 0] /\ old = [u \in Uids |-> 0]
    BY DEF GInit, Init
  <2>3. OneAtATime /\ CallFits /\ NoItemLost
    BY DEF GInit, Init, OneAtATime, CallFits, NoItemLost, Calls
  <2>4. PresentIsWritten
    <3>1. \A c \in Clusters, n \in Names : pair[c][n] = Absent(n)
      BY DEF GInit, Init
    <3>2. \A n \in Names : Absent(n).present => n \in Preexisting
      BY DEF Absent
    <3> QED BY <3>1, <3>2, NameAssumption DEF PresentIsWritten
  <2>5. History
    BY <2>1, <2>2, GenerationsAssumption
       DEF History, HandedFrom, SeenInPast, VersionsHanded, OldHappened, GTypeOK
  <2>6. NewerThanOld
    BY <2>2 DEF NewerThanOld
  <2> QED BY <2>1, <2>3, <2>4, <2>5, <2>6 DEF GenerationsInv, WorkerInv
<1>2. GenerationsInv /\ [GNext]_gvars => GenerationsInv'
  BY WorkerInvStep, HistoryStep, NewerThanOldStep DEF GenerationsInv, UidsKeepPlaces
<1> QED BY <1>1, <1>2, PTL DEF GSpec

\* Objects at one place that only one object has had share a uid, as far as
\* they were handed over or acknowledged.
LEMMA SameObject ==
    ASSUME UidsKeepPlaces, WorkerInv, History, NEW j \in handed, NEW i \in Items,
           NameOf[i] = NameOf[j], OneObjectAt(NameOf[j]),
           Versions[UidOf[i]] # 0 \/ old[UidOf[i]] # 0
    PROVE  UidOf[i] = UidOf[j]
<1> USE ItemAssumption
<1>1. PICK f \in Events : MadeOf(j, f) /\ VerOf[f] <= revision
  BY DEF History, HandedFrom
<1>2. f \in EventsAt(NameOf[j], revision) /\ UidOf[f] = UidOf[j]
  BY <1>1, MadeOfFits DEF EventsAt
<1>3. \E g \in Events : UidOf[g] = UidOf[i] /\ VerOf[g] <= revision
  <2>1. CASE Versions[UidOf[i]] # 0
    <3>1. PICK k \in handed : UidOf[k] = UidOf[i]
      BY <2>1 DEF History, VersionsHanded
    <3>2. PICK g \in Events : MadeOf(k, g) /\ VerOf[g] <= revision
      BY DEF History, HandedFrom
    <3> QED BY <3>1, <3>2, MadeOfFits
  <2>2. CASE old[UidOf[i]] # 0
    BY <2>2 DEF History, OldHappened
  <2> QED BY <2>1, <2>2
<1>4. PICK g \in Events : UidOf[g] = UidOf[i] /\ VerOf[g] <= revision
  BY <1>3
<1>5. g \in EventsAt(NameOf[j], revision)
  BY <1>4, GenerationsAssumption DEF EventsAt, UidsKeepPlaces
<1> QED BY <1>2, <1>4, <1>5 DEF OneObjectAt

\* No request of the current worker takes an object back behind a version that
\* any worker has acknowledged, if objects keep their places.
THEOREM NeverGoesBack == ASSUME UidsKeepPlaces PROVE GSpec => NeverBack
<1> DEFINE Forward == \A i \in Items, c \in Clusters :
         OneObjectAt(NameOf[i]) /\ late' = late
         /\ pair'[c][NameOf[i]] # pair[c][NameOf[i]]
           => pair'[c][NameOf[i]].ver >= EverAcknowledged(UidOf[i])
<1>1. GenerationsInv /\ [GNext]_gvars => Forward
  <2> USE ItemAssumption
  <2> SUFFICES ASSUME GenerationsInv, [GNext]_gvars, NEW i \in Items, NEW c \in Clusters,
                      OneObjectAt(NameOf[i]), late' = late,
                      pair'[c][NameOf[i]] # pair[c][NameOf[i]]
               PROVE  pair'[c][NameOf[i]].ver >= EverAcknowledged(UidOf[i])
    OBVIOUS
  <2>1. WorkerInv /\ History /\ NewerThanOld /\ TypeOK /\ GTypeOK
    BY DEF GenerationsInv, WorkerInv
  <2>2. [Next]_vars
    <3>1. ~NextWorker
      BY DEF NextWorker, StartWorker
    <3>2. ASSUME NEW r \in late, LateStep(r) PROVE FALSE
      BY <3>2, <2>1, LateValue
    <3> QED BY <2>1, <3>1, <3>2, StepKinds DEF WorkerStep
  <2>3. PICK j \in processing :
          /\ SetTarget(j, ActOf[j] # "delete") /\ client \in Clusters /\ isNewVersion(j)
    BY <2>1, <2>2, WriteStep DEF WorkerInv
  <2>4. j \in handed /\ j \in Items
    BY <2>1 DEF WorkerInv, OneAtATime, TypeOK
  <2>5. pair'[c][NameOf[i]] = IF c = client /\ NameOf[i] = NameOf[j]
                                THEN [present |-> ActOf[j] # "delete", ver |-> VerOf[j]]
                                ELSE pair[c][NameOf[i]]
    BY <2>1, <2>3, <2>4, SetTargetValue
  <2>6. NameOf[i] = NameOf[j] /\ pair'[c][NameOf[i]].ver = VerOf[j]
    BY <2>5
  <2>7. /\ Versions[UidOf[i]] \in Nat /\ old[UidOf[i]] \in Nat /\ VerOf[j] \in Nat
    BY <2>1, <2>4 DEF TypeOK, GTypeOK
  <2>8. CASE Versions[UidOf[i]] = 0 /\ old[UidOf[i]] = 0
    BY <2>6, <2>7, <2>8 DEF EverAcknowledged
  <2>9. CASE Versions[UidOf[i]] # 0 \/ old[UidOf[i]] # 0
    <3>1. UidOf[i] = UidOf[j]
      BY <2>1, <2>4, <2>6, <2>9, SameObject
    <3>2. Versions[UidOf[i]] < VerOf[j] /\ old[UidOf[i]] <= VerOf[j]
      BY <2>1, <2>3, <2>4, <3>1 DEF isNewVersion, NewerThanOld
    <3> QED BY <2>6, <2>7, <3>2 DEF EverAcknowledged
  <2> QED BY <2>8, <2>9
<1>2. GenerationsInv /\ [GNext]_gvars => [Forward]_gvars
  BY <1>1
<1> QED BY <1>2, GenerationsInvariant, PTL DEF GSpec, NeverBack

-----------------------------------------------------------------------------
(* What exists arrives again.                                              *)

\* What an informer has seen last of an object that exists was handed over.
LatestIsHanded ==
    \A n \in listed : \A e \in ObjectAt(n, seen[n]) :
      \E i \in handed : /\ UidOf[i] = UidOf[e] /\ NameOf[i] = n /\ VerOf[i] = VerOf[e]
                        /\ ActOf[i] # "delete"

\* Neither a late request nor a deletion of this worker has to do with place n.
Calm(n) ==
    /\ n \in Served /\ n \notin lateHit
    /\ \A i \in handed : NameOf[i] = n => ActOf[i] # "delete"

\* A positive outcome at such a place means that something is there, ...
OutcomeIsPresent ==
    pc = "done" /\ err # "failed" => \A i \in processing :
      client \in Clusters /\ (Calm(NameOf[i]) => Target(i).present)

\* ... and so does an acknowledgement.
AckedIsPresent ==
    \A i \in handed : Calm(NameOf[i]) /\ Versions[UidOf[i]] # 0 =>
      \E c \in Clusters : pair[c][NameOf[i]].present

PresenceInv == LatestIsHanded /\ OutcomeIsPresent /\ AckedIsPresent

\* Calm ends, but it does not begin during a generation.
LEMMA CalmBefore ==
    ASSUME handed \subseteq handed', lateHit \subseteq lateHit', NEW n, Calm(n)'
    PROVE  Calm(n)
BY DEF Calm

\* The outcome of a call was there before, or it is that of the request that the
\* step answers: it is written, or a creation finds its target there.
LEMMA AnswerStep ==
    ASSUME TypeOK, OneAtATime, CallFits, PresentIsWritten, [Next]_vars,
           pc' = "done", err' # "failed"
    PROVE  \/ pc = "done" /\ UNCHANGED <<err, pair, processing, client>>
           \/ \E i \in Items :
                /\ processing = {i} /\ processing' = {i}
                /\ client \in Clusters /\ client' = client
                /\ NameOf[i] \in Served /\ UNCHANGED <<handed, Versions>>
                /\ \/ SetTarget(i, ActOf[i] # "delete")
                   \/ pair' = pair /\ pc = "create" /\ Target(i).present
<1>1. ASSUME NEW i \in Items, NEW f \in Fates,
             CreateTarget(i, f) \/ PatchTarget(i, f) \/ DeleteTarget(i, f)
      PROVE  /\ processing = {i} /\ processing' = {i}
             /\ client \in Clusters /\ client' = client
             /\ NameOf[i] \in Served /\ UNCHANGED <<handed, Versions>>
             /\ \/ SetTarget(i, ActOf[i] # "delete")
                \/ pair' = pair /\ pc = "create" /\ Target(i).present
  <2>1. /\ i \in processing /\ processing' = processing /\ client' = client
        /\ UNCHANGED <<handed, Versions>> /\ pc \in {"create", "patch", "delete"}
    BY <1>1 DEF CreateTarget, PatchTarget, DeleteTarget, queueVars
  <2>2. processing = {i} /\ client \in Clusters
    BY <2>1 DEF OneAtATime, CallFits, Calls
  <2>3. \/ pc = "create" /\ NameOf[i] \in Served /\ SetTarget(i, TRUE)
        \/ pc = "create" /\ NameOf[i] \in Served /\ pair' = pair /\ Target(i).present
        \/ pc = "patch" /\ Target(i).present /\ SetTarget(i, TRUE)
        \/ pc = "delete" /\ Target(i).present /\ SetTarget(i, FALSE)
    BY <1>1 DEF CreateTarget, PatchTarget, DeleteTarget, Answer
  <2>4. NameOf[i] \in Served
    BY <2>2, <2>3, ItemAssumption DEF Target, PresentIsWritten
  <2>5. /\ pc \in {"create", "patch"} => ActOf[i] # "delete"
        /\ pc = "delete" => ActOf[i] = "delete"
    BY <2>1 DEF CallFits
  <2>6. \/ SetTarget(i, ActOf[i] # "delete")
        \/ pair' = pair /\ pc = "create" /\ Target(i).present
    BY <2>3, <2>5 DEF SetTarget
  <2> QED BY <2>1, <2>2, <2>4, <2>6
<1>2. ASSUME NEW i \in Items, AddResourceObj(i) \/ DelayExpires(i)
      PROVE  pc = "done" /\ UNCHANGED <<err, pair, processing, client>>
  BY <1>2 DEF AddResourceObj, DelayExpires
<1>3. ASSUME NEW i \in Items,
             \/ SkipOldVersion(i) \/ StartTransport(i) \/ FinishTransport(i)
             \/ GetTarget(i) \/ GetTargetFails(i) \/ RequestLost(i)
      PROVE  FALSE
  BY <1>3, ItemAssumption DEF SkipOldVersion, StartTransport, FinishTransport, GetTarget,
              GetTargetFails, RequestLost, ObjectAction
<1>4. ASSUME NEW c \in Clusters, SetConfig(c)
      PROVE  pc = "done" /\ UNCHANGED <<err, pair, processing, client>>
  BY <1>4 DEF SetConfig
<1>5. CASE Loop \/ QueueClosed \/ ProcessDies
  BY <1>5 DEF Loop, QueueClosed, ProcessDies
<1>6. CASE Cancel \/ ShutDown \/ UNCHANGED vars
  BY <1>6 DEF Cancel, ShutDown, vars
<1> QED BY <1>1, <1>2, <1>3, <1>4, <1>5, <1>6 DEF Next, transport

\* A list hands over what exists, and the last event of a place is what exists.
LEMMA LatestIsHandedStep ==
    ASSUME WorkerInv, History, LatestIsHanded, [GNext]_gvars
    PROVE  LatestIsHanded'
<1> USE ItemAssumption, GenerationsAssumption
<1>0. /\ revision \in Nat /\ seen \in [Names -> Nat] /\ listed \subseteq Names
      /\ \A e \in Events : e \in Items /\ VerOf[e] \in Nat /\ NameOf[e] \in Names
  BY DEF WorkerInv, GTypeOK
<1>1. ASSUME WorkerStep PROVE LatestIsHanded'
  <2>0. handed \subseteq handed'
    BY <1>1, HandedFromStep DEF History
  <2> SUFFICES ASSUME NEW n \in listed', NEW e \in ObjectAt(n, seen'[n])
               PROVE  \E i \in handed' :
                        /\ UidOf[i] = UidOf[e] /\ NameOf[i] = n /\ VerOf[i] = VerOf[e]
                        /\ ActOf[i] # "delete"
    BY DEF LatestIsHanded, ObjectAt, IsLatestAt, EventsAt
  <2>1. CASE n \in listed /\ seen'[n] = seen[n]
    BY <2>0, <2>1 DEF LatestIsHanded
  <2>2. CASE UNCHANGED <<listed, seen>>
    BY <2>1, <2>2
  <2>3. ASSUME NEW m \in Names, Lists(m), n = m
        PROVE  \E i \in handed' :
                 /\ UidOf[i] = UidOf[e] /\ NameOf[i] = n /\ VerOf[i] = VerOf[e]
                 /\ ActOf[i] # "delete"
    <3>1. e \in ObjectAt(n, revision) /\ n \in Names
      BY <1>0, <2>3 DEF Lists
    <3>2. PICK f \in ObjectAt(n, revision), a \in {"create", "update"} :
            handed' = handed \cup {Found(f, a)}
      BY <2>3, <3>1 DEF Lists
    <3>3. f = e
      <4>1. /\ e \in Events /\ f \in Events /\ NameOf[e] = NameOf[f]
            /\ VerOf[e] <= VerOf[f] /\ VerOf[f] <= VerOf[e]
        BY <3>1, <3>2 DEF ObjectAt, IsLatestAt, EventsAt
      <4>2. VerOf[e] = VerOf[f]
        BY <1>0, <4>1
      <4> QED BY <4>1, <4>2, SameEvent
    <3> QED BY <1>0, <3>1, <3>2, <3>3, FoundFits
  <2>4. ASSUME NEW f \in Events, Delivers(f), n = NameOf[f]
        PROVE  \E i \in handed' :
                 /\ UidOf[i] = UidOf[e] /\ NameOf[i] = n /\ VerOf[i] = VerOf[e]
                 /\ ActOf[i] # "delete"
    <3>1. seen'[n] = VerOf[f] /\ f \in handed'
      BY <1>0, <2>4 DEF Delivers
    <3>2. f \in EventsAt(n, VerOf[f])
      BY <1>0, <2>4 DEF EventsAt
    <3>3. /\ e \in Events /\ NameOf[e] = n /\ VerOf[f] <= VerOf[e] /\ VerOf[e] <= VerOf[f]
          /\ ActOf[e] # "delete"
      BY <3>1, <3>2 DEF ObjectAt, IsLatestAt, EventsAt
    <3>4. VerOf[e] = VerOf[f]
      BY <1>0, <3>3
    <3>5. e = f
      BY <2>4, <3>3, <3>4, SameEvent
    <3> QED BY <3>1, <3>3, <3>5
  <2>5. ASSUME NEW m \in Names, Lists(m), n # m PROVE n \in listed /\ seen'[n] = seen[n]
    BY <1>0, <2>5 DEF Lists
  <2>6. ASSUME NEW f \in Events, Delivers(f), n # NameOf[f]
        PROVE  n \in listed /\ seen'[n] = seen[n]
    BY <1>0, <2>6 DEF Delivers
  <2> QED BY <1>1, <2>1, <2>2, <2>3, <2>4, <2>5, <2>6 DEF WorkerStep, InformerStep
<1>2. CASE NextWorker
  BY <1>2 DEF NextWorker, StartWorker, LatestIsHanded
<1>3. ASSUME NEW r \in late, LateStep(r) PROVE LatestIsHanded'
  BY <1>3 DEF LateStep, queueVars, informerVars, LatestIsHanded, ObjectAt, IsLatestAt, EventsAt
<1> QED BY <1>1, <1>2, <1>3, StepKinds DEF WorkerInv

\* A step of the current worker takes nothing away from a place of which it has
\* no deletion.
LEMMA WorkerKeepsPresent ==
    ASSUME WorkerInv, [Next]_vars, NEW n \in Names, NEW c \in Clusters,
           pair[c][n].present, \A i \in handed : NameOf[i] = n => ActOf[i] # "delete"
    PROVE  pair'[c][n].present
<1>1. CASE UNCHANGED pair
  BY <1>1
<1>2. ASSUME NEW i \in processing, SetTarget(i, ActOf[i] # "delete"), client \in Clusters
      PROVE  pair'[c][n].present
  <2>1. i \in Items /\ i \in handed
    BY DEF WorkerInv, TypeOK, OneAtATime
  <2>2. pair'[c][n] = IF c = client /\ n = NameOf[i]
                        THEN [present |-> ActOf[i] # "delete", ver |-> VerOf[i]]
                        ELSE pair[c][n]
    BY <1>2, <2>1, SetTargetValue DEF WorkerInv
  <2>3. CASE n = NameOf[i]
    <3>1. (ActOf[i] # "delete") = TRUE
      BY <2>1, <2>3
    <3>2. pair'[c][n] = [present |-> TRUE, ver |-> VerOf[i]] \/ pair'[c][n] = pair[c][n]
      BY <2>2, <3>1
    <3> QED BY <3>2
  <2> QED BY <2>2, <2>3
<1> QED BY <1>1, <1>2, WriteStep DEF WorkerInv

\* A positive answer of something other than a deletion leaves its target there.
LEMMA OutcomeIsPresentStep ==
    ASSUME WorkerInv, History, OutcomeIsPresent, [GNext]_gvars
    PROVE  OutcomeIsPresent'
<1> USE ItemAssumption
<1>0. processing \subseteq handed /\ handed \subseteq Items
  BY DEF WorkerInv, OneAtATime, TypeOK
<1>1. ASSUME WorkerStep PROVE OutcomeIsPresent'
  <2>0. [Next]_vars /\ handed \subseteq handed' /\ lateHit' = lateHit
    BY <1>1, HandedFromStep DEF History, WorkerStep, generationVars
  <2> SUFFICES ASSUME pc' = "done", err' # "failed", NEW i \in processing'
               PROVE  client' \in Clusters /\ (Calm(NameOf[i])' => Target(i)'.present)
    BY DEF OutcomeIsPresent
  <2>1. CASE pc = "done" /\ UNCHANGED <<err, pair, processing, client>>
    <3>1. client' \in Clusters /\ (Calm(NameOf[i]) => Target(i).present)
      BY <2>1 DEF OutcomeIsPresent
    <3>2. Target(i)' = Target(i)
      BY <2>1 DEF Target
    <3> QED BY <2>0, <3>1, <3>2, CalmBefore
  <2>2. ASSUME NEW j \in Items,
               processing = {j}, processing' = {j}, client \in Clusters, client' = client,
               handed' = handed,
               \/ SetTarget(j, ActOf[j] # "delete")
               \/ pair' = pair /\ pc = "create" /\ Target(j).present
        PROVE  client' \in Clusters /\ (Calm(NameOf[i])' => Target(i)'.present)
    <3>1. i = j
      BY <2>2
    <3>2. CASE SetTarget(j, ActOf[j] # "delete")
      <4>1. pair'[client][NameOf[i]] = [present |-> ActOf[i] # "delete", ver |-> VerOf[i]]
        BY <2>2, <3>1, <3>2, SetTargetValue DEF WorkerInv
      <4>2. Calm(NameOf[i])' => ActOf[i] # "delete"
        BY <1>0, <2>2, <3>1 DEF Calm
      <4>3. Target(i)' = pair'[client][NameOf[i]]
        BY <2>2 DEF Target
      <4>4. ASSUME Calm(NameOf[i])' PROVE Target(i)'.present
        <5>1. (ActOf[i] # "delete") = TRUE
          BY <4>2, <4>4
        <5>2. Target(i)' = [present |-> TRUE, ver |-> VerOf[i]]
          BY <4>1, <4>3, <5>1
        <5> QED BY <5>2
      <4> QED BY <2>2, <4>4
    <3>3. CASE pair' = pair /\ Target(j).present
      BY <2>2, <3>1, <3>3 DEF Target
    <3> QED BY <2>2, <3>2, <3>3
  <2> QED BY <2>0, <2>1, <2>2, AnswerStep DEF WorkerInv
<1>2. CASE NextWorker
  BY <1>2 DEF NextWorker, StartWorker, OutcomeIsPresent
<1>3. ASSUME NEW r \in late, LateStep(r) PROVE OutcomeIsPresent'
  <2>1. /\ UNCHANGED <<pc, err, processing, client, handed>> /\ lateHit \subseteq lateHit'
        /\ \A c \in Clusters, n \in Names \ lateHit' : pair'[c][n] = pair[c][n]
    BY <1>3, LateElsewhere DEF LateStep, queueVars, WorkerInv
  <2> SUFFICES ASSUME pc' = "done", err' # "failed", NEW i \in processing'
               PROVE  client' \in Clusters /\ (Calm(NameOf[i])' => Target(i)'.present)
    BY DEF OutcomeIsPresent
  <2>2. client \in Clusters /\ (Calm(NameOf[i]) => Target(i).present)
    BY <2>1 DEF OutcomeIsPresent
  <2>3. ASSUME Calm(NameOf[i])' PROVE Target(i)'.present
    <3>1. NameOf[i] \in Names \ lateHit'
      BY <1>0, <2>1, <2>3 DEF Calm
    <3>2. Calm(NameOf[i])
      BY <2>1, <2>3, CalmBefore
    <3> QED BY <2>1, <2>2, <3>1, <3>2 DEF Target
  <2> QED BY <2>1, <2>2, <2>3
<1> QED BY <1>1, <1>2, <1>3, StepKinds DEF WorkerInv

\* An acknowledgement at a calm place is given for something that is there, and
\* nobody takes it away.
LEMMA AckedIsPresentStep ==
    ASSUME UidsKeepPlaces, WorkerInv, History, OutcomeIsPresent, AckedIsPresent, [GNext]_gvars
    PROVE  AckedIsPresent'
<1> USE ItemAssumption
<1>0. processing \subseteq handed /\ handed \subseteq Items /\ handed' \subseteq Items
  BY WorkerInvStep DEF WorkerInv, OneAtATime, TypeOK
<1>1. ASSUME WorkerStep PROVE AckedIsPresent'
  <2>0. [Next]_vars /\ handed \subseteq handed' /\ lateHit' = lateHit
    BY <1>1, HandedFromStep DEF History, WorkerStep, generationVars
  <2> SUFFICES ASSUME NEW i \in handed', Calm(NameOf[i])', Versions'[UidOf[i]] # 0
               PROVE  \E c \in Clusters : pair'[c][NameOf[i]].present
    BY DEF AckedIsPresent
  <2>1. i \in Items /\ Calm(NameOf[i]) /\ NameOf[i] \in Names /\ UidOf[i] \in Uids
    BY <1>0, <2>0, CalmBefore
  <2>2. ASSUME Versions[UidOf[i]] # 0
        PROVE  \E c \in Clusters : pair'[c][NameOf[i]].present
    <3>1. PICK k \in handed : UidOf[k] = UidOf[i]
      BY <2>1, <2>2 DEF History, VersionsHanded
    <3>2. NameOf[k] = NameOf[i]
      BY <1>0, <2>1, <3>1 DEF UidsKeepPlaces
    <3>3. PICK c \in Clusters : pair[c][NameOf[i]].present
      BY <2>1, <2>2, <3>1, <3>2 DEF AckedIsPresent
    <3> QED BY <2>0, <2>1, <3>3, WorkerKeepsPresent DEF Calm
  <2>3. ASSUME NEW j \in processing, j \in Items, pc = "done", err # "failed", pair' = pair,
               UidOf[j] = UidOf[i]
        PROVE  \E c \in Clusters : pair'[c][NameOf[i]].present
    <3>1. NameOf[j] = NameOf[i]
      BY <2>1, <2>3 DEF UidsKeepPlaces
    <3> QED BY <2>1, <2>3, <3>1 DEF OutcomeIsPresent, Target
  <2>4. CASE Versions' = Versions
    BY <2>2, <2>4
  <2>5. ASSUME NEW j \in processing, j \in Items, pc = "done", err # "failed", pair' = pair,
               \A u \in Uids : Versions'[u] = IF u = UidOf[j] THEN VerOf[j] ELSE Versions[u]
        PROVE  \E c \in Clusters : pair'[c][NameOf[i]].present
    BY <2>1, <2>2, <2>3, <2>5
  <2> QED BY <2>0, <2>4, <2>5, AcknowledgedIsHanded
<1>2. CASE NextWorker
  BY <1>2 DEF NextWorker, StartWorker, AckedIsPresent
<1>3. ASSUME NEW r \in late, LateStep(r) PROVE AckedIsPresent'
  <2>1. /\ UNCHANGED <<handed, Versions>> /\ lateHit \subseteq lateHit'
        /\ \A c \in Clusters, n \in Names \ lateHit' : pair'[c][n] = pair[c][n]
    BY <1>3, LateElsewhere DEF LateStep, queueVars, WorkerInv
  <2> SUFFICES ASSUME NEW i \in handed', Calm(NameOf[i])', Versions'[UidOf[i]] # 0
               PROVE  \E c \in Clusters : pair'[c][NameOf[i]].present
    BY DEF AckedIsPresent
  <2>2. Calm(NameOf[i]) /\ NameOf[i] \in Names \ lateHit'
    BY <1>0, <2>1, CalmBefore DEF Calm
  <2>3. PICK c \in Clusters : pair[c][NameOf[i]].present
    BY <2>1, <2>2 DEF AckedIsPresent
  <2> QED BY <2>1, <2>2, <2>3
<1> QED BY <1>1, <1>2, <1>3, StepKinds DEF WorkerInv

\* At rest what was handed over is acknowledged, at its version or a newer one.
LEMMA RestIsSettled ==
    ASSUME WorkerInv, GAtRest, NEW i \in handed
    PROVE  /\ i \in Items /\ UidOf[i] \in Uids /\ NameOf[i] \in Names
           /\ VerOf[i] \in Nat \ {0} /\ Versions[UidOf[i]] \in Nat
           /\ Versions[UidOf[i]] >= VerOf[i] /\ Versions[UidOf[i]] # 0
<1>1. i \in Items /\ UidOf[i] \in Uids /\ NameOf[i] \in Names /\ VerOf[i] \in Nat \ {0}
  BY ItemAssumption DEF WorkerInv, TypeOK
<1>2. Versions[UidOf[i]] \in Nat
  BY <1>1 DEF WorkerInv, TypeOK
<1>3. ~Pending(i)
  BY DEF GAtRest, Quiescent, WorkerInv, OneAtATime, Pending, InQueue
<1>4. Settled(i)
  BY <1>3 DEF GAtRest, Quiescent, WorkerInv, NoItemLost
<1> QED BY <1>1, <1>2, <1>4 DEF Settled, isNewVersion

\* At rest every object of the source is in the pair cluster at each undisturbed
\* place, however often the worker was replaced, if objects keep their places
\* and a deletion is an object's last version.
THEOREM PresentAgain ==
    ASSUME UidsKeepPlaces, DeletionIsLast
    PROVE  GSpec => []PresentAfterRelist
<1>1. GInit => PresenceInv
  BY DEF GInit, Init, PresenceInv, LatestIsHanded, OutcomeIsPresent, AckedIsPresent
<1>2. GenerationsInv /\ PresenceInv /\ [GNext]_gvars => PresenceInv'
  BY LatestIsHandedStep, OutcomeIsPresentStep, AckedIsPresentStep
     DEF GenerationsInv, PresenceInv
<1>3. GenerationsInv /\ PresenceInv => PresentAfterRelist
  <2> USE ItemAssumption, GenerationsAssumption
  <2> SUFFICES ASSUME GenerationsInv, PresenceInv, GAtRest, NEW n \in Names, NEW c \in Clusters,
                      Undisturbed(n), ObjectAt(n, revision) # {}
               PROVE  pair[c][n].present
    BY DEF PresentAfterRelist
  <2>0. /\ WorkerInv /\ History /\ revision \in Nat /\ seen[n] \in Nat /\ n \in listed
        /\ \A e \in Events : e \in Items /\ VerOf[e] \in Nat
    BY DEF GenerationsInv, WorkerInv, GTypeOK, GAtRest
  <2>1. PICK e \in ObjectAt(n, revision) : TRUE
    OBVIOUS
  <2>2. /\ e \in Events /\ NameOf[e] = n /\ ActOf[e] # "delete" /\ VerOf[e] <= revision
        /\ \A f \in EventsAt(n, revision) : VerOf[f] <= VerOf[e]
    BY <2>1 DEF ObjectAt, IsLatestAt, EventsAt
  <2>3. e \in ObjectAt(n, seen[n])
    <3>1. VerOf[e] <= seen[n]
      BY <2>2 DEF GAtRest
    <3>2. EventsAt(n, seen[n]) \subseteq EventsAt(n, revision)
      BY <2>0 DEF EventsAt, History, SeenInPast
    <3> QED BY <2>2, <3>1, <3>2 DEF ObjectAt, IsLatestAt, EventsAt
  <2>4. PICK i \in handed : UidOf[i] = UidOf[e] /\ NameOf[i] = n
    BY <2>0, <2>3 DEF PresenceInv, LatestIsHanded
  <2>5. Calm(n)
    <3>1. ASSUME NEW j \in handed, NameOf[j] = n, ActOf[j] = "delete" PROVE FALSE
      <4>1. UidOf[j] = UidOf[e]
        BY <2>1, <3>1 DEF Undisturbed, DeletesPredecessor
      <4>2. PICK f \in Events : MadeOf(j, f) /\ VerOf[f] <= revision
        BY <2>0 DEF History, HandedFrom
      <4>3. j = f
        BY <3>1, <4>2, MadeOfFits
      <4>4. VerOf[e] <= VerOf[j]
        BY <2>2, <3>1, <4>1, <4>3 DEF DeletionIsLast
      <4>5. VerOf[j] <= VerOf[e]
        BY <2>2, <3>1, <4>2, <4>3 DEF EventsAt
      <4>6. VerOf[j] = VerOf[e]
        BY <2>0, <2>2, <4>3, <4>4, <4>5
      <4> QED BY <2>2, <3>1, <4>3, <4>6, SameEvent
    <3> QED BY <3>1 DEF Calm, Undisturbed
  <2>6. Versions[UidOf[i]] # 0
    BY <2>0, RestIsSettled
  <2>7. \E d \in Clusters : pair[d][n].present
    BY <2>4, <2>5, <2>6 DEF PresenceInv, AckedIsPresent
  <2> QED BY <2>7 DEF GAtRest, OneCluster
<1> QED BY <1>1, <1>2, <1>3, GenerationsInvariant, PTL DEF GSpec

-----------------------------------------------------------------------------
(* What the worker watched arrives as it is.                               *)

\* What is at a place is what event e left.
Left(there, e) == there = [present |-> ActOf[e] # "delete", ver |-> VerOf[e]]

\* What is at a place that no late request changed is what an event left there.
LeftByEvent ==
    \A c \in Clusters, n \in Names : n \notin lateHit /\ pair[c][n].ver # 0 =>
      \E e \in Events : Left(pair[c][n], e) /\ NameOf[e] = n /\ VerOf[e] <= revision

\* An update is only made a creation where its Get found nothing.
UpdateFindsNothing ==
    pc = "create" => \A i \in processing :
      NameOf[i] \in lateHit \/ ActOf[i] = "create" \/ ~Target(i).present

\* A positive outcome of something other than a creation is written, ...
OutcomeIsWritten ==
    pc = "done" /\ err # "failed" => \A i \in processing :
      NameOf[i] \notin lateHit /\ ActOf[i] # "create" => Target(i).ver >= VerOf[i]

\* ... and so is what is acknowledged of an object that is alone at its place,
\* unless it may have been acknowledged as a creation.
OnlyChanges(i) ==
    /\ NameOf[i] \in Served \ lateHit
    /\ \A j \in handed : NameOf[j] = NameOf[i] => UidOf[j] = UidOf[i]
    /\ \A j \in handed : UidOf[j] = UidOf[i] /\ VerOf[j] = Versions[UidOf[i]] =>
         ActOf[j] # "create"
AckedIsWritten ==
    \A i \in handed : OnlyChanges(i) /\ Versions[UidOf[i]] # 0 =>
      \E c \in Clusters : pair[c][NameOf[i]].ver >= Versions[UidOf[i]]

MirrorInv ==
    /\ OutcomeIsPresent
    /\ LeftByEvent /\ UpdateFindsNothing /\ OutcomeIsWritten /\ AckedIsWritten

\* The worker writes what the event of the item left at the source.
LEMMA LeftByEventStep ==
    ASSUME WorkerInv, History, LeftByEvent, [GNext]_gvars
    PROVE  LeftByEvent'
<1> USE ItemAssumption, GenerationsAssumption
<1>0. revision \in Nat /\ \A e \in Events : VerOf[e] \in Nat
  BY DEF WorkerInv, GTypeOK
<1>1. ASSUME WorkerStep PROVE LeftByEvent'
  <2>0. /\ [Next]_vars /\ lateHit' = lateHit /\ revision <= revision' /\ revision' \in Nat
    BY <1>0, <1>1, HandedFromStep, GTypeStep, WorkerInvStep
       DEF History, WorkerStep, generationVars, WorkerInv, GTypeOK
  <2> SUFFICES ASSUME NEW c \in Clusters, NEW n \in Names, n \notin lateHit, pair'[c][n].ver # 0
               PROVE  \E e \in Events :
                        Left(pair'[c][n], e) /\ NameOf[e] = n /\ VerOf[e] <= revision
    BY <1>0, <2>0 DEF LeftByEvent, Left
  <2>1. CASE pair'[c][n] = pair[c][n]
    BY <2>1 DEF LeftByEvent
  <2>2. ASSUME NEW i \in processing, SetTarget(i, ActOf[i] # "delete"), client \in Clusters,
               pair'[c][n] # pair[c][n]
        PROVE  \E e \in Events :
                 Left(pair'[c][n], e) /\ NameOf[e] = n /\ VerOf[e] <= revision
    <3>1. i \in Items /\ i \in handed
      BY DEF WorkerInv, TypeOK, OneAtATime
    <3>2. pair'[c][n] = IF c = client /\ n = NameOf[i]
                          THEN [present |-> ActOf[i] # "delete", ver |-> VerOf[i]]
                          ELSE pair[c][n]
      BY <2>2, <3>1, SetTargetValue DEF WorkerInv
    <3>3. n = NameOf[i] /\ pair'[c][n] = [present |-> ActOf[i] # "delete", ver |-> VerOf[i]]
      BY <2>2, <3>2
    <3>4. PICK e \in Events : MadeOf(i, e) /\ VerOf[e] <= revision
      BY <3>1 DEF History, HandedFrom
    <3>5. NameOf[e] = n /\ VerOf[i] = VerOf[e] /\ (ActOf[i] = "delete" <=> ActOf[e] = "delete")
      BY <3>3, <3>4, MadeOfFits
    <3>6. Left(pair'[c][n], e)
      BY <3>3, <3>5 DEF Left
    <3> QED BY <3>4, <3>5, <3>6
  <2> QED BY <2>0, <2>1, <2>2, WriteStep DEF WorkerInv
<1>2. CASE NextWorker
  BY <1>2 DEF NextWorker, StartWorker, LeftByEvent, Left
<1>3. ASSUME NEW r \in late, LateStep(r) PROVE LeftByEvent'
  <2>1. /\ revision' = revision /\ lateHit \subseteq lateHit'
        /\ \A c \in Clusters, n \in Names \ lateHit' : pair'[c][n] = pair[c][n]
    BY <1>3, LateElsewhere DEF LateStep, WorkerInv
  <2> SUFFICES ASSUME NEW c \in Clusters, NEW n \in Names, n \notin lateHit', pair'[c][n].ver # 0
               PROVE  \E e \in Events :
                        Left(pair'[c][n], e) /\ NameOf[e] = n /\ VerOf[e] <= revision
    BY <2>1 DEF LeftByEvent, Left
  <2>2. n \notin lateHit /\ pair'[c][n] = pair[c][n]
    BY <2>1
  <2> QED BY <2>2 DEF LeftByEvent
<1> QED BY <1>1, <1>2, <1>3, StepKinds DEF WorkerInv

\* A creation is under way because it was before, because it starts, or because
\* the Get of an update has found nothing.
LEMMA CreateStep ==
    ASSUME OneAtATime, [Next]_vars, pc' = "create"
    PROVE  \/ pc = "create" /\ UNCHANGED <<pair, processing, client>>
           \/ \E i \in Items :
                /\ processing' = {i}
                /\ ActOf[i] = "create" \/ (UNCHANGED <<pair, client>> /\ ~Target(i).present)
<1>1. ASSUME NEW i \in Items, StartTransport(i)
      PROVE  processing' = {i} /\ ActOf[i] = "create"
  BY <1>1, ItemAssumption DEF StartTransport, ObjectAction
<1>2. ASSUME NEW i \in Items, GetTarget(i)
      PROVE  processing' = {i} /\ UNCHANGED <<pair, client>> /\ ~Target(i).present
  BY <1>2 DEF GetTarget, OneAtATime
<1>3. ASSUME NEW i \in Items, AddResourceObj(i) \/ DelayExpires(i)
      PROVE  pc = "create" /\ UNCHANGED <<pair, processing, client>>
  BY <1>3 DEF AddResourceObj, DelayExpires
<1>4. ASSUME NEW i \in Items,
             \/ SkipOldVersion(i) \/ FinishTransport(i) \/ GetTargetFails(i) \/ RequestLost(i)
             \/ \E f \in Fates : CreateTarget(i, f) \/ PatchTarget(i, f) \/ DeleteTarget(i, f)
      PROVE  FALSE
  BY <1>4 DEF SkipOldVersion, FinishTransport, GetTargetFails, RequestLost, CreateTarget,
              PatchTarget, DeleteTarget, Answer
<1>5. ASSUME NEW c \in Clusters, SetConfig(c)
      PROVE  pc = "create" /\ UNCHANGED <<pair, processing, client>>
  BY <1>5 DEF SetConfig
<1>6. CASE Loop \/ QueueClosed \/ ProcessDies
  BY <1>6 DEF Loop, QueueClosed, ProcessDies
<1>7. CASE Cancel \/ ShutDown \/ UNCHANGED vars
  BY <1>7 DEF Cancel, ShutDown, vars
<1> QED BY <1>1, <1>2, <1>3, <1>4, <1>5, <1>6, <1>7 DEF Next, transport

\* Only a late request can fill the place that a Get found empty.
LEMMA UpdateFindsNothingStep ==
    ASSUME WorkerInv, UpdateFindsNothing, [GNext]_gvars
    PROVE  UpdateFindsNothing'
<1> USE ItemAssumption DEF UpdateFindsNothing
<1>1. ASSUME WorkerStep PROVE UpdateFindsNothing'
  <2>0. [Next]_vars /\ lateHit' = lateHit
    BY <1>1 DEF WorkerStep, generationVars
  <2>1. CASE pc = "create" /\ UNCHANGED <<pair, processing, client>>
    BY <2>0, <2>1 DEF Target
  <2>2. ASSUME NEW i \in Items, processing' = {i},
               ActOf[i] = "create" \/ (UNCHANGED <<pair, client>> /\ ~Target(i).present)
        PROVE  UpdateFindsNothing'
    BY <2>2 DEF Target
  <2>3. CASE pc' # "create"
    BY <2>3
  <2> QED BY <2>0, <2>1, <2>2, <2>3, CreateStep DEF WorkerInv
<1>2. CASE NextWorker
  BY <1>2 DEF NextWorker, StartWorker
<1>3. ASSUME NEW r \in late, LateStep(r) PROVE UpdateFindsNothing'
  <2>1. /\ UNCHANGED <<pc, processing, client>> /\ lateHit \subseteq lateHit'
        /\ \A c \in Clusters, n \in Names \ lateHit' : pair'[c][n] = pair[c][n]
    BY <1>3, LateElsewhere DEF LateStep, WorkerInv
  <2>2. /\ pc = "create" => client \in Clusters
        /\ \A i \in processing : NameOf[i] \in Names
    BY DEF WorkerInv, CallFits, Calls, TypeOK
  <2>3. ASSUME pc = "create", NEW i \in processing, NameOf[i] \notin lateHit'
        PROVE  Target(i)' = Target(i)
    BY <2>1, <2>2, <2>3 DEF Target
  <2> QED BY <2>1, <2>3
<1> QED BY <1>1, <1>2, <1>3, StepKinds DEF WorkerInv

\* A positive answer of an update or a deletion is for a write of its own: the
\* creation that an update becomes is not answered "already exists".
LEMMA OutcomeIsWrittenStep ==
    ASSUME WorkerInv, OutcomeIsPresent, UpdateFindsNothing, OutcomeIsWritten, [GNext]_gvars
    PROVE  OutcomeIsWritten'
<1> USE ItemAssumption
<1>0. processing \subseteq handed /\ handed \subseteq Items
  BY DEF WorkerInv, OneAtATime, TypeOK
<1>1. ASSUME WorkerStep PROVE OutcomeIsWritten'
  <2>0. [Next]_vars /\ lateHit' = lateHit
    BY <1>1 DEF WorkerStep, generationVars
  <2> SUFFICES ASSUME pc' = "done", err' # "failed", NEW i \in processing',
                      NameOf[i] \notin lateHit, ActOf[i] # "create"
               PROVE  Target(i)'.ver >= VerOf[i]
    BY <2>0 DEF OutcomeIsWritten
  <2>1. CASE pc = "done" /\ UNCHANGED <<err, pair, processing, client>>
    BY <2>1 DEF OutcomeIsWritten, Target
  <2>2. ASSUME NEW j \in Items,
               processing = {j}, processing' = {j}, client \in Clusters, client' = client,
               \/ SetTarget(j, ActOf[j] # "delete")
               \/ pair' = pair /\ pc = "create" /\ Target(j).present
        PROVE  Target(i)'.ver >= VerOf[i]
    <3>1. i = j /\ SetTarget(i, ActOf[i] # "delete")
      BY <2>2 DEF UpdateFindsNothing
    <3>2. pair'[client][NameOf[i]] = [present |-> ActOf[i] # "delete", ver |-> VerOf[i]]
      BY <2>2, <3>1, SetTargetValue DEF WorkerInv
    <3>3. Target(i)'.ver = VerOf[i] /\ VerOf[i] \in Nat
      BY <2>2, <3>1, <3>2 DEF Target
    <3> QED BY <3>3
  <2> QED BY <2>0, <2>1, <2>2, AnswerStep DEF WorkerInv
<1>2. CASE NextWorker
  BY <1>2 DEF NextWorker, StartWorker, OutcomeIsWritten
<1>3. ASSUME NEW r \in late, LateStep(r) PROVE OutcomeIsWritten'
  <2>1. /\ UNCHANGED <<pc, err, processing, client>> /\ lateHit \subseteq lateHit'
        /\ \A c \in Clusters, n \in Names \ lateHit' : pair'[c][n] = pair[c][n]
    BY <1>3, LateElsewhere DEF LateStep, WorkerInv
  <2> SUFFICES ASSUME pc = "done", err # "failed", NEW i \in processing,
                      NameOf[i] \notin lateHit', ActOf[i] # "create"
               PROVE  Target(i)'.ver >= VerOf[i]
    BY <2>1 DEF OutcomeIsWritten
  <2>2. client \in Clusters /\ NameOf[i] \in Names
    BY <1>0 DEF OutcomeIsPresent
  <2>3. Target(i)' = Target(i)
    BY <2>1, <2>2 DEF Target
  <2> QED BY <2>1, <2>3 DEF OutcomeIsWritten
<1> QED BY <1>1, <1>2, <1>3, StepKinds DEF WorkerInv

\* An acknowledged update or deletion is written, and later writes to the place
\* are of the same object and newer.
LEMMA AckedIsWrittenStep ==
    ASSUME UidsKeepPlaces, WorkerInv, History, OutcomeIsPresent, OutcomeIsWritten,
           AckedIsWritten, [GNext]_gvars
    PROVE  AckedIsWritten'
<1> USE ItemAssumption
<1>0. processing \subseteq handed /\ handed \subseteq Items /\ handed' \subseteq Items
  BY WorkerInvStep DEF WorkerInv, OneAtATime, TypeOK
<1>1. ASSUME WorkerStep PROVE AckedIsWritten'
  <2>0. [Next]_vars /\ handed \subseteq handed' /\ lateHit' = lateHit
    BY <1>1, HandedFromStep DEF History, WorkerStep, generationVars
  <2> SUFFICES ASSUME NEW i \in handed', OnlyChanges(i)', Versions'[UidOf[i]] # 0
               PROVE  \E c \in Clusters : pair'[c][NameOf[i]].ver >= Versions'[UidOf[i]]
    BY DEF AckedIsWritten
  <2>1. /\ i \in Items /\ NameOf[i] \in Names /\ UidOf[i] \in Uids
        /\ NameOf[i] \in Served \ lateHit
        /\ \A j \in handed' : NameOf[j] = NameOf[i] => UidOf[j] = UidOf[i]
        /\ \A j \in handed' : UidOf[j] = UidOf[i] /\ VerOf[j] = Versions'[UidOf[i]] =>
             ActOf[j] # "create"
    BY <1>0, <2>0 DEF OnlyChanges
  <2>2. CASE Versions'[UidOf[i]] = Versions[UidOf[i]]
    <3>1. PICK k \in handed : UidOf[k] = UidOf[i]
      BY <2>1, <2>2 DEF History, VersionsHanded
    <3>2. NameOf[k] = NameOf[i]
      BY <1>0, <2>1, <3>1 DEF UidsKeepPlaces
    <3>3. OnlyChanges(k)
      BY <2>0, <2>1, <2>2, <3>1, <3>2 DEF OnlyChanges
    <3>4. PICK c \in Clusters : pair[c][NameOf[i]].ver >= Versions[UidOf[i]]
      BY <2>2, <3>1, <3>2, <3>3 DEF AckedIsWritten
    <3>5. CASE UNCHANGED pair
      BY <2>2, <3>4, <3>5
    <3>6. ASSUME NEW j \in processing, SetTarget(j, ActOf[j] # "delete"), client \in Clusters,
                 isNewVersion(j)
          PROVE  pair'[c][NameOf[i]].ver >= Versions[UidOf[i]]
      <4>1. j \in Items /\ j \in handed'
        BY <1>0, <2>0
      <4>2. pair'[c][NameOf[i]] = IF c = client /\ NameOf[i] = NameOf[j]
                                    THEN [present |-> ActOf[j] # "delete", ver |-> VerOf[j]]
                                    ELSE pair[c][NameOf[i]]
        BY <2>1, <3>6, <4>1, SetTargetValue DEF WorkerInv
      <4>3. CASE c = client /\ NameOf[i] = NameOf[j]
        <5>1. UidOf[j] = UidOf[i] /\ pair'[c][NameOf[i]].ver = VerOf[j]
          BY <2>1, <4>1, <4>2, <4>3
        <5>2. Versions[UidOf[i]] < VerOf[j] /\ Versions[UidOf[i]] \in Nat /\ VerOf[j] \in Nat
          BY <2>1, <3>6, <4>1, <5>1 DEF isNewVersion, WorkerInv, TypeOK
        <5> QED BY <5>1, <5>2
      <4>4. CASE ~(c = client /\ NameOf[i] = NameOf[j])
        BY <3>4, <4>2, <4>4
      <4> QED BY <4>3, <4>4
    <3> QED BY <2>0, <2>2, <3>5, <3>6, WriteStep DEF WorkerInv
  <2>3. ASSUME NEW j \in processing, j \in Items, UidOf[j] \in Uids, pc = "done",
               err # "failed", pair' = pair,
               \A u \in Uids : Versions'[u] = IF u = UidOf[j] THEN VerOf[j] ELSE Versions[u],
               Versions'[UidOf[i]] # Versions[UidOf[i]]
        PROVE  \E c \in Clusters : pair'[c][NameOf[i]].ver >= Versions'[UidOf[i]]
    <3>1. UidOf[j] = UidOf[i] /\ VerOf[j] = Versions'[UidOf[i]] /\ j \in handed'
      BY <1>0, <2>0, <2>1, <2>3
    <3>2. ActOf[j] # "create" /\ NameOf[j] = NameOf[i]
      BY <2>1, <2>3, <3>1 DEF UidsKeepPlaces
    <3>3. client \in Clusters /\ Target(j).ver >= VerOf[j]
      BY <2>1, <2>3, <3>2 DEF OutcomeIsWritten, OutcomeIsPresent
    <3> QED BY <2>3, <3>1, <3>2, <3>3 DEF Target
  <2> QED BY <2>0, <2>2, <2>3, AcknowledgedIsHanded
<1>2. CASE NextWorker
  BY <1>2 DEF NextWorker, StartWorker, AckedIsWritten
<1>3. ASSUME NEW r \in late, LateStep(r) PROVE AckedIsWritten'
  <2>1. /\ UNCHANGED <<handed, Versions>> /\ lateHit \subseteq lateHit'
        /\ \A c \in Clusters, n \in Names \ lateHit' : pair'[c][n] = pair[c][n]
    BY <1>3, LateElsewhere DEF LateStep, queueVars, WorkerInv
  <2> SUFFICES ASSUME NEW i \in handed', OnlyChanges(i)', Versions'[UidOf[i]] # 0
               PROVE  \E c \in Clusters : pair'[c][NameOf[i]].ver >= Versions'[UidOf[i]]
    BY DEF AckedIsWritten
  <2>2. OnlyChanges(i) /\ NameOf[i] \in Names \ lateHit'
    BY <1>0, <2>1 DEF OnlyChanges
  <2>3. PICK c \in Clusters : pair[c][NameOf[i]].ver >= Versions[UidOf[i]]
    BY <2>1, <2>2 DEF AckedIsWritten
  <2> QED BY <2>1, <2>2, <2>3
<1> QED BY <1>1, <1>2, <1>3, StepKinds DEF WorkerInv

\* At rest an object whose last change the current worker watched is in the pair
\* cluster as that change left it, if objects keep their places.
THEOREM WatchedAreMirrored == ASSUME UidsKeepPlaces PROVE GSpec => []WatchedIsMirrored
<1>1. GInit => MirrorInv
  <2> SUFFICES ASSUME GInit PROVE MirrorInv
    OBVIOUS
  <2>1. \A c \in Clusters, n \in Names : pair[c][n].ver = 0
    BY DEF GInit, Init, Absent
  <2> QED BY <2>1 DEF GInit, Init, MirrorInv, OutcomeIsPresent, LeftByEvent, UpdateFindsNothing,
                      OutcomeIsWritten, AckedIsWritten
<1>2. GenerationsInv /\ MirrorInv /\ [GNext]_gvars => MirrorInv'
  BY OutcomeIsPresentStep, LeftByEventStep, UpdateFindsNothingStep, OutcomeIsWrittenStep,
     AckedIsWrittenStep DEF GenerationsInv, MirrorInv
<1>3. GenerationsInv /\ MirrorInv => WatchedIsMirrored
  <2> SUFFICES ASSUME GenerationsInv, MirrorInv, GAtRest, NEW e \in Events, NEW c \in Clusters,
                      Watched(e), IsLatestAt(e, NameOf[e], revision),
                      Undisturbed(NameOf[e]), OneObjectAt(NameOf[e])
               PROVE  pair[c][NameOf[e]] = [present |-> ActOf[e] # "delete", ver |-> VerOf[e]]
    BY DEF WatchedIsMirrored
  <2> USE ItemAssumption, GenerationsAssumption
  <2> DEFINE n == NameOf[e]
  <2>0. /\ WorkerInv /\ History /\ e \in handed /\ e \in EventsAt(n, revision)
        /\ \A f \in EventsAt(n, revision) : VerOf[f] <= VerOf[e]
        /\ \A f \in Events : f \in Items /\ VerOf[f] \in Nat
    BY DEF GenerationsInv, Watched, IsLatestAt
  <2>1. /\ n \in Names /\ UidOf[e] \in Uids /\ Versions[UidOf[e]] >= VerOf[e]
        /\ Versions[UidOf[e]] # 0 /\ Versions[UidOf[e]] \in Nat /\ VerOf[e] \in Nat \ {0}
    BY <2>0, RestIsSettled
  <2>2. ASSUME NEW j \in handed, NameOf[j] = n
        PROVE  \E f \in EventsAt(n, revision) : MadeOf(j, f)
    <3>1. PICK f \in Events : MadeOf(j, f) /\ VerOf[f] <= revision
      BY <2>0 DEF History, HandedFrom
    <3> QED BY <2>2, <3>1, MadeOfFits DEF EventsAt
  <2>3. ASSUME NEW f \in EventsAt(n, revision), VerOf[f] >= VerOf[e] PROVE f = e
    <3>1. f \in Events /\ NameOf[f] = n /\ VerOf[f] <= VerOf[e]
      BY <2>0 DEF EventsAt
    <3>2. VerOf[f] = VerOf[e]
      BY <2>0, <2>3, <3>1
    <3> QED BY <3>1, <3>2, SameEvent
  <2>4. Versions[UidOf[e]] = VerOf[e]
    <3>1. PICK k \in handed : UidOf[k] = UidOf[e] /\ VerOf[k] = Versions[UidOf[e]]
      BY <2>0, <2>1 DEF History, VersionsHanded
    <3>2. NameOf[k] = n
      BY <2>0, <3>1 DEF UidsKeepPlaces, WorkerInv, TypeOK
    <3>3. PICK f \in EventsAt(n, revision) : MadeOf(k, f)
      BY <2>2, <3>2
    <3>4. VerOf[f] = VerOf[k]
      BY <3>3, MadeOfFits DEF EventsAt
    <3> QED BY <2>1, <2>3, <3>1, <3>3, <3>4
  <2>5. OnlyChanges(e)
    <3>1. NameOf[e] \in Served \ lateHit
      BY DEF Undisturbed
    <3>2. ASSUME NEW j \in handed, NameOf[j] = n PROVE UidOf[j] = UidOf[e]
      <4>1. PICK f \in EventsAt(n, revision) : MadeOf(j, f)
        BY <2>2, <3>2
      <4> QED BY <2>0, <4>1, MadeOfFits DEF OneObjectAt, EventsAt
    <3>3. ASSUME NEW j \in handed, UidOf[j] = UidOf[e], VerOf[j] = VerOf[e]
          PROVE  ActOf[j] # "create"
      <4>1. NameOf[j] = n
        BY <2>0, <3>3 DEF UidsKeepPlaces, WorkerInv, TypeOK
      <4>2. PICK f \in EventsAt(n, revision) : MadeOf(j, f)
        BY <2>2, <4>1
      <4>3. f = e
        BY <2>1, <2>3, <3>3, <4>2, MadeOfFits DEF EventsAt
      <4>4. ASSUME ActOf[e] # "delete", NEW a \in {"create", "update"}, j = Found(e, a)
            PROVE  ActOf[j] # "create"
        <5>1. ActOf[j] = a
          BY <4>4
        <5>2. a # "create"
          BY <4>4 DEF Watched
        <5> QED BY <5>1, <5>2
      <4> QED BY <4>2, <4>3, <4>4 DEF MadeOf, Watched
    <3> QED BY <2>4, <3>1, <3>2, <3>3 DEF OnlyChanges
  <2>6. pair[c][n].ver >= VerOf[e] /\ pair[c][n].ver \in Nat
    <3>1. \E d \in Clusters : pair[d][n].ver >= Versions[UidOf[e]]
      BY <2>0, <2>1, <2>5 DEF MirrorInv, AckedIsWritten
    <3>2. pair[c][n].ver \in Nat
      BY <2>0, <2>1 DEF WorkerInv, TypeOK
    <3> QED BY <2>4, <3>1, <3>2 DEF GAtRest, OneCluster
  <2>7. PICK f \in Events : Left(pair[c][n], f) /\ NameOf[f] = n /\ VerOf[f] <= revision
    <3>1. n \notin lateHit /\ pair[c][n].ver # 0
      BY <2>1, <2>6 DEF Undisturbed
    <3> QED BY <2>1, <3>1 DEF MirrorInv, LeftByEvent
  <2>8. f = e
    <3>1. f \in EventsAt(n, revision) /\ pair[c][n].ver = VerOf[f]
      BY <2>7 DEF EventsAt, Left
    <3> QED BY <2>3, <2>6, <3>1
  <2> QED BY <2>7, <2>8 DEF Left
<1> QED BY <1>1, <1>2, <1>3, GenerationsInvariant, PTL DEF GSpec
================================================================================
