------------------------ MODULE TransportManagerProofs ------------------------
(***************************************************************************)
(* Theorems about TransportManager for all values of its constants.        *)
(***************************************************************************)
EXTENDS TransportManager, TLAPS

(* The inductive invariant, in named parts.                                *)

\* The goroutine holds at most one item, only while it works on it, and the
\* queue holds only items that were handed over.
OneAtATime ==
    /\ \A i, j \in processing : i = j
    /\ pc \in {"loop", "dequeue", "stopped"} => processing = {}
    /\ processing \subseteq handed /\ delayed \subseteq handed
    /\ \A k \in 1..Len(ObjQueue) : ObjQueue[k] \in handed

\* What the goroutine may rely on while it talks to the pair cluster: the call
\* fits the action of an item that is new, ...
CallFits ==
    /\ pc \in Calls => client \in Clusters
    /\ \A i \in processing :
         /\ isNewVersion(i)
         /\ pc \in {"get", "patch"} => ActOf[i] = "update"
         /\ pc = "delete" => ActOf[i] = "delete"
         /\ pc = "create" => ActOf[i] # "delete"

\* ... and, while nobody else writes, an update only creates where nothing is.
UpdateCreates ==
    pc = "create" => \A i \in processing : ActOf[i] = "create" \/ ~Target(i).present

CallState == CallFits /\ UpdateCreates

\* A present target was there from the start or was written by one of its items.
PresentIsWritten ==
    \A c \in Clusters, n \in Names : pair[c][n].present =>
      n \in Served /\ (n \in Preexisting
                        \/ \E j \in Items : NameOf[j] = n /\ VerOf[j] = pair[c][n].ver)

\* A target of a tracked object is what one of its handed items left there.
TargetIsHanded ==
    \A c \in Clusters, k \in Items : UidOf[k] \in TrackedUids /\ NameOf[k] \in Served =>
      \/ pair[c][NameOf[k]] = [present |-> FALSE, ver |-> 0]
      \/ \E j \in handed : /\ NameOf[j] = NameOf[k]
                           /\ pair[c][NameOf[k]] = [present |-> ActOf[j] # "delete",
                                                   ver |-> VerOf[j]]

\* A positive outcome that is not acknowledged yet is already in the cluster.
OutcomeIsHeld ==
    pc = "done" /\ err # "failed" => \A i \in processing :
      /\ client \in Clusters /\ NameOf[i] \in Served
      /\ UidOf[i] \in TrackedUids => Target(i).ver >= VerOf[i]

\* A success was acknowledged and the acknowledgement is not taken back.
SuccessIsAcknowledged ==
    \A n \in Names : condition[n].status = "success" =>
      /\ n \in Served /\ condition[n].ver > 0
      /\ \A i \in Items : UidOf[i] \in TrackedUids /\ NameOf[i] = n =>
           Versions[UidOf[i]] >= condition[n].ver

IInv == /\ TypeOK /\ OneAtATime /\ CallState /\ PresentIsWritten /\ TargetIsHanded
        /\ OutcomeIsHeld /\ AcknowledgedIsHeld /\ SuccessIsAcknowledged /\ NoItemLost

-----------------------------------------------------------------------------
(* Type correctness.                                                       *)

\* Each action of the goroutine keeps every variable in its type.
LEMMA TransportKeepsTypes ==
    ASSUME TypeOK, NEW i \in Items, transport(i)
    PROVE  TypeOK'
<1> USE ItemAssumption, ClusterAssumption
<1>1. CASE SkipOldVersion(i)
  BY <1>1 DEF SkipOldVersion, TypeOK, queueVars, stopVars
<1>2. CASE StartTransport(i)
  BY <1>2 DEF StartTransport, TypeOK, Calls, ObjectAction, stopVars, Outcomes
<1>3. CASE FinishTransport(i)
  <2>1. VerOf[i] \in Nat /\ UidOf[i] \in Uids /\ NameOf[i] \in Names
    OBVIOUS
  <2>2. Versions' \in [Uids -> Nat]
    BY <1>3, <2>1 DEF FinishTransport, TypeOK
  <2>3. condition' \in [Names -> [status : Statuses, ver : Nat]]
    BY <1>3, <2>1 DEF FinishTransport, TypeOK, Statuses
  <2>4. delayed' \subseteq Items /\ processing' = {}
    BY <1>3 DEF FinishTransport, TypeOK
  <2> QED BY <1>3, <2>2, <2>3, <2>4 DEF FinishTransport, TypeOK, stopVars
<1>4. CASE GetTarget(i) \/ GetTargetFails(i) \/ RequestLost(i)
  BY <1>4 DEF GetTarget, GetTargetFails, RequestLost, TypeOK, Calls, queueVars,
              stopVars, Outcomes
<1>5. ASSUME NEW f \in Fates, CreateTarget(i, f) \/ PatchTarget(i, f) \/ DeleteTarget(i, f)
      PROVE  TypeOK'
  <2>1. VerOf[i] \in Nat /\ NameOf[i] \in Names
    OBVIOUS
  <2>2. pair' \in [Clusters -> [Names -> [present : BOOLEAN, ver : Nat]]]
    <3>1. ASSUME NEW there \in BOOLEAN, SetTarget(i, there)
          PROVE  pair' \in [Clusters -> [Names -> [present : BOOLEAN, ver : Nat]]]
      <4>1. [present |-> there, ver |-> VerOf[i]] \in [present : BOOLEAN, ver : Nat]
        BY <2>1
      <4> QED BY <2>1, <3>1, <4>1 DEF SetTarget, TypeOK
    <3>2. CASE UNCHANGED pair
      BY <3>2 DEF TypeOK
    <3> QED BY <1>5, <3>1, <3>2 DEF CreateTarget, PatchTarget, DeleteTarget
  <2>3. pc' \in {"done"} /\ err' \in Outcomes
    BY <1>5 DEF CreateTarget, PatchTarget, DeleteTarget, Answer, Outcomes
  <2> QED BY <1>5, <2>2, <2>3
          DEF CreateTarget, PatchTarget, DeleteTarget, TypeOK, queueVars, stopVars
<1> QED BY <1>1, <1>2, <1>3, <1>4, <1>5 DEF transport

\* The initial state is well typed.
LEMMA InitTypes == ASSUME Init PROVE TypeOK
<1>1. \A n \in Names : Absent(n) \in [present : BOOLEAN, ver : Nat]
  <2> TAKE n \in Names
  <2>1. (n \in Preexisting) \in BOOLEAN
    OBVIOUS
  <2> QED BY <2>1 DEF Absent
<1>2. pair \in [Clusters -> [Names -> [present : BOOLEAN, ver : Nat]]]
  BY <1>1 DEF Init
<1>3. condition \in [Names -> [status : Statuses, ver : Nat]]
  BY DEF Init, Statuses
<1>4. ObjQueue \in Seq(Items) /\ Versions \in [Uids -> Nat] /\ err \in Outcomes
  BY DEF Init, Outcomes
<1>5. /\ pc = "loop" /\ client = NoCluster /\ settings = NoCluster
      /\ ctxDone \in BOOLEAN /\ shuttingDown \in BOOLEAN
      /\ handed \subseteq Items /\ delayed \subseteq Items /\ processing \subseteq Items
  BY DEF Init
<1> QED BY <1>2, <1>3, <1>4, <1>5 DEF TypeOK

\* Every step keeps the types: the goroutine's by the lemma above, the others'
\* action by action.
LEMMA TypeStep == ASSUME TypeOK, [Next]_vars PROVE TypeOK'
<1>1. ASSUME NEW i \in Items, AddResourceObj(i) PROVE TypeOK'
  BY <1>1 DEF AddResourceObj, TypeOK, stopVars
<1>2. ASSUME NEW i \in Items, DelayExpires(i) PROVE TypeOK'
  BY <1>2 DEF DelayExpires, TypeOK, stopVars
<1>3. ASSUME NEW i \in Items, transport(i) PROVE TypeOK'
  BY <1>3, TransportKeepsTypes
<1>4. ASSUME NEW c \in Clusters, SetConfig(c) PROVE TypeOK'
  BY <1>4 DEF SetConfig, TypeOK, queueVars, stopVars
<1>5. CASE Loop \/ QueueClosed \/ ProcessDies
  BY <1>5 DEF Loop, QueueClosed, ProcessDies, TypeOK, queueVars, stopVars
<1>6. CASE Cancel \/ ShutDown
  BY <1>6 DEF Cancel, ShutDown, TypeOK, queueVars
<1>7. CASE UNCHANGED vars
  BY <1>7 DEF vars, TypeOK, queueVars, stopVars
<1> QED BY <1>1, <1>2, <1>3, <1>4, <1>5, <1>6, <1>7 DEF Next

\* Every variable keeps its type, for all items, clusters and faults.
THEOREM TypeCorrect == Spec => []TypeOK
<1>1. Init => TypeOK
  BY InitTypes
<1>2. TypeOK /\ [Next]_vars => TypeOK'
  BY TypeStep
<1> QED BY <1>1, <1>2, PTL DEF Spec

-----------------------------------------------------------------------------
(* Queues.                                                                 *)

\* Append keeps the elements and adds one at the end.
LEMMA AppendElements ==
    ASSUME NEW q \in Seq(Items), NEW i \in Items
    PROVE  /\ \A k \in 1..Len(q) : k \in 1..Len(Append(q, i)) /\ Append(q, i)[k] = q[k]
           /\ Len(Append(q, i)) \in 1..Len(Append(q, i))
           /\ Append(q, i)[Len(Append(q, i))] = i
           /\ \A k \in 1..Len(Append(q, i)) :
                \/ Append(q, i)[k] = i
                \/ k \in 1..Len(q) /\ Append(q, i)[k] = q[k]
<1> DEFINE a == Append(q, i)
<1>1. Len(q) \in Nat /\ Len(a) = Len(q) + 1 /\ a[Len(q) + 1] = i
  OBVIOUS
<1>2. \A k \in 1..Len(q) : a[k] = q[k]
  OBVIOUS
<1> HIDE DEF a
<1>3. \A k \in 1..Len(a) : k = Len(q) + 1 \/ k \in 1..Len(q)
  BY <1>1
<1>4. /\ \A k \in 1..Len(q) : k \in 1..Len(a) /\ a[k] = q[k]
      /\ Len(a) \in 1..Len(a) /\ a[Len(a)] = i
      /\ \A k \in 1..Len(a) : a[k] = i \/ (k \in 1..Len(q) /\ a[k] = q[k])
  BY <1>1, <1>2, <1>3
<1> QED BY <1>4 DEF a

\* An element of a queue is its head or an element of its tail.
LEMMA TailElements ==
    ASSUME NEW q \in Seq(Items), q # <<>>
    PROVE  /\ Head(q) = q[1] /\ 1 \in 1..Len(q)
           /\ \A k \in 1..Len(q) :
                q[k] = Head(q) \/ \E m \in 1..Len(Tail(q)) : Tail(q)[m] = q[k]
           /\ \A m \in 1..Len(Tail(q)) : m + 1 \in 1..Len(q) /\ Tail(q)[m] = q[m + 1]
<1>1. Head(q) = q[1] /\ 1 \in 1..Len(q)
  OBVIOUS
<1>2. \A m \in 1..Len(Tail(q)) : m + 1 \in 1..Len(q) /\ Tail(q)[m] = q[m + 1]
  OBVIOUS
<1>3. ASSUME NEW k \in 1..Len(q), k # 1
      PROVE  \E m \in 1..Len(Tail(q)) : Tail(q)[m] = q[k]
  <2>1. k - 1 \in 1..Len(Tail(q)) /\ Tail(q)[k - 1] = q[k]
    BY <1>3
  <2> QED BY <2>1
<1> QED BY <1>1, <1>2, <1>3

-----------------------------------------------------------------------------
(* The parts of the invariant.                                             *)

\* At most one item is between Get and Done, and only while pc says so.
LEMMA OneAtATimeStep ==
    ASSUME TypeOK, OneAtATime, [Next]_vars
    PROVE  OneAtATime'
<1> USE DEF OneAtATime
<1>1. ASSUME NEW i \in Items, AddResourceObj(i) PROVE OneAtATime'
  BY <1>1, AppendElements DEF AddResourceObj, TypeOK
<1>2. ASSUME NEW i \in Items, DelayExpires(i) PROVE OneAtATime'
  BY <1>2, AppendElements DEF DelayExpires, TypeOK
<1>3. ASSUME NEW i \in Items, SkipOldVersion(i) PROVE OneAtATime'
  BY <1>3, TailElements DEF SkipOldVersion, TypeOK
<1>4. ASSUME NEW i \in Items, StartTransport(i) PROVE OneAtATime'
  <2>1. i \in handed
    BY <1>4, TailElements DEF StartTransport, TypeOK
  <2>2. pc' \notin {"loop", "dequeue", "stopped"}
    BY <1>4, ItemAssumption DEF StartTransport, ObjectAction
  <2>3. \A k \in 1..Len(ObjQueue') : ObjQueue'[k] \in handed
    BY <1>4, TailElements DEF StartTransport, TypeOK
  <2> QED BY <1>4, <2>1, <2>2, <2>3 DEF StartTransport
<1>5. ASSUME NEW i \in Items, FinishTransport(i) PROVE OneAtATime'
  BY <1>5 DEF FinishTransport
<1>6. ASSUME NEW i \in Items, GetTarget(i) \/ GetTargetFails(i) \/ RequestLost(i)
      PROVE  OneAtATime'
  BY <1>6 DEF GetTarget, GetTargetFails, RequestLost, queueVars
<1>7. ASSUME NEW i \in Items, NEW f \in Fates,
             CreateTarget(i, f) \/ PatchTarget(i, f) \/ DeleteTarget(i, f)
      PROVE  OneAtATime'
  <2>1. pc' = "done" /\ UNCHANGED <<queueVars, processing>>
    BY <1>7 DEF CreateTarget, PatchTarget, DeleteTarget, Answer
  <2> QED BY <2>1 DEF queueVars
<1>8. ASSUME NEW c \in Clusters, SetConfig(c) PROVE OneAtATime'
  BY <1>8 DEF SetConfig, queueVars
<1>9. CASE Loop \/ QueueClosed \/ ProcessDies
  BY <1>9 DEF Loop, QueueClosed, ProcessDies, queueVars
<1>10. CASE Cancel \/ ShutDown \/ UNCHANGED vars
  BY <1>10 DEF Cancel, ShutDown, vars, queueVars
<1> QED BY <1>1, <1>2, <1>3, <1>4, <1>5, <1>6, <1>7, <1>8, <1>9, <1>10
        DEF Next, transport

\* A step leaves the pair clusters alone, or it is the request of the item in
\* processing: to a place the cluster serves, and newer than all acknowledged.
LEMMA WriteStep ==
    ASSUME TypeOK, CallFits, PresentIsWritten, [Next]_vars
    PROVE  \/ UNCHANGED pair
           \/ \E i \in processing :
                /\ SetTarget(i, ActOf[i] # "delete") /\ NameOf[i] \in Served
                /\ client \in Clusters /\ isNewVersion(i) /\ pc' = "done"
                /\ UNCHANGED <<handed, Versions, condition, processing, client>>
<1>1. ASSUME NEW i \in Items, NEW f \in Fates,
             CreateTarget(i, f) \/ PatchTarget(i, f) \/ DeleteTarget(i, f),
             ~ UNCHANGED pair
      PROVE  /\ SetTarget(i, ActOf[i] # "delete") /\ NameOf[i] \in Served /\ i \in processing
             /\ client \in Clusters /\ isNewVersion(i) /\ pc' = "done"
             /\ UNCHANGED <<handed, Versions, condition, processing, client>>
  <2>1. i \in processing /\ pc \in {"create", "patch", "delete"}
    BY <1>1 DEF CreateTarget, PatchTarget, DeleteTarget
  <2>2. client \in Clusters /\ isNewVersion(i)
    BY <2>1 DEF CallFits, Calls
  <2>3. NameOf[i] \in Served
    <3>1. CASE CreateTarget(i, f)
      BY <1>1, <3>1 DEF CreateTarget
    <3>2. CASE PatchTarget(i, f) \/ DeleteTarget(i, f)
      <4>1. Target(i).present
        BY <1>1, <3>2 DEF PatchTarget, DeleteTarget
      <4> QED BY <4>1, <2>2, ItemAssumption DEF Target, PresentIsWritten
    <3> QED BY <1>1, <3>1, <3>2
  <2>4. SetTarget(i, ActOf[i] # "delete")
    <3>1. CASE CreateTarget(i, f) \/ PatchTarget(i, f)
      <4>1. ActOf[i] # "delete"
        BY <2>1, <3>1 DEF CreateTarget, PatchTarget, CallFits
      <4>2. SetTarget(i, TRUE)
        BY <1>1, <3>1 DEF CreateTarget, PatchTarget
      <4> QED BY <4>1, <4>2 DEF SetTarget
    <3>2. CASE DeleteTarget(i, f)
      <4>1. ActOf[i] = "delete"
        BY <2>1, <3>2 DEF DeleteTarget, CallFits
      <4>2. SetTarget(i, FALSE)
        BY <1>1, <3>2 DEF DeleteTarget
      <4> QED BY <4>1, <4>2 DEF SetTarget
    <3> QED BY <1>1, <3>1, <3>2
  <2>5. pc' = "done" /\ UNCHANGED <<handed, Versions, condition, processing, client>>
    BY <1>1 DEF CreateTarget, PatchTarget, DeleteTarget, Answer, queueVars
  <2> QED BY <2>1, <2>2, <2>3, <2>4, <2>5
<1>2. ASSUME NEW i \in Items,
             \/ AddResourceObj(i) \/ DelayExpires(i) \/ SkipOldVersion(i)
             \/ StartTransport(i) \/ FinishTransport(i)
             \/ GetTarget(i) \/ GetTargetFails(i) \/ RequestLost(i)
      PROVE  UNCHANGED pair
  BY <1>2 DEF AddResourceObj, DelayExpires, SkipOldVersion, StartTransport,
              FinishTransport, GetTarget, GetTargetFails, RequestLost
<1>3. ASSUME NEW c \in Clusters, SetConfig(c) PROVE UNCHANGED pair
  BY <1>3 DEF SetConfig
<1>4. CASE Loop \/ QueueClosed \/ ProcessDies \/ Cancel \/ ShutDown \/ UNCHANGED vars
  BY <1>4 DEF Loop, QueueClosed, ProcessDies, Cancel, ShutDown, vars
<1> QED BY <1>1, <1>2, <1>3, <1>4 DEF Next, transport, TypeOK

\* What SetTarget does to the place of an item, and to every other place.
LEMMA SetTargetValue ==
    ASSUME TypeOK, NEW i \in Items, NEW there, SetTarget(i, there), client \in Clusters
    PROVE  \A c \in Clusters, n \in Names :
             pair'[c][n] = IF c = client /\ n = NameOf[i]
                             THEN [present |-> there, ver |-> VerOf[i]]
                             ELSE pair[c][n]
BY ItemAssumption DEF SetTarget, TypeOK

\* What exists in a pair cluster existed before or was written by an item.
LEMMA PresentIsWrittenStep ==
    ASSUME TypeOK, CallFits, PresentIsWritten, [Next]_vars
    PROVE  PresentIsWritten'
<1>1. CASE UNCHANGED pair
  BY <1>1 DEF PresentIsWritten
<1>2. ASSUME NEW i \in processing, SetTarget(i, ActOf[i] # "delete"),
             NameOf[i] \in Served, client \in Clusters
      PROVE  PresentIsWritten'
  <2>1. i \in Items
    BY DEF TypeOK
  <2>2. \A c \in Clusters, n \in Names :
          pair'[c][n] = IF c = client /\ n = NameOf[i]
                          THEN [present |-> ActOf[i] # "delete", ver |-> VerOf[i]]
                          ELSE pair[c][n]
    BY <1>2, <2>1, SetTargetValue
  <2> QED BY <1>2, <2>1, <2>2 DEF PresentIsWritten
<1> QED BY <1>1, <1>2, WriteStep

\* Only AddResourceObj changes the set of handed items.
LEMMA HandedStep ==
    ASSUME [Next]_vars
    PROVE  handed' = handed \/ \E i \in Items : AddResourceObj(i)
<1>1. ASSUME NEW i \in Items, transport(i) \/ DelayExpires(i) PROVE handed' = handed
  BY <1>1 DEF transport, SkipOldVersion, StartTransport, FinishTransport, GetTarget,
              GetTargetFails, RequestLost, CreateTarget, PatchTarget, DeleteTarget,
              DelayExpires, queueVars
<1>2. ASSUME NEW c \in Clusters, SetConfig(c) PROVE handed' = handed
  BY <1>2 DEF SetConfig, queueVars
<1>3. CASE Loop \/ QueueClosed \/ ProcessDies \/ Cancel \/ ShutDown \/ UNCHANGED vars
  BY <1>3 DEF Loop, QueueClosed, ProcessDies, Cancel, ShutDown, vars, queueVars
<1> QED BY <1>1, <1>2, <1>3 DEF Next

\* A tracked place holds nothing or what some item handed over has written.
LEMMA TargetIsHandedStep ==
    ASSUME TypeOK, OneAtATime, CallState, PresentIsWritten, TargetIsHanded, [Next]_vars
    PROVE  TargetIsHanded'
<1> USE ItemAssumption
<1>1. handed \subseteq handed'
  BY HandedStep DEF AddResourceObj
<1>2. CASE UNCHANGED pair
  BY <1>1, <1>2 DEF TargetIsHanded
<1>3. ASSUME NEW i \in processing, SetTarget(i, ActOf[i] # "delete"), client \in Clusters
      PROVE  TargetIsHanded'
  <2> SUFFICES ASSUME NEW c \in Clusters, NEW k \in Items,
                      UidOf[k] \in TrackedUids, NameOf[k] \in Served
               PROVE  \/ pair'[c][NameOf[k]] = [present |-> FALSE, ver |-> 0]
                      \/ \E j \in handed' :
                           /\ NameOf[j] = NameOf[k]
                           /\ pair'[c][NameOf[k]] = [present |-> ActOf[j] # "delete",
                                                     ver |-> VerOf[j]]
    BY DEF TargetIsHanded
  <2>1. i \in Items /\ i \in handed'
    BY <1>1 DEF TypeOK, OneAtATime
  <2>2. pair'[c][NameOf[k]] = IF c = client /\ NameOf[k] = NameOf[i]
                                THEN [present |-> ActOf[i] # "delete", ver |-> VerOf[i]]
                                ELSE pair[c][NameOf[k]]
    BY <1>3, <2>1, SetTargetValue
  <2>3. CASE c = client /\ NameOf[k] = NameOf[i]
    BY <2>1, <2>2, <2>3
  <2>4. CASE ~(c = client /\ NameOf[k] = NameOf[i])
    BY <1>1, <2>2, <2>4 DEF TargetIsHanded
  <2> QED BY <2>3, <2>4
<1> QED BY <1>2, <1>3, WriteStep DEF CallState

\* During a call the item is new and the call fits its action.
LEMMA CallFitsStep ==
    ASSUME TypeOK, OneAtATime, CallFits, [Next]_vars
    PROVE  CallFits'
<1> USE DEF CallFits, isNewVersion
<1>1. ASSUME NEW i \in Items, AddResourceObj(i) \/ DelayExpires(i) \/ SkipOldVersion(i)
      PROVE  CallFits'
  <2>1. UNCHANGED <<processing, client, Versions>>
    BY <1>1 DEF AddResourceObj, DelayExpires, SkipOldVersion
  <2>2. pc' = pc \/ pc' = "loop"
    BY <1>1 DEF AddResourceObj, DelayExpires, SkipOldVersion
  <2> QED BY <2>1, <2>2 DEF Calls
<1>2. ASSUME NEW i \in Items, StartTransport(i) PROVE CallFits'
  <2>1. processing' = {i} /\ Versions' = Versions /\ isNewVersion(i)
    BY <1>2 DEF StartTransport
  <2>2. pc' \in Calls => client' \in Clusters
    BY <1>2 DEF StartTransport, Calls, TypeOK
  <2>3. /\ pc' \in {"get", "patch"} => ActOf[i] = "update"
        /\ pc' = "create" => ActOf[i] = "create"
        /\ pc' = "delete" => ActOf[i] = "delete"
    BY <1>2, ItemAssumption DEF StartTransport, ObjectAction
  <2> QED BY <2>1, <2>2, <2>3
<1>3. ASSUME NEW i \in Items, FinishTransport(i) PROVE CallFits'
  BY <1>3 DEF FinishTransport, Calls
<1>4. ASSUME NEW i \in Items, GetTarget(i) PROVE CallFits'
  <2>1. /\ pc = "get" /\ i \in processing
        /\ UNCHANGED <<processing, client, Versions>>
        /\ pc' \in {"patch", "create"}
    BY <1>4 DEF GetTarget
  <2>2. processing = {i} /\ ActOf[i] = "update" /\ client \in Clusters
    BY <2>1 DEF OneAtATime, Calls
  <2> QED BY <2>1, <2>2
<1>5. ASSUME NEW i \in Items, GetTargetFails(i) \/ RequestLost(i) PROVE CallFits'
  BY <1>5 DEF GetTargetFails, RequestLost, Calls
<1>6. ASSUME NEW i \in Items, NEW f \in Fates,
             CreateTarget(i, f) \/ PatchTarget(i, f) \/ DeleteTarget(i, f)
      PROVE  CallFits'
  BY <1>6 DEF CreateTarget, PatchTarget, DeleteTarget, Answer, Calls
<1>7. ASSUME NEW c \in Clusters, SetConfig(c) PROVE CallFits'
  BY <1>7 DEF SetConfig
<1>8. CASE Loop \/ QueueClosed \/ ProcessDies
  BY <1>8 DEF Loop, QueueClosed, ProcessDies, Calls
<1>9. CASE Cancel \/ ShutDown \/ UNCHANGED vars
  BY <1>9 DEF Cancel, ShutDown, vars
<1> QED BY <1>1, <1>2, <1>3, <1>4, <1>5, <1>6, <1>7, <1>8, <1>9 DEF Next, transport

\* Nobody but the goroutine itself fills a place that its Get found empty.
LEMMA UpdateCreatesStep ==
    ASSUME TypeOK, OneAtATime, UpdateCreates, [Next]_vars
    PROVE  UpdateCreates'
<1> USE DEF UpdateCreates
<1>1. ASSUME NEW i \in Items, AddResourceObj(i) \/ DelayExpires(i) \/ SkipOldVersion(i)
      PROVE  UpdateCreates'
  BY <1>1 DEF AddResourceObj, DelayExpires, SkipOldVersion, Target
<1>2. ASSUME NEW i \in Items, StartTransport(i) PROVE UpdateCreates'
  BY <1>2, ItemAssumption DEF StartTransport
<1>3. ASSUME NEW i \in Items, GetTarget(i) PROVE UpdateCreates'
  <2>1. /\ i \in processing /\ UNCHANGED <<processing, client, pair>>
        /\ pc' = "patch" \/ (pc' = "create" /\ ~Target(i).present)
    BY <1>3 DEF GetTarget
  <2>2. processing = {i}
    BY <2>1 DEF OneAtATime
  <2> QED BY <2>1, <2>2 DEF Target
<1>4. ASSUME NEW i \in Items, FinishTransport(i) \/ GetTargetFails(i) \/ RequestLost(i)
      PROVE  UpdateCreates'
  BY <1>4 DEF FinishTransport, GetTargetFails, RequestLost
<1>5. ASSUME NEW i \in Items, NEW f \in Fates,
             CreateTarget(i, f) \/ PatchTarget(i, f) \/ DeleteTarget(i, f)
      PROVE  UpdateCreates'
  BY <1>5 DEF CreateTarget, PatchTarget, DeleteTarget, Answer
<1>6. ASSUME NEW c \in Clusters, SetConfig(c) PROVE UpdateCreates'
  BY <1>6 DEF SetConfig, Target
<1>7. CASE Loop \/ QueueClosed \/ ProcessDies
  BY <1>7 DEF Loop, QueueClosed, ProcessDies
<1>8. CASE Cancel \/ ShutDown \/ UNCHANGED vars
  BY <1>8 DEF Cancel, ShutDown, vars, Target
<1> QED BY <1>1, <1>2, <1>3, <1>4, <1>5, <1>6, <1>7, <1>8 DEF Next, transport

\* Both parts together.
LEMMA CallStateStep ==
    ASSUME TypeOK, OneAtATime, CallState, [Next]_vars
    PROVE  CallState'
BY CallFitsStep, UpdateCreatesStep DEF CallState

\* The outcome of a request is held when the answer arrives, and nothing but
\* the goroutine itself changes the clusters before it is acknowledged.
LEMMA OutcomeIsHeldStep ==
    ASSUME TypeOK, OneAtATime, CallState, PresentIsWritten, OutcomeIsHeld, [Next]_vars
    PROVE  OutcomeIsHeld'
<1> USE DEF OutcomeIsHeld
<1>1. ASSUME NEW i \in Items,
             AddResourceObj(i) \/ DelayExpires(i) \/ SkipOldVersion(i) \/ FinishTransport(i)
      PROVE  OutcomeIsHeld'
  BY <1>1 DEF AddResourceObj, DelayExpires, SkipOldVersion, FinishTransport, Target
<1>2. ASSUME NEW i \in Items, StartTransport(i) PROVE OutcomeIsHeld'
  BY <1>2, ItemAssumption DEF StartTransport, ObjectAction
<1>3. ASSUME NEW i \in Items, GetTarget(i) \/ GetTargetFails(i) \/ RequestLost(i)
      PROVE  OutcomeIsHeld'
  BY <1>3 DEF GetTarget, GetTargetFails, RequestLost
<1>4. ASSUME NEW i \in Items, NEW f \in Fates,
             CreateTarget(i, f) \/ PatchTarget(i, f) \/ DeleteTarget(i, f),
             err' # "failed"
      PROVE  OutcomeIsHeld'
  <2>1. /\ processing = {i} /\ processing' = {i} /\ client \in Clusters /\ client' = client
        /\ pc \in {"create", "patch", "delete"}
    BY <1>4 DEF CreateTarget, PatchTarget, DeleteTarget, OneAtATime, CallState, CallFits, Calls
  <2>2. ASSUME NEW there \in BOOLEAN, SetTarget(i, there)
        PROVE  pair'[client'][NameOf[i]].ver = VerOf[i]
    <3>1. pair'[client][NameOf[i]] = [present |-> there, ver |-> VerOf[i]]
      BY <2>1, <2>2, SetTargetValue, ItemAssumption
    <3> QED BY <2>1, <3>1
  <2>3. CASE SetTarget(i, TRUE) \/ SetTarget(i, FALSE)
    <3>1. NameOf[i] \in Served
      <4>1. CASE CreateTarget(i, f)
        BY <1>4, <4>1 DEF CreateTarget, Answer
      <4>2. CASE PatchTarget(i, f) \/ DeleteTarget(i, f)
        <5>1. Target(i).present
          BY <1>4, <4>2 DEF PatchTarget, DeleteTarget, Answer
        <5> QED BY <5>1, <2>1, ItemAssumption DEF Target, PresentIsWritten
      <4> QED BY <1>4, <4>1, <4>2
    <3>2. pair'[client'][NameOf[i]].ver = VerOf[i] /\ VerOf[i] \in Nat
      BY <2>2, <2>3, ItemAssumption
    <3> QED BY <2>1, <3>1, <3>2 DEF Target
  <2>4. CASE ~(SetTarget(i, TRUE) \/ SetTarget(i, FALSE))
    <3>1. /\ pc = "create" /\ pair' = pair /\ NameOf[i] \in Served /\ Target(i).present
      BY <1>4, <2>4 DEF CreateTarget, PatchTarget, DeleteTarget, Answer
    <3>2. ActOf[i] = "create"
      BY <2>1, <3>1 DEF CallState, CallFits, UpdateCreates
    <3>3. ASSUME UidOf[i] \in TrackedUids PROVE Target(i).ver >= VerOf[i]
      <4>1. i \in Of(UidOf[i])
        BY <3>1 DEF Of
      <4>2. NameOf[i] \notin Preexisting
        BY <4>1, <3>3 DEF TrackedUids
      <4>3. PICK j \in Items : NameOf[j] = NameOf[i] /\ VerOf[j] = Target(i).ver
        BY <2>1, <3>1, <4>2, ItemAssumption DEF PresentIsWritten, Target
      <4>4. j \in Of(UidOf[i])
        BY <4>1, <4>3, <3>3 DEF TrackedUids, Of
      <4>5. VerOf[i] <= VerOf[j]
        BY <4>1, <4>4, <3>2, <3>3 DEF TrackedUids
      <4> QED BY <4>3, <4>5, ItemAssumption
    <3> QED BY <2>1, <3>1, <3>3 DEF Target
  <2> QED BY <2>3, <2>4
<1>5. ASSUME NEW i \in Items, NEW f \in Fates,
             CreateTarget(i, f) \/ PatchTarget(i, f) \/ DeleteTarget(i, f)
      PROVE  OutcomeIsHeld'
  BY <1>4, <1>5
<1>6. ASSUME NEW c \in Clusters, SetConfig(c) PROVE OutcomeIsHeld'
  BY <1>6 DEF SetConfig, Target
<1>7. CASE Loop \/ QueueClosed \/ ProcessDies
  BY <1>7 DEF Loop, QueueClosed, ProcessDies
<1>8. CASE Cancel \/ ShutDown \/ UNCHANGED vars
  BY <1>8 DEF Cancel, ShutDown, vars, Target
<1> QED BY <1>1, <1>2, <1>3, <1>5, <1>6, <1>7, <1>8 DEF Next, transport

\* Versions changes only when the goroutine finishes an item that went well.
LEMMA VersionStep ==
    ASSUME [Next]_vars
    PROVE  \/ UNCHANGED <<Versions, condition>>
           \/ \E i \in Items : FinishTransport(i)
<1>1. ASSUME NEW i \in Items,
             \/ AddResourceObj(i) \/ DelayExpires(i) \/ SkipOldVersion(i)
             \/ StartTransport(i)
             \/ GetTarget(i) \/ GetTargetFails(i) \/ RequestLost(i)
             \/ \E f \in Fates : CreateTarget(i, f) \/ PatchTarget(i, f) \/ DeleteTarget(i, f)
      PROVE  UNCHANGED <<Versions, condition>>
  BY <1>1 DEF AddResourceObj, DelayExpires, SkipOldVersion, StartTransport, GetTarget,
              GetTargetFails, RequestLost, CreateTarget, PatchTarget, DeleteTarget
<1>2. ASSUME NEW c \in Clusters, SetConfig(c) PROVE UNCHANGED <<Versions, condition>>
  BY <1>2 DEF SetConfig
<1>3. CASE Loop \/ QueueClosed \/ ProcessDies \/ Cancel \/ ShutDown \/ UNCHANGED vars
  BY <1>3 DEF Loop, QueueClosed, ProcessDies, Cancel, ShutDown, vars
<1> QED BY <1>1, <1>2, <1>3 DEF Next, transport

\* Acknowledged versions only move forward.
LEMMA VersionsGrow ==
    ASSUME TypeOK, NEW i \in Items, FinishTransport(i), isNewVersion(i)
    PROVE  \A u \in Uids : Versions'[u] \in Nat /\ Versions'[u] >= Versions[u]
<1>1. VerOf[i] \in Nat /\ UidOf[i] \in Uids /\ Versions[UidOf[i]] < VerOf[i]
  BY ItemAssumption DEF isNewVersion
<1>2. Versions \in [Uids -> Nat]
  BY DEF TypeOK
<1>3. Versions' = Versions \/ Versions' = [Versions EXCEPT ![UidOf[i]] = VerOf[i]]
  BY DEF FinishTransport
<1> QED BY <1>1, <1>2, <1>3

\* Items of one tracked uid share one place, and no other item has it.
LEMMA TrackedPlace ==
    ASSUME NEW u \in TrackedUids, NEW i \in Of(u), NEW j \in Items
    PROVE  /\ i \in Items /\ UidOf[i] = u /\ NameOf[i] \in Served
           /\ j \in Of(u) <=> NameOf[j] = NameOf[i]
BY DEF TrackedUids, Of

\* An acknowledgement is only given for what some cluster holds, and no write
\* takes it back.
LEMMA AcknowledgedIsHeldStep ==
    ASSUME TypeOK, CallState, PresentIsWritten, OutcomeIsHeld,
           AcknowledgedIsHeld, [Next]_vars
    PROVE  AcknowledgedIsHeld'
<1> SUFFICES ASSUME NEW u \in TrackedUids, Versions'[u] # 0, NEW k \in Of(u)
             PROVE  \E c \in Clusters : pair'[c][NameOf[k]].ver >= Versions'[u]
  BY DEF AcknowledgedIsHeld, IsResourceTransported
<1> USE ItemAssumption
<1>0. k \in Items /\ UidOf[k] = u /\ u \in Uids /\ NameOf[k] \in Names
  BY DEF Of
<1>1. ASSUME Versions[u] # 0
      PROVE  \E c \in Clusters : pair[c][NameOf[k]].ver >= Versions[u]
  BY <1>0, <1>1 DEF AcknowledgedIsHeld, IsResourceTransported
<1>2. ASSUME NEW i \in Items, FinishTransport(i)
      PROVE  \E c \in Clusters : pair'[c][NameOf[k]].ver >= Versions'[u]
  <2>1. pair' = pair /\ i \in processing /\ pc = "done"
    BY <1>2 DEF FinishTransport
  <2>2. CASE err # "failed" /\ UidOf[i] = u
    <3>1. client \in Clusters /\ NameOf[i] \in Served /\ pair[client][NameOf[i]].ver >= VerOf[i]
      BY <2>1, <2>2 DEF OutcomeIsHeld, Target
    <3>2. NameOf[i] = NameOf[k]
      BY <2>2, <3>1, TrackedPlace DEF Of
    <3>3. Versions'[u] = VerOf[i]
      BY <1>0, <1>2, <2>2 DEF FinishTransport, TypeOK
    <3> QED BY <2>1, <3>1, <3>2, <3>3
  <2>3. CASE err = "failed" \/ UidOf[i] # u
    <3>1. Versions'[u] = Versions[u]
      BY <1>0, <1>2, <2>3 DEF FinishTransport, TypeOK
    <3> QED BY <1>1, <2>1, <3>1
  <2> QED BY <2>2, <2>3
<1>3. CASE UNCHANGED <<Versions, condition>> /\ UNCHANGED pair
  BY <1>1, <1>3
<1>4. ASSUME UNCHANGED <<Versions, condition>>,
             NEW i \in processing, SetTarget(i, ActOf[i] # "delete"),
             NameOf[i] \in Served, client \in Clusters, isNewVersion(i)
      PROVE  \E c \in Clusters : pair'[c][NameOf[k]].ver >= Versions'[u]
  <2>1. i \in Items
    BY DEF TypeOK
  <2>2. PICK c \in Clusters : pair[c][NameOf[k]].ver >= Versions[u]
    BY <1>1, <1>4
  <2>3. pair'[c][NameOf[k]] = IF c = client /\ NameOf[k] = NameOf[i]
                                THEN [present |-> ActOf[i] # "delete", ver |-> VerOf[i]]
                                ELSE pair[c][NameOf[k]]
    BY <1>0, <1>4, <2>1, SetTargetValue
  <2>4. CASE c = client /\ NameOf[k] = NameOf[i]
    <3>1. UidOf[i] = u
      BY <1>4, <2>1, <2>4, TrackedPlace DEF Of
    <3>2. VerOf[i] \in Nat /\ Versions[u] \in Nat /\ Versions[u] < VerOf[i]
      BY <1>0, <1>4, <2>1, <3>1 DEF isNewVersion, TypeOK
    <3> QED BY <1>4, <2>3, <2>4, <3>2
  <2> QED BY <1>4, <2>2, <2>3, <2>4
<1> QED BY <1>2, <1>3, <1>4, VersionStep, WriteStep DEF CallState

\* A success is only reported for a version that is acknowledged.
LEMMA SuccessIsAcknowledgedStep ==
    ASSUME TypeOK, OneAtATime, CallState, OutcomeIsHeld, SuccessIsAcknowledged, [Next]_vars
    PROVE  SuccessIsAcknowledged'
<1> USE ItemAssumption
<1>1. CASE UNCHANGED <<Versions, condition>>
  BY <1>1 DEF SuccessIsAcknowledged
<1>2. ASSUME NEW i \in Items, FinishTransport(i)
      PROVE  SuccessIsAcknowledged'
  <2>1. i \in processing /\ pc = "done" /\ isNewVersion(i)
    BY <1>2 DEF FinishTransport, CallState, CallFits
  <2>2. \A u \in Uids : Versions'[u] \in Nat /\ Versions'[u] >= Versions[u]
    BY <1>2, <2>1, VersionsGrow
  <2> SUFFICES ASSUME NEW n \in Names, condition'[n].status = "success"
               PROVE  /\ n \in Served /\ condition'[n].ver > 0
                      /\ \A j \in Items : UidOf[j] \in TrackedUids /\ NameOf[j] = n =>
                           Versions'[UidOf[j]] >= condition'[n].ver
    BY DEF SuccessIsAcknowledged
  <2>3. CASE n # NameOf[i]
    <3>1. condition'[n] = condition[n] /\ condition[n].ver \in Nat
      BY <1>2, <2>3 DEF FinishTransport, TypeOK
    <3>2. \A j \in Items : Versions[UidOf[j]] \in Nat /\ UidOf[j] \in Uids
      BY DEF TypeOK
    <3> QED BY <2>2, <3>1, <3>2 DEF SuccessIsAcknowledged
  <2>4. CASE n = NameOf[i]
    <3>1. condition'[n] = [status |-> IF err = "ok" THEN "success" ELSE "fail",
                           ver |-> VerOf[i]]
      BY <1>2, <2>4 DEF FinishTransport, TypeOK
    <3>2. err = "ok" /\ condition'[n].ver = VerOf[i]
      BY <3>1
    <3>3. n \in Served
      BY <2>1, <2>4, <3>2 DEF OutcomeIsHeld
    <3>4. Versions'[UidOf[i]] = VerOf[i]
      BY <1>2, <3>2 DEF FinishTransport, TypeOK
    <3>5. ASSUME NEW j \in Items, UidOf[j] \in TrackedUids, NameOf[j] = n
          PROVE  UidOf[i] = UidOf[j]
      BY <2>4, <3>3, <3>5, TrackedPlace DEF Of
    <3> QED BY <3>2, <3>3, <3>4, <3>5
  <2> QED BY <2>3, <2>4
<1> QED BY <1>1, <1>2, VersionStep

\* Every action keeps an item that is not settled among the pending ones.
LEMMA NoItemLostStep ==
    ASSUME TypeOK, OneAtATime, CallFits, NoItemLost, [Next]_vars
    PROVE  NoItemLost'
<1> SUFFICES ASSUME ~shuttingDown', NEW j \in handed'
             PROVE  (Pending(j) \/ Settled(j))'
  BY DEF NoItemLost
<1> USE ItemAssumption
<1>0. ASSUME ~shuttingDown, j \in handed PROVE Pending(j) \/ Settled(j)
  BY <1>0 DEF NoItemLost
<1> USE DEF Pending, InQueue, Settled, isNewVersion
<1>1. ASSUME NEW i \in Items, AddResourceObj(i) PROVE (Pending(j) \/ Settled(j))'
  <2>1. /\ ~shuttingDown /\ ObjQueue' = Append(ObjQueue, i) /\ handed' = handed \cup {i}
        /\ UNCHANGED <<delayed, processing, Versions>>
    BY <1>1 DEF AddResourceObj, stopVars
  <2>2. CASE j = i
    <3>1. Len(ObjQueue') \in 1..Len(ObjQueue') /\ ObjQueue'[Len(ObjQueue')] = j
      BY <2>1, <2>2, AppendElements DEF TypeOK
    <3> QED BY <3>1
  <2>3. CASE j # i /\ InQueue(j)
    BY <2>1, <2>3, AppendElements DEF TypeOK
  <2> QED BY <1>0, <2>1, <2>2, <2>3
<1>2. ASSUME NEW i \in Items, DelayExpires(i) PROVE (Pending(j) \/ Settled(j))'
  <2>1. /\ ~shuttingDown /\ ObjQueue' = Append(ObjQueue, i) /\ handed' = handed
        /\ delayed' = delayed \ {i} /\ UNCHANGED <<processing, Versions>>
    BY <1>2 DEF DelayExpires, stopVars
  <2>2. CASE j = i
    <3>1. Len(ObjQueue') \in 1..Len(ObjQueue') /\ ObjQueue'[Len(ObjQueue')] = j
      BY <2>1, <2>2, AppendElements DEF TypeOK
    <3> QED BY <3>1
  <2>3. CASE j # i /\ InQueue(j)
    BY <2>1, <2>3, AppendElements DEF TypeOK
  <2> QED BY <1>0, <2>1, <2>2, <2>3
<1>3. ASSUME NEW i \in Items, SkipOldVersion(i) \/ StartTransport(i)
      PROVE  (Pending(j) \/ Settled(j))'
  <2>1. /\ ~shuttingDown /\ handed' = handed /\ ObjQueue # <<>> /\ i = Head(ObjQueue)
        /\ ObjQueue' = Tail(ObjQueue) /\ UNCHANGED <<delayed, Versions>>
        /\ processing = {}
    BY <1>3 DEF SkipOldVersion, StartTransport, stopVars, OneAtATime
  <2>2. CASE j = i
    BY <1>3, <2>2 DEF SkipOldVersion, StartTransport
  <2>3. CASE j # i /\ InQueue(j)
    <3>1. PICK k \in 1..Len(ObjQueue) : ObjQueue[k] = j
      BY <2>3
    <3>2. \E m \in 1..Len(Tail(ObjQueue)) : Tail(ObjQueue)[m] = ObjQueue[k]
      BY <2>1, <2>3, <3>1, TailElements DEF TypeOK
    <3> QED BY <2>1, <3>1, <3>2
  <2> QED BY <1>0, <2>1, <2>2, <2>3
<1>4. ASSUME NEW i \in Items, FinishTransport(i) PROVE (Pending(j) \/ Settled(j))'
  <2>1. /\ ~shuttingDown /\ handed' = handed /\ ObjQueue' = ObjQueue /\ processing = {i}
        /\ delayed \subseteq delayed' /\ Versions[UidOf[i]] < VerOf[i]
    <3>1. i \in processing /\ processing = {i} /\ isNewVersion(i)
      BY <1>4 DEF FinishTransport, OneAtATime, CallFits
    <3>2. delayed \subseteq delayed'
      BY <1>4 DEF FinishTransport
    <3> QED BY <1>4, <3>1, <3>2 DEF FinishTransport, stopVars
  <2>2. j \in Items /\ VerOf[j] \in Nat /\ VerOf[i] \in Nat
    BY <2>1 DEF TypeOK
  <2>3. CASE j = i
    <3>1. CASE err = "failed"
      BY <1>4, <2>1, <2>3, <3>1 DEF FinishTransport
    <3>2. CASE err # "failed"
      <4>1. Versions'[UidOf[i]] = VerOf[i]
        BY <1>4, <3>2 DEF FinishTransport, TypeOK
      <4> QED BY <2>2, <2>3, <4>1
    <3> QED BY <3>1, <3>2
  <2>4. CASE j # i /\ Settled(j)
    <3>1. /\ Versions[UidOf[j]] \in Nat /\ Versions'[UidOf[j]] \in Nat
          /\ Versions'[UidOf[j]] >= Versions[UidOf[j]]
      BY <1>4, <2>1, <2>2, VersionsGrow DEF isNewVersion, TypeOK
    <3> QED BY <2>2, <2>4, <3>1
  <2> QED BY <1>0, <2>1, <2>3, <2>4
<1>5. ASSUME NEW i \in Items,
             \/ GetTarget(i) \/ GetTargetFails(i) \/ RequestLost(i)
             \/ \E f \in Fates : CreateTarget(i, f) \/ PatchTarget(i, f) \/ DeleteTarget(i, f)
      PROVE  UNCHANGED <<queueVars, processing, Versions, shuttingDown>>
  BY <1>5 DEF GetTarget, GetTargetFails, RequestLost, CreateTarget, PatchTarget,
              DeleteTarget, stopVars
<1>6. ASSUME NEW c \in Clusters, SetConfig(c)
      PROVE  UNCHANGED <<queueVars, processing, Versions, shuttingDown>>
  BY <1>6 DEF SetConfig, stopVars
<1>7. CASE Loop \/ QueueClosed \/ ProcessDies \/ Cancel \/ ShutDown \/ UNCHANGED vars
  <2>1. ~shuttingDown /\ UNCHANGED <<queueVars, processing, Versions>>
    BY <1>7 DEF Loop, QueueClosed, ProcessDies, Cancel, ShutDown, vars, stopVars
  <2> QED BY <1>0, <2>1 DEF queueVars
<1>8. CASE UNCHANGED <<queueVars, processing, Versions, shuttingDown>>
  BY <1>0, <1>8 DEF queueVars
<1> QED BY <1>1, <1>2, <1>3, <1>4, <1>5, <1>6, <1>7, <1>8 DEF Next, transport

-----------------------------------------------------------------------------
(* The theorems.                                                           *)

\* The inductive invariant holds initially and is kept by every step.
THEOREM InductiveInvariant == Spec => []IInv
<1>1. Init => IInv
  <2> SUFFICES ASSUME Init PROVE IInv
    OBVIOUS
  <2>1. TypeOK
    BY InitTypes
  <2>2. OneAtATime /\ CallState /\ OutcomeIsHeld /\ NoItemLost
    BY DEF Init, OneAtATime, CallState, CallFits, UpdateCreates, OutcomeIsHeld, NoItemLost, Calls
  <2>3. PresentIsWritten /\ TargetIsHanded
    <3>1. \A k \in Items : UidOf[k] \in TrackedUids /\ NameOf[k] \in Served =>
            NameOf[k] \in Names \ Preexisting
      BY ItemAssumption DEF TrackedUids, Of
    <3>2. \A c \in Clusters, n \in Names : pair[c][n] = Absent(n)
      BY DEF Init
    <3>3. \A n \in Names \ Preexisting : Absent(n) = [present |-> FALSE, ver |-> 0]
      <4> TAKE n \in Names \ Preexisting
      <4>1. (n \in Preexisting) = FALSE
        OBVIOUS
      <4> QED BY <4>1 DEF Absent
    <3>4. \A n \in Names : Absent(n).present => n \in Preexisting
      BY DEF Absent
    <3>5. PresentIsWritten
      BY <3>2, <3>4, NameAssumption DEF PresentIsWritten
    <3>6. TargetIsHanded
      BY <3>1, <3>2, <3>3 DEF TargetIsHanded
    <3> QED BY <3>5, <3>6
  <2>4. AcknowledgedIsHeld /\ SuccessIsAcknowledged
    BY DEF Init, AcknowledgedIsHeld, SuccessIsAcknowledged, IsResourceTransported
  <2> QED BY <2>1, <2>2, <2>3, <2>4 DEF IInv
<1>2. IInv /\ [Next]_vars => IInv'
  BY TypeStep, OneAtATimeStep, CallStateStep, PresentIsWrittenStep, TargetIsHandedStep,
     OutcomeIsHeldStep,
     AcknowledgedIsHeldStep, SuccessIsAcknowledgedStep, NoItemLostStep DEF IInv, CallState
<1> QED BY <1>1, <1>2, PTL DEF Spec

\* No item that was handed over is lost before the worker is stopped.
THEOREM NothingLost == Spec => []NoItemLost
<1>1. IInv => NoItemLost
  BY DEF IInv
<1> QED BY <1>1, InductiveInvariant, PTL

\* An acknowledged version of a tracked object is in a pair cluster.
THEOREM AcknowledgementsAreTrue == Spec => []AcknowledgedIsHeld
<1>1. IInv => AcknowledgedIsHeld
  BY DEF IInv
<1> QED BY <1>1, InductiveInvariant, PTL

\* A reported success stays true of a pair cluster.
THEOREM SuccessesAreTrue == Spec => []SuccessIsHeld
<1>1. IInv => SuccessIsHeld
  <2> USE ItemAssumption
  <2> SUFFICES ASSUME IInv, NEW i \in Items, UidOf[i] \in TrackedUids,
                      condition[NameOf[i]].status = "success"
               PROVE  \E c \in Clusters :
                        pair[c][NameOf[i]].ver >= condition[NameOf[i]].ver
    BY DEF SuccessIsHeld
  <2>1. /\ NameOf[i] \in Served /\ condition[NameOf[i]].ver > 0
        /\ Versions[UidOf[i]] >= condition[NameOf[i]].ver
    BY DEF IInv, SuccessIsAcknowledged
  <2>2. condition[NameOf[i]].ver \in Nat /\ Versions[UidOf[i]] \in Nat
    BY DEF IInv, TypeOK
  <2>3. PICK c \in Clusters : pair[c][NameOf[i]].ver >= Versions[UidOf[i]]
    <3>1. i \in Of(UidOf[i]) /\ IsResourceTransported(UidOf[i])
      BY <2>1, <2>2 DEF Of, IsResourceTransported
    <3> QED BY <3>1 DEF IInv, AcknowledgedIsHeld
  <2>4. pair[c][NameOf[i]].ver \in Nat
    BY DEF IInv, TypeOK
  <2> QED BY <2>1, <2>2, <2>3, <2>4
<1> QED BY <1>1, InductiveInvariant, PTL

\* A write to a tracked object is newer than everything acknowledged for it.
THEOREM AcknowledgedNeverOverwritten == Spec => AcknowledgedNotOverwritten
<1> DEFINE Kept == \A i \in Items : \A c \in Clusters :
         UidOf[i] \in TrackedUids /\ pair'[c][NameOf[i]] # pair[c][NameOf[i]]
           => pair'[c][NameOf[i]].ver > Versions[UidOf[i]]
<1>1. IInv /\ [Next]_vars => Kept
  <2> USE ItemAssumption
  <2> SUFFICES ASSUME IInv, [Next]_vars, NEW j \in Items, NEW c \in Clusters,
                      UidOf[j] \in TrackedUids, pair'[c][NameOf[j]] # pair[c][NameOf[j]]
               PROVE  pair'[c][NameOf[j]].ver > Versions[UidOf[j]]
    OBVIOUS
  <2>1. PICK i \in processing :
          /\ SetTarget(i, ActOf[i] # "delete") /\ NameOf[i] \in Served
          /\ client \in Clusters /\ isNewVersion(i)
    BY WriteStep DEF IInv, CallState
  <2>2. i \in Items
    BY DEF IInv, TypeOK
  <2>3. pair'[c][NameOf[j]] = IF c = client /\ NameOf[j] = NameOf[i]
                                THEN [present |-> ActOf[i] # "delete", ver |-> VerOf[i]]
                                ELSE pair[c][NameOf[j]]
    BY <2>1, <2>2, SetTargetValue DEF IInv
  <2>4. NameOf[j] = NameOf[i] /\ pair'[c][NameOf[j]].ver = VerOf[i]
    BY <2>3
  <2>5. UidOf[j] = UidOf[i]
    BY <2>1, <2>2, <2>4, TrackedPlace DEF Of
  <2> QED BY <2>1, <2>2, <2>4, <2>5 DEF isNewVersion, IInv, TypeOK
<1>2. IInv /\ [Next]_vars => [Kept]_vars
  BY <1>1
<1> QED BY <1>2, InductiveInvariant, PTL DEF Spec, AcknowledgedNotOverwritten

\* When nothing is pending, the target of a tracked object is what its newest
\* event left at the source, in the only pair cluster it was written to.
THEOREM QuiescenceMirrors == Spec => []MirroredWhenQuiescent
<1>1. IInv => MirroredWhenQuiescent
  <2> USE ItemAssumption
  <2> SUFFICES ASSUME IInv, Quiescent, NEW i \in handed, NEW c \in Clusters,
                      UidOf[i] \in TrackedUids, NameOf[i] \in Served, Newest(i),
                      \A d \in Clusters \ {c} : pair[d][NameOf[i]].ver = 0
               PROVE  pair[c][NameOf[i]] = [present |-> ActOf[i] # "delete", ver |-> VerOf[i]]
    BY DEF MirroredWhenQuiescent
  <2>1. i \in Items /\ i \in Of(UidOf[i]) /\ UidOf[i] \in Uids /\ VerOf[i] \in Nat \ {0}
    BY DEF IInv, TypeOK, Of
  <2>2. Settled(i)
    BY DEF IInv, NoItemLost, Pending, InQueue, OneAtATime, Quiescent
  <2>3. Versions[UidOf[i]] \in Nat /\ Versions[UidOf[i]] >= VerOf[i]
    BY <2>1, <2>2 DEF Settled, isNewVersion, IInv, TypeOK
  <2>4. pair[c][NameOf[i]].ver >= Versions[UidOf[i]]
    <3>1. PICK d \in Clusters : pair[d][NameOf[i]].ver >= Versions[UidOf[i]]
      BY <2>1, <2>3 DEF IInv, AcknowledgedIsHeld, IsResourceTransported
    <3>2. pair[d][NameOf[i]].ver # 0
      BY <2>1, <2>3, <3>1
    <3> QED BY <3>1, <3>2
  <2>5. PICK j \in handed :
          /\ NameOf[j] = NameOf[i]
          /\ pair[c][NameOf[i]] = [present |-> ActOf[j] # "delete", ver |-> VerOf[j]]
    <3>1. pair[c][NameOf[i]].ver \in Nat
      BY <2>1 DEF IInv, TypeOK
    <3>2. pair[c][NameOf[i]] # [present |-> FALSE, ver |-> 0]
      BY <2>1, <2>3, <2>4, <3>1
    <3> QED BY <2>1, <3>2 DEF IInv, TargetIsHanded
  <2>6. j \in Items /\ j \in Of(UidOf[i]) /\ VerOf[j] \in Nat
    BY <2>1, <2>5, TrackedPlace DEF IInv, TypeOK
  <2>7. VerOf[j] = VerOf[i]
    BY <2>1, <2>3, <2>4, <2>5, <2>6 DEF Newest
  <2>8. ActOf[i] = "delete" <=> ActOf[j] = "delete"
    BY <2>1, <2>6, <2>7 DEF TrackedUids
  <2> QED BY <2>5, <2>7, <2>8
<1> QED BY <1>1, InductiveInvariant, PTL

-----------------------------------------------------------------------------
(* Refinement of AckedReplica.                                             *)

\* The place chosen for a tracked uid is the place of each of its items.
LEMMA PlaceOfItems ==
    ASSUME NEW u \in ReplicatedUids
    PROVE  /\ u \in TrackedUids /\ u \in Uids /\ PlaceOf(u) \in Names
           /\ \A i \in Of(u) : PlaceOf(u) = NameOf[i]
<1>1. u \in TrackedUids /\ u \in Uids /\ Of(u) # {}
  BY DEF ReplicatedUids, TrackedUids
<1>2. PICK k \in Of(u) : PlaceOf(u) = NameOf[k]
  BY <1>1 DEF PlaceOf
<1>3. k \in Items /\ NameOf[k] \in Names
  BY ItemAssumption DEF Of
<1>4. \A i \in Of(u) : NameOf[i] = NameOf[k]
  BY <1>1, <1>3, TrackedPlace DEF Of
<1> QED BY <1>1, <1>2, <1>3, <1>4

\* The barred variables of the refinement mapping.
OfferedVersions == [u \in ReplicatedUids |-> {VerOf[i] : i \in Of(u) \cap handed}]
HeldVersions    == [c \in Clusters |-> [u \in ReplicatedUids |-> pair[c][PlaceOf(u)].ver]]
AckedVersions   == [u \in ReplicatedUids |-> Versions[u]]

\* Handing over an item offers its version.
LEMMA OfferRefines ==
    ASSUME TypeOK, NEW i \in Items, AddResourceObj(i)
    PROVE  [Replica!ReplicaNext]_(Replica!replicaVars)
<1>1. handed' = handed \cup {i} /\ pair' = pair /\ Versions' = Versions
  BY DEF AddResourceObj
<1>2. HeldVersions' = HeldVersions /\ AckedVersions' = AckedVersions
  BY <1>1 DEF HeldVersions, AckedVersions
<1>3. CASE UidOf[i] \in ReplicatedUids /\ i \in Of(UidOf[i])
  <2>1. OfferedVersions' = [OfferedVersions EXCEPT ![UidOf[i]] = @ \cup {VerOf[i]}]
    <3>1. \A u \in ReplicatedUids :
            Of(u) \cap handed' = IF u = UidOf[i] THEN (Of(u) \cap handed) \cup {i}
                                                 ELSE Of(u) \cap handed
      BY <1>1, <1>3 DEF Of
    <3>2. \A u \in ReplicatedUids :
            {VerOf[j] : j \in Of(u) \cap handed'} =
              IF u = UidOf[i] THEN {VerOf[j] : j \in Of(u) \cap handed} \cup {VerOf[i]}
                              ELSE {VerOf[j] : j \in Of(u) \cap handed}
      BY <3>1
    <3> QED BY <1>3, <3>2 DEF OfferedVersions
  <2>2. Replica!Offer(UidOf[i], VerOf[i])
    BY <1>2, <2>1 DEF Replica!Offer, OfferedVersions, HeldVersions, AckedVersions
  <2> QED BY <1>3, <2>2 DEF Replica!ReplicaNext
<1>4. CASE ~(UidOf[i] \in ReplicatedUids /\ i \in Of(UidOf[i]))
  <2>1. \A u \in ReplicatedUids : Of(u) \cap handed' = Of(u) \cap handed
    BY <1>1, <1>4 DEF Of
  <2>2. OfferedVersions' = OfferedVersions
    BY <2>1 DEF OfferedVersions
  <2> QED BY <1>2, <2>2
          DEF Replica!replicaVars, OfferedVersions, HeldVersions, AckedVersions
<1> QED BY <1>3, <1>4

\* A request that takes effect stores a version newer than the acknowledged one.
LEMMA StoreRefines ==
    ASSUME TypeOK, OneAtATime, NEW i \in processing,
           SetTarget(i, ActOf[i] # "delete"), NameOf[i] \in Served,
           client \in Clusters, isNewVersion(i), UNCHANGED <<handed, Versions>>
    PROVE  [Replica!ReplicaNext]_(Replica!replicaVars)
<1> USE ItemAssumption
<1>1. i \in Items /\ i \in handed /\ i \in Of(UidOf[i])
  BY DEF TypeOK, OneAtATime, Of
<1>2. OfferedVersions' = OfferedVersions /\ AckedVersions' = AckedVersions
  BY DEF OfferedVersions, AckedVersions
<1>3. \A u \in ReplicatedUids : PlaceOf(u) = NameOf[i] <=> UidOf[i] = u
  <2> TAKE u \in ReplicatedUids
  <2>1. PICK k \in Of(u) : TRUE
    BY DEF ReplicatedUids
  <2> QED BY <1>1, <2>1, PlaceOfItems, TrackedPlace DEF Of
<1>4. \A c \in Clusters, u \in ReplicatedUids :
        pair'[c][PlaceOf(u)].ver = IF c = client /\ UidOf[i] = u
                                     THEN VerOf[i] ELSE pair[c][PlaceOf(u)].ver
  <2> TAKE c \in Clusters, u \in ReplicatedUids
  <2>1. PlaceOf(u) \in Names
    BY PlaceOfItems
  <2>2. pair'[c][PlaceOf(u)] = IF c = client /\ PlaceOf(u) = NameOf[i]
                                 THEN [present |-> ActOf[i] # "delete", ver |-> VerOf[i]]
                                 ELSE pair[c][PlaceOf(u)]
    BY <1>1, <2>1, SetTargetValue
  <2> QED BY <1>3, <2>2
<1>5. CASE UidOf[i] \in ReplicatedUids
  <2>1. HeldVersions' = [HeldVersions EXCEPT ![client][UidOf[i]] = VerOf[i]]
    <3>1. HeldVersions' = [c \in Clusters |-> [u \in ReplicatedUids |->
            IF c = client /\ UidOf[i] = u THEN VerOf[i] ELSE HeldVersions[c][u]]]
      BY <1>4 DEF HeldVersions
    <3>2. HeldVersions = [c \in Clusters |-> [u \in ReplicatedUids |-> HeldVersions[c][u]]]
      BY DEF HeldVersions
    <3> HIDE DEF HeldVersions
    <3> QED BY <1>5, <3>1, <3>2
  <2>2. VerOf[i] \in OfferedVersions[UidOf[i]] /\ VerOf[i] > AckedVersions[UidOf[i]]
    BY <1>1, <1>5 DEF OfferedVersions, AckedVersions, isNewVersion, TypeOK
  <2>3. Replica!Store(client, UidOf[i], VerOf[i])
    BY <1>2, <2>1, <2>2
    DEF Replica!Store, OfferedVersions, HeldVersions, AckedVersions
  <2> QED BY <1>1, <1>5, <2>3 DEF Replica!ReplicaNext
<1>6. CASE UidOf[i] \notin ReplicatedUids
  <2>1. HeldVersions' = HeldVersions
    BY <1>4, <1>6 DEF HeldVersions
  <2> QED BY <1>2, <2>1
          DEF Replica!replicaVars, OfferedVersions, HeldVersions, AckedVersions
<1> QED BY <1>5, <1>6

\* Finishing an item that went well acknowledges a version that is held.
LEMMA AcknowledgeRefines ==
    ASSUME TypeOK, OneAtATime, CallState, OutcomeIsHeld, NEW i \in Items, FinishTransport(i)
    PROVE  [Replica!ReplicaNext]_(Replica!replicaVars)
<1> USE ItemAssumption
<1>1. handed' = handed /\ pair' = pair /\ i \in processing /\ pc = "done"
  BY DEF FinishTransport
<1>2. OfferedVersions' = OfferedVersions /\ HeldVersions' = HeldVersions
  BY <1>1 DEF OfferedVersions, HeldVersions
<1>3. CASE err # "failed" /\ UidOf[i] \in ReplicatedUids
  <2>1. client \in Clusters /\ NameOf[i] \in Served /\ pair[client][NameOf[i]].ver >= VerOf[i]
    BY <1>1, <1>3, PlaceOfItems DEF OutcomeIsHeld, Target
  <2>2. i \in Of(UidOf[i]) /\ i \in handed
    BY <1>1, <2>1 DEF Of, OneAtATime
  <2>3. HeldVersions[client][UidOf[i]] >= VerOf[i]
    BY <1>3, <2>1, <2>2, PlaceOfItems DEF HeldVersions
  <2>4. VerOf[i] \in OfferedVersions[UidOf[i]] /\ VerOf[i] > AckedVersions[UidOf[i]]
    BY <1>1, <1>3, <2>2 DEF OfferedVersions, AckedVersions, CallState, CallFits, isNewVersion, TypeOK
  <2>5. AckedVersions' = [AckedVersions EXCEPT ![UidOf[i]] = VerOf[i]]
    BY <1>3 DEF FinishTransport, AckedVersions, ReplicatedUids, TrackedUids, TypeOK
  <2>6. Replica!Acknowledge(UidOf[i], VerOf[i])
    BY <1>2, <2>1, <2>3, <2>4, <2>5
    DEF Replica!Acknowledge, OfferedVersions, HeldVersions, AckedVersions
  <2> QED BY <1>3, <2>6 DEF Replica!ReplicaNext
<1>4. CASE ~(err # "failed" /\ UidOf[i] \in ReplicatedUids)
  <2>1. AckedVersions' = AckedVersions
    BY <1>4 DEF FinishTransport, AckedVersions, ReplicatedUids, TrackedUids, TypeOK
  <2> QED BY <1>2, <2>1
          DEF Replica!replicaVars, OfferedVersions, HeldVersions, AckedVersions
<1> QED BY <1>3, <1>4

\* The transport manager implements the abstract replica: every step that the
\* tracked objects can see is an offer, a store or an acknowledgement.
THEOREM Refinement == Spec => ImplementsAckedReplica
<1>1. Init => Replica!ReplicaInit
  <2> SUFFICES ASSUME Init PROVE Replica!ReplicaInit
    OBVIOUS
  <2>1. \A c \in Clusters, u \in ReplicatedUids : pair[c][PlaceOf(u)].ver = 0
    BY PlaceOfItems DEF Init, Absent
  <2>2. \A u \in ReplicatedUids : u \in Uids /\ Versions[u] = 0
    BY PlaceOfItems DEF Init
  <2>3. \A u \in ReplicatedUids : {VerOf[i] : i \in Of(u) \cap handed} = {}
    BY DEF Init
  <2> QED BY <2>1, <2>2, <2>3 DEF Replica!ReplicaInit
<1>2. IInv /\ [Next]_vars => [Replica!ReplicaNext]_(Replica!replicaVars)
  <2> SUFFICES ASSUME IInv, [Next]_vars
               PROVE  [Replica!ReplicaNext]_(Replica!replicaVars)
    OBVIOUS
  <2>1. ASSUME NEW i \in Items, AddResourceObj(i)
        PROVE  [Replica!ReplicaNext]_(Replica!replicaVars)
    BY <2>1, OfferRefines DEF IInv
  <2>2. ASSUME NEW i \in Items, FinishTransport(i)
        PROVE  [Replica!ReplicaNext]_(Replica!replicaVars)
    BY <2>2, AcknowledgeRefines DEF IInv
  <2>3. CASE UNCHANGED <<handed, Versions>> /\ pair' # pair
    <3>1. PICK i \in processing :
            /\ SetTarget(i, ActOf[i] # "delete") /\ NameOf[i] \in Served
            /\ client \in Clusters /\ isNewVersion(i)
      BY <2>3, WriteStep DEF IInv, CallState
    <3> QED BY <2>3, <3>1, StoreRefines DEF IInv
  <2>4. CASE UNCHANGED <<handed, Versions, pair>>
    <3>1. OfferedVersions' = OfferedVersions /\ HeldVersions' = HeldVersions
          /\ AckedVersions' = AckedVersions
      BY <2>4 DEF OfferedVersions, HeldVersions, AckedVersions
    <3> QED BY <3>1
            DEF Replica!replicaVars, OfferedVersions, HeldVersions, AckedVersions
  <2> QED BY <2>1, <2>2, <2>3, <2>4, HandedStep, VersionStep
<1> QED BY <1>1, <1>2, InductiveInvariant, PTL
        DEF Spec, ImplementsAckedReplica, Replica!ReplicaSpec
=============================================================================
