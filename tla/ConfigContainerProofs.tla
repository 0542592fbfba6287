------------------------- MODULE ConfigContainerProofs -------------------------
(***************************************************************************)
(* Theorems about ConfigContainer for all values of its constants.         *)
(***************************************************************************)
EXTENDS ConfigContainer, TLAPS

(* The inductive invariant, in named parts.                                *)

\* The second half of a reconciler's call works with what its first half wrote.
CallsAreCurrent ==
    /\ clusterCall # None => ClusterConfigs[clusterCall.cluster] = clusterCall.settings
    /\ namespaceCall # None =>
         NamespaceConfigedCluster[namespaceCall.namespace] = namespaceCall.cluster

\* A registration that was not overtaken works with its namespace's cluster.
RegistrationsAreCurrent ==
    \A w \in Workers \ overtaken :
      reg[w] \in {"read", "set"} => clusterName[w] = NamespaceConfigedCluster[NsOf[w]]

\* Someone is still going to notify the listener of n.
NotificationPending(n) ==
    \/ clusterCall # None /\ NamespaceConfigedCluster[n] = clusterCall.cluster
    \/ namespaceCall # None /\ namespaceCall.namespace = n
    \/ \E w \in Workers : NsOf[w] = n /\ reg[w] = "set"

NotOvertaken(n) == \A w \in overtaken : NsOf[w] # n

\* A listener that has not the right settings is going to be notified.
CurrentOrPending ==
    \A n \in Namespaces : NotOvertaken(n) => Follows(n) \/ NotificationPending(n)

IInv == TypeOK /\ CallsAreCurrent /\ RegistrationsAreCurrent /\ CurrentOrPending


-----------------------------------------------------------------------------
(* Type correctness.                                                       *)

\* Nothing is stored or registered at the start.
LEMMA InitTyped == Init => TypeOK
BY BoundAssumption DEF Init, TypeOK

\* Each step keeps every variable in its type, and a listener registered for a
\* namespace belongs to a worker of that namespace.
LEMMA NextTyped == TypeOK /\ [Next]_vars => TypeOK'
<1> SUFFICES ASSUME TypeOK, [Next]_vars PROVE TypeOK'
  OBVIOUS
<1> USE WorkerAssumption, NoneAssumption, BoundAssumption DEF TypeOK
<1>1. ASSUME NEW c \in Clusters, NEW s \in Settings, UpdateClusterConfigToContainer(c, s)
      PROVE  TypeOK'
  BY <1>1 DEF UpdateClusterConfigToContainer, starts
<1>2. ASSUME NEW n \in Namespaces, NEW c \in Clusters, UpdateNamespaceConfigedCluster(n, c)
      PROVE  TypeOK'
  BY <1>2 DEF UpdateNamespaceConfigedCluster, Registering, starts
<1>3. CASE NotifyClusterConfigChange
  BY <1>3 DEF NotifyClusterConfigChange, Notify, maps, starts
<1>4. CASE NotifyAfterNamespaceUpdate
  BY <1>4 DEF NotifyAfterNamespaceUpdate, NotifyNamespaceConfigedClusterChange, Notify, maps,
              starts
<1>5. ASSUME NEW w \in Workers, ReadClusterName(w)
      PROVE  TypeOK'
  BY <1>5 DEF ReadClusterName, maps, calls, starts
<1>6. ASSUME NEW w \in Workers, SetListener(w)
      PROVE  TypeOK'
  BY <1>6 DEF SetListener, calls, starts
<1>7. ASSUME NEW w \in Workers, NotifyAfterRegistration(w)
      PROVE  TypeOK'
  <2>1. clusterName[w] \in Clusters
    BY <1>7 DEF NotifyAfterRegistration
  <2> QED
    BY <1>7, <2>1 DEF NotifyAfterRegistration, NotifyNamespaceConfigedClusterChange,
                      Notify, maps, calls, starts
<1>8. ASSUME NEW w \in Workers, StartWorker(w)
      PROVE  TypeOK'
  BY <1>8 DEF StartWorker, maps, calls
<1>9. CASE UNCHANGED vars
  BY <1>9 DEF vars, maps, calls, starts
<1> QED
  BY <1>1, <1>2, <1>3, <1>4, <1>5, <1>6, <1>7, <1>8, <1>9 DEF Next

\* The type invariant holds at every state, for every set of workers.
THEOREM Typed == Spec => []TypeOK
BY InitTyped, NextTyped, PTL DEF Spec

-----------------------------------------------------------------------------
(* No update slips between the two halves of a call.                       *)

\* Each step keeps what the pending calls and registrations work with current.
LEMMA NextCurrent ==
    IInv /\ [Next]_vars => (CallsAreCurrent /\ RegistrationsAreCurrent)'
<1> SUFFICES ASSUME IInv, [Next]_vars
             PROVE  (CallsAreCurrent /\ RegistrationsAreCurrent)'
  OBVIOUS
<1> USE WorkerAssumption, NoneAssumption
    DEF IInv, TypeOK, CallsAreCurrent, RegistrationsAreCurrent
<1>1. ASSUME NEW c \in Clusters, NEW s \in Settings, UpdateClusterConfigToContainer(c, s)
      PROVE  (CallsAreCurrent /\ RegistrationsAreCurrent)'
  BY <1>1 DEF UpdateClusterConfigToContainer
<1>2. ASSUME NEW n \in Namespaces, NEW c \in Clusters, UpdateNamespaceConfigedCluster(n, c)
      PROVE  (CallsAreCurrent /\ RegistrationsAreCurrent)'
  BY <1>2 DEF UpdateNamespaceConfigedCluster, Registering
<1>3. CASE NotifyClusterConfigChange
  BY <1>3 DEF NotifyClusterConfigChange, maps
<1>4. CASE NotifyAfterNamespaceUpdate
  BY <1>4 DEF NotifyAfterNamespaceUpdate, maps
<1>5. ASSUME NEW w \in Workers, ReadClusterName(w)
      PROVE  (CallsAreCurrent /\ RegistrationsAreCurrent)'
  BY <1>5 DEF ReadClusterName, maps, calls
<1>6. ASSUME NEW w \in Workers, SetListener(w)
      PROVE  (CallsAreCurrent /\ RegistrationsAreCurrent)'
  BY <1>6 DEF SetListener, calls
<1>7. ASSUME NEW w \in Workers, NotifyAfterRegistration(w)
      PROVE  (CallsAreCurrent /\ RegistrationsAreCurrent)'
  BY <1>7 DEF NotifyAfterRegistration, maps, calls
<1>8. ASSUME NEW w \in Workers, StartWorker(w)
      PROVE  (CallsAreCurrent /\ RegistrationsAreCurrent)'
  BY <1>8 DEF StartWorker, maps, calls
<1>9. CASE UNCHANGED vars
  BY <1>9 DEF vars, maps, calls
<1> QED
  BY <1>1, <1>2, <1>3, <1>4, <1>5, <1>6, <1>7, <1>8, <1>9 DEF Next

\* Notifying the listeners of some namespaces leaves the listeners of the other
\* namespaces with the settings they had: a worker listens to one namespace.
LEMMA NotifyOthers ==
    ASSUME TypeOK, NEW names \in SUBSET Namespaces, NEW s \in Settings,
           Notify(Listeners(names), s), NEW n \in Namespaces \ names,
           ClusterConfigListeners[n] # None
    PROVE  PairClusterSettings'[ClusterConfigListeners[n]]
             = PairClusterSettings[ClusterConfigListeners[n]]
BY WorkerAssumption DEF TypeOK, Notify, Listeners

\* A notification reaches the listener of each namespace it is meant for.
LEMMA NotifyReaches ==
    ASSUME TypeOK, NEW names \in SUBSET Namespaces, NEW s \in Settings,
           Notify(Listeners(names), s), NEW n \in names,
           ClusterConfigListeners[n] # None
    PROVE  PairClusterSettings'[ClusterConfigListeners[n]] = s
BY WorkerAssumption DEF TypeOK, Notify, Listeners

\* The notification of one namespace: if its cluster is the one given, its
\* listener has the right settings afterwards, and the others keep theirs.
LEMMA NotifyOne ==
    ASSUME TypeOK, NEW n \in Namespaces, NEW c \in Clusters,
           NotifyNamespaceConfigedClusterChange(n, c), UNCHANGED maps
    PROVE  /\ NamespaceConfigedCluster[n] = c => Follows(n)'
           /\ \A m \in Namespaces \ {n} : Follows(m) => Follows(m)'
<1>1. CASE ClusterConfigs[c] = None
  <2>1. PairClusterSettings' = PairClusterSettings
    BY <1>1 DEF NotifyNamespaceConfigedClusterChange, Notify, TypeOK
  <2> QED
    BY <1>1, <2>1 DEF Follows, Configured, maps
<1>2. CASE ClusterConfigs[c] # None
  <2>1. Notify(Listeners({n}), ClusterConfigs[c]) /\ ClusterConfigs[c] \in Settings
    BY <1>2 DEF NotifyNamespaceConfigedClusterChange, TypeOK
  <2>2. ASSUME NamespaceConfigedCluster[n] = c
        PROVE  Follows(n)'
    BY <2>1, <2>2, NotifyReaches DEF Follows, Configured, maps
  <2>3. ASSUME NEW m \in Namespaces \ {n}, Follows(m)
        PROVE  Follows(m)'
    BY <2>1, <2>3, NotifyOthers DEF Follows, Configured, maps
  <2> QED
    BY <2>2, <2>3
<1> QED
  BY <1>1, <1>2

\* Each step that makes a listener's settings wrong leaves a notification
\* pending, and a pending notification ends with the right settings.
LEMMA NextCurrentOrPending == IInv /\ [Next]_vars => CurrentOrPending'
<1> SUFFICES ASSUME IInv, [Next]_vars, NEW n \in Namespaces, NotOvertaken(n)'
             PROVE  (Follows(n) \/ NotificationPending(n))'
  BY DEF CurrentOrPending
<1>0. NotOvertaken(n)
  BY DEF NotOvertaken, Next, UpdateClusterConfigToContainer, NotifyClusterConfigChange,
         UpdateNamespaceConfigedCluster, NotifyAfterNamespaceUpdate, ReadClusterName,
         SetListener, NotifyAfterRegistration, StartWorker, vars
<1>i. TypeOK /\ CallsAreCurrent /\ RegistrationsAreCurrent
      /\ (Follows(n) \/ NotificationPending(n))
  BY <1>0 DEF IInv, CurrentOrPending
<1>1. ASSUME NEW c \in Clusters, NEW s \in Settings, UpdateClusterConfigToContainer(c, s)
      PROVE  (Follows(n) \/ NotificationPending(n))'
  <2>1. clusterCall' = [cluster |-> c, settings |-> s] /\ clusterCall' # None
    BY <1>1, NoneAssumption DEF UpdateClusterConfigToContainer
  <2>2. CASE NamespaceConfigedCluster[n] = c
    BY <1>1, <2>1, <2>2 DEF UpdateClusterConfigToContainer, NotificationPending
  <2>3. CASE NamespaceConfigedCluster[n] # c
    BY <1>1, <1>i, <2>3 DEF UpdateClusterConfigToContainer, NotificationPending,
                            Follows, Configured, TypeOK
  <2> QED
    BY <2>2, <2>3
<1>2. ASSUME NEW m \in Namespaces, NEW c \in Clusters, UpdateNamespaceConfigedCluster(m, c)
      PROVE  (Follows(n) \/ NotificationPending(n))'
  <2>1. namespaceCall' = [namespace |-> m, cluster |-> c] /\ namespaceCall' # None
    BY <1>2, NoneAssumption DEF UpdateNamespaceConfigedCluster
  <2>2. CASE m = n
    BY <2>1, <2>2 DEF NotificationPending
  <2>3. CASE m # n
    BY <1>2, <1>i, <2>3 DEF UpdateNamespaceConfigedCluster, NotificationPending,
                            Follows, Configured, TypeOK
  <2> QED
    BY <2>2, <2>3
<1>3. CASE NotifyClusterConfigChange
  <2> DEFINE names == {m \in Namespaces : NamespaceConfigedCluster[m] = clusterCall.cluster}
  <2>1. Notify(Listeners(names), clusterCall.settings) /\ clusterCall.settings \in Settings
        /\ UNCHANGED maps /\ ClusterConfigs[clusterCall.cluster] = clusterCall.settings
    BY <1>3, <1>i DEF NotifyClusterConfigChange, TypeOK, CallsAreCurrent
  <2>2. CASE n \in names
    BY <2>1, <2>2, <1>i, NotifyReaches DEF Follows, Configured, maps
  <2>3. CASE n \notin names
    <3>1. Follows(n) => Follows(n)'
      BY <2>1, <2>3, <1>i, NotifyOthers DEF Follows, Configured, maps
    <3>2. NotificationPending(n) => NotificationPending(n)'
      BY <1>3, <2>3 DEF NotificationPending, NotifyClusterConfigChange, maps
    <3> QED
      BY <1>i, <3>1, <3>2
  <2> QED
    BY <2>2, <2>3
<1>4. CASE NotifyAfterNamespaceUpdate
  <2>1. PICK m \in Namespaces, c \in Clusters :
          namespaceCall = [namespace |-> m, cluster |-> c]
    BY <1>4, <1>i DEF NotifyAfterNamespaceUpdate, TypeOK
  <2>2. NamespaceConfigedCluster[m] = c /\ UNCHANGED maps
        /\ NotifyNamespaceConfigedClusterChange(m, c)
    BY <1>4, <1>i, <2>1 DEF NotifyAfterNamespaceUpdate, CallsAreCurrent
  <2>3. /\ Follows(m)'
        /\ \A k \in Namespaces \ {m} : Follows(k) => Follows(k)'
    BY <2>2, <1>i, NotifyOne
  <2>4. n # m /\ NotificationPending(n) => NotificationPending(n)'
    BY <1>4, <2>1 DEF NotificationPending, NotifyAfterNamespaceUpdate, maps
  <2> QED
    BY <1>i, <2>3, <2>4
<1>5. ASSUME NEW w \in Workers, ReadClusterName(w)
      PROVE  (Follows(n) \/ NotificationPending(n))'
  BY <1>5, <1>i DEF ReadClusterName, NotificationPending, Follows, Configured, TypeOK,
                    maps, calls
<1>6. ASSUME NEW w \in Workers, SetListener(w)
      PROVE  (Follows(n) \/ NotificationPending(n))'
  <2>1. CASE NsOf[w] = n
    BY <1>6, <1>i, <2>1 DEF SetListener, NotificationPending, TypeOK
  <2>2. CASE NsOf[w] # n
    BY <1>6, <1>i, <2>2, WorkerAssumption
       DEF SetListener, NotificationPending, Follows, Configured, TypeOK, calls
  <2> QED
    BY <2>1, <2>2
<1>7. ASSUME NEW w \in Workers, NotifyAfterRegistration(w)
      PROVE  (Follows(n) \/ NotificationPending(n))'
  <2> DEFINE m == NsOf[w]
  <2>1. m \in Namespaces /\ clusterName[w] \in Clusters /\ UNCHANGED maps
        /\ NotifyNamespaceConfigedClusterChange(m, clusterName[w])
    BY <1>7, <1>i, WorkerAssumption DEF NotifyAfterRegistration, TypeOK
  <2>2. CASE n = m
    <3>1. NamespaceConfigedCluster[m] = clusterName[w]
      BY <1>7, <1>i, <1>0, <2>2 DEF NotifyAfterRegistration, RegistrationsAreCurrent,
                                    NotOvertaken
    <3> QED
      BY <2>1, <2>2, <3>1, <1>i, NotifyOne
  <2>3. CASE n # m
    <3>1. Follows(n) => Follows(n)'
      BY <2>1, <2>3, <1>i, NotifyOne
    <3>2. NotificationPending(n) => NotificationPending(n)'
      BY <1>7, <1>i, <2>3 DEF NotifyAfterRegistration, NotificationPending, TypeOK, maps, calls
    <3> QED
      BY <1>i, <3>1, <3>2
  <2> QED
    BY <2>2, <2>3
<1>8. ASSUME NEW w \in Workers, StartWorker(w)
      PROVE  (Follows(n) \/ NotificationPending(n))'
  BY <1>8, <1>i DEF StartWorker, NotificationPending, Follows, Configured, TypeOK, maps, calls
<1>9. CASE UNCHANGED vars
  BY <1>9, <1>i DEF vars, maps, calls, NotificationPending, Follows, Configured
<1> QED
  BY <1>1, <1>2, <1>3, <1>4, <1>5, <1>6, <1>7, <1>8, <1>9 DEF Next

\* At rest each listener has the settings of its namespace's cluster, if that
\* cluster did not change during a registration.
THEOREM Current == Spec => []ListenersAreCurrent
<1>1. Init => IInv
  BY InitTyped DEF Init, IInv, CallsAreCurrent, RegistrationsAreCurrent, CurrentOrPending,
                   Follows
<1>2. IInv /\ [Next]_vars => IInv'
  BY NextTyped, NextCurrent, NextCurrentOrPending DEF IInv
<1>3. IInv => ListenersAreCurrent
  BY DEF IInv, CurrentOrPending, NotificationPending, NotOvertaken, ListenersAreCurrent, AtRest
<1> QED
  BY <1>1, <1>2, <1>3, PTL DEF Spec

-----------------------------------------------------------------------------
(* The worker started last is the listener.                                *)

\* Where no start came too early, only the newest worker is under way, and once
\* it has set its listener nobody replaces it.
NewestRegistersLast ==
    \A n \in Namespaces \ crowded :
      /\ UnderWay(n) \subseteq {newest[n]}
      /\ newest[n] # None => NsOf[newest[n]] = n /\ reg[newest[n]] # "unstarted"
      /\ newest[n] = None => ClusterConfigListeners[n] = None
      /\ newest[n] # None /\ reg[newest[n]] \in {"set", "done"} =>
           ClusterConfigListeners[n] = newest[n]

\* Registrations step by step, and starts that find nobody under way.
LEMMA NextNewest ==
    TypeOK /\ NewestRegistersLast /\ [Next]_vars => NewestRegistersLast'
<1> SUFFICES ASSUME TypeOK, NewestRegistersLast, [Next]_vars PROVE NewestRegistersLast'
  OBVIOUS
<1> USE WorkerAssumption, NoneAssumption
<1>1. ASSUME UNCHANGED <<ClusterConfigListeners, reg, starts>>
      PROVE  NewestRegistersLast'
  BY <1>1 DEF NewestRegistersLast, UnderWay, starts
<1>2. ASSUME NEW w \in Workers, ReadClusterName(w)
      PROVE  NewestRegistersLast'
  BY <1>2 DEF ReadClusterName, NewestRegistersLast, UnderWay, TypeOK, maps, starts
<1>3. ASSUME NEW w \in Workers, SetListener(w)
      PROVE  NewestRegistersLast'
  <2> SUFFICES ASSUME NEW n \in Namespaces \ crowded
               PROVE  /\ UnderWay(n)' \subseteq {newest[n]}
                      /\ newest[n] # None => NsOf[newest[n]] = n /\ reg'[newest[n]] # "unstarted"
                      /\ newest[n] = None => ClusterConfigListeners'[n] = None
                      /\ newest[n] # None /\ reg'[newest[n]] \in {"set", "done"} =>
                           ClusterConfigListeners'[n] = newest[n]
    BY <1>3 DEF SetListener, NewestRegistersLast, starts
  <2>1. /\ reg' = [reg EXCEPT ![w] = "set"] /\ reg[w] = "read"
        /\ ClusterConfigListeners' = [ClusterConfigListeners EXCEPT ![NsOf[w]] = w]
    BY <1>3 DEF SetListener
  <2>2. UnderWay(n)' = UnderWay(n)
    BY <2>1 DEF UnderWay, TypeOK
  <2>3. NsOf[w] = n => w = newest[n]
    BY <2>1 DEF NewestRegistersLast, UnderWay
  <2>4. newest[n] \in Workers \cup {None}
    BY DEF TypeOK
  <2> QED
    BY <2>1, <2>2, <2>3, <2>4 DEF NewestRegistersLast, TypeOK
<1>4. ASSUME NEW w \in Workers, NotifyAfterRegistration(w)
      PROVE  NewestRegistersLast'
  BY <1>4 DEF NotifyAfterRegistration, NewestRegistersLast, UnderWay, TypeOK, maps, starts
<1>5. ASSUME NEW w \in Workers, StartWorker(w)
      PROVE  NewestRegistersLast'
  <2> SUFFICES ASSUME NEW n \in Namespaces \ crowded'
               PROVE  /\ UnderWay(n)' \subseteq {newest'[n]}
                      /\ newest'[n] # None => NsOf[newest'[n]] = n /\ reg'[newest'[n]] # "unstarted"
                      /\ newest'[n] = None => ClusterConfigListeners'[n] = None
                      /\ newest'[n] # None /\ reg'[newest'[n]] \in {"set", "done"} =>
                           ClusterConfigListeners'[n] = newest'[n]
    BY DEF NewestRegistersLast
  <2>1. /\ reg' = [reg EXCEPT ![w] = "started"] /\ reg[w] = "unstarted"
        /\ newest' = [newest EXCEPT ![NsOf[w]] = w] /\ UNCHANGED ClusterConfigListeners
    BY <1>5 DEF StartWorker, maps
  <2>2. n \notin crowded /\ (NsOf[w] = n => UnderWay(n) = {})
    BY <1>5 DEF StartWorker
  <2>3. UnderWay(n)' = UnderWay(n) \cup {x \in {w} : NsOf[w] = n}
    BY <2>1 DEF UnderWay, TypeOK
  <2>4. CASE NsOf[w] = n
    BY <2>1, <2>2, <2>3, <2>4 DEF TypeOK
  <2>5. CASE NsOf[w] # n
    BY <2>1, <2>2, <2>3, <2>5 DEF NewestRegistersLast, TypeOK
  <2> QED
    BY <2>4, <2>5
<1> QED
  BY <1>1, <1>2, <1>3, <1>4, <1>5
     DEF Next, UpdateClusterConfigToContainer, UpdateNamespaceConfigedCluster,
         NotifyClusterConfigChange, NotifyAfterNamespaceUpdate, maps, vars

\* At rest the worker started last is the listener of its namespace, if each was
\* started after its predecessor had registered.
THEOREM NewestListens == Spec => []SuccessorListens
<1>1. Init => NewestRegistersLast
  BY DEF Init, NewestRegistersLast, UnderWay
<1>2. TypeOK /\ NewestRegistersLast => SuccessorListens
  <2> SUFFICES ASSUME TypeOK, NewestRegistersLast, AtRest, NEW n \in Namespaces \ crowded
               PROVE  ClusterConfigListeners[n] = newest[n]
    BY DEF SuccessorListens
  <2>1. newest[n] \in Workers \cup {None}
    BY DEF TypeOK
  <2> QED
    BY <2>1 DEF NewestRegistersLast, AtRest
<1> QED
  BY <1>1, <1>2, InitTyped, NextTyped, NextNewest, PTL DEF Spec
=============================================================================
