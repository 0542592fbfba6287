---------------------------- MODULE ConfigContainer ----------------------------
(***************************************************************************)
(* The pair cluster half of the configuration container (pkg/configs): the *)
(* DRCluster reconciler stores settings, the DRNamespace reconciler stores *)
(* which cluster a namespace uses, and the transport manager of each       *)
(* worker registers itself as the listener of its namespace.  Each of the  *)
(* three calls takes its lock several times; a step here is what happens   *)
(* under one lock, or without a lock.                                      *)
(*                                                                         *)
(* The maps are also accessed without a lock while others hold it; if the  *)
(* Go runtime notices, the process ends, and the next one begins with Init.*)
(* The filter half is part of the module Filters.                          *)
(***************************************************************************)
EXTENDS Naturals

CONSTANTS
    Namespaces, Clusters, Settings,
    None,               \* a missing key, nil, or no call in progress
    Workers, NsOf,      \* workers there may ever be, and their namespace
    MaxUpdates          \* bound: calls made by the reconcilers

ASSUME WorkerAssumption == NsOf \in [Workers -> Namespaces]
ASSUME NoneAssumption ==
    /\ None \notin Clusters \cup Settings \cup Workers
    /\ None \notin [cluster : Clusters, settings : Settings]
    /\ None \notin [namespace : Namespaces, cluster : Clusters]
ASSUME BoundAssumption == MaxUpdates \in Nat

VARIABLES
    ClusterConfigs,             \* cluster -> settings
    NamespaceConfigedCluster,   \* namespace -> cluster
    ClusterConfigListeners,     \* namespace -> worker
    PairClusterSettings,        \* worker -> settings of its transporter
    reg,                        \* worker -> progress of RegClusterConfigListener
    clusterName,                \* worker -> the cluster name it read there
    newest,                     \* namespace -> the worker started last
    clusterCall,                \* the DRCluster reconciler's call in progress
    namespaceCall,              \* the DRNamespace reconciler's call in progress
    updates, overtaken,         \* history: calls, and registrations overtaken
                                \*   by a change of their namespace's cluster
    crowded                     \* history: namespaces where a worker was started
                                \*   before its predecessor had registered

maps  == <<ClusterConfigs, NamespaceConfigedCluster, ClusterConfigListeners>>
calls == <<clusterCall, namespaceCall, updates>>
starts == <<newest, crowded>>
vars  == <<maps, calls, PairClusterSettings, reg, clusterName, overtaken, starts>>

TypeOK ==
    /\ ClusterConfigs \in [Clusters -> Settings \cup {None}]
    /\ NamespaceConfigedCluster \in [Namespaces -> Clusters \cup {None}]
    /\ ClusterConfigListeners \in [Namespaces -> Workers \cup {None}]
    /\ \A n \in Namespaces :
         ClusterConfigListeners[n] # None => NsOf[ClusterConfigListeners[n]] = n
    /\ PairClusterSettings \in [Workers -> Settings \cup {None}]
    /\ reg \in [Workers -> {"unstarted", "started", "read", "set", "done"}]
    /\ clusterName \in [Workers -> Clusters \cup {None}]
    /\ \A w \in Workers : reg[w] \in {"read", "set", "done"} => clusterName[w] # None
    /\ clusterCall \in [cluster : Clusters, settings : Settings] \cup {None}
    /\ namespaceCall \in [namespace : Namespaces, cluster : Clusters] \cup {None}
    /\ updates \in 0..MaxUpdates
    /\ overtaken \subseteq Workers
    /\ newest \in [Namespaces -> Workers \cup {None}]
    /\ crowded \subseteq Namespaces

Init ==
    /\ ClusterConfigs = [c \in Clusters |-> None]
    /\ NamespaceConfigedCluster = [n \in Namespaces |-> None]
    /\ ClusterConfigListeners = [n \in Namespaces |-> None]
    /\ PairClusterSettings = [w \in Workers |-> None]
    /\ reg = [w \in Workers |-> "unstarted"]
    /\ clusterName = [w \in Workers |-> None]
    /\ clusterCall = None /\ namespaceCall = None
    /\ updates = 0
    /\ overtaken = {}
    /\ newest = [n \in Namespaces |-> None] /\ crowded = {}

\* Every listener in ws is called with the settings s.
Notify(ws, s) ==
    PairClusterSettings' = [w \in Workers |-> IF w \in ws THEN s ELSE PairClusterSettings[w]]

Listeners(names) == {ClusterConfigListeners[n] : n \in names} \ {None}

\* Without settings for the cluster, no listener is called.
NotifyNamespaceConfigedClusterChange(n, c) ==
    Notify(IF ClusterConfigs[c] = None THEN {} ELSE Listeners({n}), ClusterConfigs[c])

-----------------------------------------------------------------------------
(* The reconcilers.  Each runs one call at a time.                         *)

UpdateClusterConfigToContainer(c, s) ==
    /\ clusterCall = None /\ updates < MaxUpdates
    /\ updates' = updates + 1
    /\ ClusterConfigs' = [ClusterConfigs EXCEPT ![c] = s]
    /\ clusterCall' = [cluster |-> c, settings |-> s]
    /\ UNCHANGED <<NamespaceConfigedCluster, ClusterConfigListeners, namespaceCall,
                   PairClusterSettings, reg, clusterName, overtaken, starts>>

NotifyClusterConfigChange ==
    /\ clusterCall # None
    /\ Notify(Listeners({n \in Namespaces :
                           NamespaceConfigedCluster[n] = clusterCall.cluster}),
              clusterCall.settings)
    /\ clusterCall' = None
    /\ UNCHANGED <<maps, namespaceCall, updates, reg, clusterName, overtaken, starts>>

Registering(n) == {w \in Workers : NsOf[w] = n /\ reg[w] \in {"read", "set"}}

UpdateNamespaceConfigedCluster(n, c) ==
    /\ namespaceCall = None /\ updates < MaxUpdates
    /\ updates' = updates + 1
    /\ NamespaceConfigedCluster' = [NamespaceConfigedCluster EXCEPT ![n] = c]
    /\ namespaceCall' = [namespace |-> n, cluster |-> c]
    /\ overtaken' = overtaken \cup Registering(n)
    /\ UNCHANGED <<ClusterConfigs, ClusterConfigListeners, clusterCall,
                   PairClusterSettings, reg, clusterName, starts>>

NotifyAfterNamespaceUpdate ==
    /\ namespaceCall # None
    /\ NotifyNamespaceConfigedClusterChange(namespaceCall.namespace, namespaceCall.cluster)
    /\ namespaceCall' = None
    /\ UNCHANGED <<maps, clusterCall, updates, reg, clusterName, overtaken, starts>>

\* Workers of a namespace that have been started and are still to register.
UnderWay(n) == {w \in Workers : NsOf[w] = n /\ reg[w] \in {"started", "read", "set"}}

\* The DRNamespace reconciler starts a worker once the namespace has a cluster;
\* a predecessor, if there is one, has been cancelled.
StartWorker(w) ==
    /\ namespaceCall = None
    /\ reg[w] = "unstarted" /\ NamespaceConfigedCluster[NsOf[w]] # None
    /\ reg' = [reg EXCEPT ![w] = "started"]
    /\ newest' = [newest EXCEPT ![NsOf[w]] = w]
    /\ crowded' = IF UnderWay(NsOf[w]) = {} THEN crowded ELSE crowded \cup {NsOf[w]}
    /\ UNCHANGED <<maps, calls, PairClusterSettings, clusterName, overtaken>>

-----------------------------------------------------------------------------
(* RegClusterConfigListener, on the goroutine of a worker, also of one that *)
(* has been cancelled meanwhile: nothing looks at its context here.        *)

\* The mapping is read before the lock is taken.
ReadClusterName(w) ==
    /\ reg[w] = "started" /\ NamespaceConfigedCluster[NsOf[w]] # None
    /\ clusterName' = [clusterName EXCEPT ![w] = NamespaceConfigedCluster[NsOf[w]]]
    /\ reg' = [reg EXCEPT ![w] = "read"]
    /\ UNCHANGED <<maps, calls, PairClusterSettings, overtaken, starts>>

\* Mutant: the listener is set for every namespace.
M_SetEverywhere(w) ==
    /\ reg[w] = "read"
    /\ ClusterConfigListeners' = [n \in Namespaces |-> w]
    /\ reg' = [reg EXCEPT ![w] = "set"]
    /\ UNCHANGED <<ClusterConfigs, NamespaceConfigedCluster, calls,
                   PairClusterSettings, clusterName, overtaken, starts>>

\* Mutant: a listener that is there is not replaced.
M_KeepFirst(w) ==
    /\ reg[w] = "read"
    /\ ClusterConfigListeners' =
         [ClusterConfigListeners EXCEPT ![NsOf[w]] = IF @ = None THEN w ELSE @]
    /\ reg' = [reg EXCEPT ![w] = "set"]
    /\ UNCHANGED <<ClusterConfigs, NamespaceConfigedCluster, calls,
                   PairClusterSettings, clusterName, overtaken, starts>>

SetListener(w) ==
    /\ reg[w] = "read"
    /\ ClusterConfigListeners' = [ClusterConfigListeners EXCEPT ![NsOf[w]] = w]
    /\ reg' = [reg EXCEPT ![w] = "set"]
    /\ UNCHANGED <<ClusterConfigs, NamespaceConfigedCluster, calls,
                   PairClusterSettings, clusterName, overtaken, starts>>

\* Mutant: a new listener has to wait for the next update.
M_NoFirstNotification(w) ==
    /\ reg[w] = "set"
    /\ reg' = [reg EXCEPT ![w] = "done"]
    /\ UNCHANGED <<maps, calls, PairClusterSettings, clusterName, overtaken, starts>>

NotifyAfterRegistration(w) ==
    /\ reg[w] = "set"
    /\ NotifyNamespaceConfigedClusterChange(NsOf[w], clusterName[w])
    /\ reg' = [reg EXCEPT ![w] = "done"]
    /\ UNCHANGED <<maps, calls, clusterName, overtaken, starts>>

Next ==
    \/ \E c \in Clusters, s \in Settings : UpdateClusterConfigToContainer(c, s)
    \/ \E n \in Namespaces, c \in Clusters : UpdateNamespaceConfigedCluster(n, c)
    \/ NotifyClusterConfigChange \/ NotifyAfterNamespaceUpdate
    \/ \E w \in Workers :
         StartWorker(w) \/ ReadClusterName(w) \/ SetListener(w) \/ NotifyAfterRegistration(w)

Spec == Init /\ [][Next]_vars

-----------------------------------------------------------------------------
(* Properties.                                                             *)

AtRest ==
    /\ clusterCall = None /\ namespaceCall = None
    /\ \A w \in Workers : reg[w] \in {"unstarted", "done"}

\* The settings of the cluster that namespace n is configured with.
Configured(n) ==
    IF NamespaceConfigedCluster[n] = None THEN None
    ELSE ClusterConfigs[NamespaceConfigedCluster[n]]

Follows(n) ==
    LET w == ClusterConfigListeners[n]
    IN w # None /\ Configured(n) # None => PairClusterSettings[w] = Configured(n)

\* At rest each listener has the settings of its namespace's cluster, however
\* the calls interleaved, if that cluster did not change during a registration:
\* no update slips between the two halves of two calls.
ListenersAreCurrent ==
    AtRest => \A n \in Namespaces :
      (\A w \in overtaken : NsOf[w] # n) => Follows(n)

\* At rest it is the worker started last that hears of settings, not one that
\* has been cancelled, if each worker was started after its predecessor had
\* registered.  (A late registration of a cancelled worker replaces that of its
\* successor, which then has to do with the settings it has got, if any.)
SuccessorListens ==
    AtRest => \A n \in Namespaces \ crowded : ClusterConfigListeners[n] = newest[n]
=============================================================================
