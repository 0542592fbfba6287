----------------------------- MODULE AckedReplica -----------------------------
(***************************************************************************)
(* What a transport manager promises about the versions of an object.      *)
(* Versions are offered, replicas are written, versions are acknowledged,  *)
(* and:                                                                    *)
(*   - a replica only ever holds a version that was offered;               *)
(*   - a version is acknowledged only while some replica holds it or a     *)
(*     newer one, and acknowledgements move forward;                       *)
(*   - a write carries a version newer than every acknowledged one, so     *)
(*     what was acknowledged is never taken back.                          *)
(* A write that is not acknowledged may be overtaken and undone.           *)
(***************************************************************************)
EXTENDS Naturals

CONSTANTS
    Keys,               \* objects
    Replicas,           \* where versions are stored
    VersionNumbers      \* a set of positive integers

VARIABLES offered, held, acked

replicaVars == <<offered, held, acked>>

ReplicaInit ==
    /\ offered = [k \in Keys |-> {}]
    /\ held = [r \in Replicas |-> [k \in Keys |-> 0]]
    /\ acked = [k \in Keys |-> 0]

Offer(k, v) ==
    /\ offered' = [offered EXCEPT ![k] = @ \cup {v}]
    /\ UNCHANGED <<held, acked>>

Store(r, k, v) ==
    /\ v \in offered[k] /\ v > acked[k]
    /\ held' = [held EXCEPT ![r][k] = v]
    /\ UNCHANGED <<offered, acked>>

Acknowledge(k, v) ==
    /\ v \in offered[k] /\ v > acked[k]
    /\ \E r \in Replicas : held[r][k] >= v
    /\ acked' = [acked EXCEPT ![k] = v]
    /\ UNCHANGED <<offered, held>>

ReplicaNext ==
    \E k \in Keys, v \in VersionNumbers :
       \/ Offer(k, v)
       \/ Acknowledge(k, v)
       \/ \E r \in Replicas : Store(r, k, v)

ReplicaSpec == ReplicaInit /\ [][ReplicaNext]_replicaVars
=============================================================================
