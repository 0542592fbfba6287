-------------------------- MODULE MCTransportManager --------------------------
(***************************************************************************)
(* An instance of TransportManager for TLC: the creation, an update and    *)
(* the deletion of one object, handed over in any order, against two pair  *)
(* clusters.  Names that the pair cluster does not serve or that are taken *)
(* occur in the instances of NamespaceWorker.                              *)
(***************************************************************************)
EXTENDS TransportManager

CONSTANTS u1, n1

Item(v, a) == [uid |-> u1, name |-> n1, ver |-> v, act |-> a]

LifeItems == {Item(1, "create"), Item(2, "update"), Item(4, "delete")}

MCUids   == {u1}
MCNames  == {n1}
MCServed == {n1}

UidOfLife  == [i \in LifeItems |-> i.uid]
NameOfLife == [i \in LifeItems |-> i.name]
VerOfLife  == [i \in LifeItems |-> i.ver]
ActOfLife  == [i \in LifeItems |-> i.act]
===============================================================================
