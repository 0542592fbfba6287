-------------------------- MODULE MCWorkerGenerations --------------------------
(***************************************************************************)
(* An instance of WorkerGenerations for TLC: one object is created,        *)
(* updated, deleted and created again while its worker is replaced.        *)
(***************************************************************************)
EXTENDS WorkerGenerations

CONSTANTS u1, u2, n1

Item(u, n, v, a) == [uid |-> u, name |-> n, ver |-> v, act |-> a]

\* An object is created, updated, deleted and created again under its name.
LifeEvents == {Item(u1, n1, 1, "create"), Item(u1, n1, 2, "update"),
               Item(u1, n1, 3, "delete"), Item(u2, n1, 4, "create")}

FoundItem(e, a) == [e EXCEPT !.act = a]
ItemsFor(events) ==
    events \cup {FoundItem(e, a) : e \in {f \in events : f.act # "delete"}, a \in {"create", "update"}}

LifeItems == ItemsFor(LifeEvents)
UidOfLife  == [i \in LifeItems |-> i.uid]
NameOfLife == [i \in LifeItems |-> i.name]
VerOfLife  == [i \in LifeItems |-> i.ver]
ActOfLife  == [i \in LifeItems |-> i.act]

\* What the theorems about generations assume holds of this life.
ASSUME UidsKeepPlaces /\ DeletionIsLast

\* Bound: a watch of which nothing was missed breaks while nothing is pending.
QuietReconnects ==
    reconnects' = reconnects \/ seen[n1] < revision \/ (Quiescent /\ processing = {})
================================================================================
